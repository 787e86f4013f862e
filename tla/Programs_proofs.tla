--------------------------- MODULE Programs_proofs ---------------------------
(***************************************************************************)
(* The models that share no state, for all values of their constants.      *)
(*                                                                         *)
(* Anchoring: which answer of Rekor a client takes for its own, and what a *)
(* receipt can be accepted for.  Encoding: what the log says of a request, *)
(* and what the verifier makes of it.                                      *)
(*                                                                         *)
(* What the hook installer reports and what the hooks let through, for any *)
(* return codes, any number of installs and any number of operations.      *)
(* What the Mermaid linter reports and how it exits, for any lines, files  *)
(* of any length and any lists of files: that the one pass of find_blocks, *)
(* with the block it holds, finds what is said of a text as a whole.       *)
(***************************************************************************)
EXTENDS RekorAnchor, RecordEncoding, GitHooks, MermaidLint, FiniteSetTheorems, TLAPS

-----------------------------------------------------------------------------
(* Anchoring *)

\* What is submitted: a checkpoint by any key, and the text of a key.
Submitted ==
  [checkpoint : [tree_size : Nat, key : Key \union {Operator}], publicKey : Pem]

Stages == {"idle", "emit", "append", "anchor", "build", "post"}

AnchorTypes ==
  /\ head \in Nat /\ calls \in Nat
  /\ stage \in [Client -> Stages]
  /\ request \in [Client -> {NoRequest} \union [n : Nat, body : Submitted]]
  /\ sent \subseteq [client : Client, n : Nat, body : Submitted]
  /\ rekor \in Seq(Submitted)

\* Rekor has checked the signature of every entry, and keeps equal content once.
HonestEntries ==
  \A n \in DOMAIN rekor:
    /\ KeyOf[rekor[n].publicKey] = rekor[n].checkpoint.key
    /\ \A m \in DOMAIN rekor: rekor[m] = rekor[n] => m = n

\* A call has its number from before its submission to its end, and nothing that its
\* client sent before has that number.
CallsAreTold ==
  /\ \A req \in sent: req.n \in 1..calls
  /\ \A req \in sent: stage[req.client] \in {"anchor", "build"} => req.n < calls
  /\ \A c \in Client: stage[c] \in {"anchor", "build"} => calls > 0

\* What a client waits for is the answer to what it has sent.
AnswersMatch == \A req \in sent: Awaited(req) => request[req.client].body = req.body

\* A receipt names an entry, and was given out for the content of that entry.
ReceiptsName ==
  \A r \in receipts: \E n \in DOMAIN rekor:
    r = [body |-> rekor[n], receipt |-> Receipt(rekor[n], n)]

AnchorInv ==
  /\ AnchorTypes
  /\ HonestEntries /\ CallsAreTold /\ AnswersMatch /\ ReceiptsName

-----------------------------------------------------------------------------
(* Operators *)

LEMMA BodyIsItsParts ==
  ASSUME NEW body \in Submitted
  PROVE  CheckpointHashedRekord(body.checkpoint, body.publicKey) = body
BY DEF Submitted, CheckpointHashedRekord

\* The index is signed with the content: a receipt that is accepted at index n, in any
\* mode, was signed for entry n, and vouches for the content of that entry.
LEMMA AcceptedIsTheEntry ==
  ASSUME NEW n \in DOMAIN rekor, NEW cp \in AcceptedAt(n)
  PROVE  cp = rekor[n].checkpoint
<1>1. PICK receipt \in Recombined, pem \in Pem \union {NoPem}, online \in BOOLEAN:
        receipt.log_index = n /\ VerifyAnchor(receipt, cp, pem, online)
  BY DEF AcceptedAt
<1>2. PICK k, m \in DOMAIN rekor, id \in DOMAIN rekor \union {NoEntryID}:
        receipt = [log_index |-> k,
                   signed_entry_timestamp |-> SignedEntryTimestamp(rekor[m], m),
                   entry_id |-> id]
  BY DEF Recombined
<1>3. \E public: VerifyRekorReceiptOffline(receipt, cp, public)
  <2>1. CASE pem = NoPem
    BY <1>1, <2>1 DEF VerifyAnchor, VerifyRekorReceiptOnline
  <2>2. CASE pem # NoPem /\ online
    BY <1>1, <2>2 DEF VerifyAnchor, VerifyRekorReceiptOnline
  <2>3. CASE pem # NoPem /\ ~online
    BY <1>1, <2>3 DEF VerifyAnchor
  <2>4. QED BY <2>1, <2>2, <2>3
<1>4. PICK public: VerifyRekorReceiptOffline(receipt, cp, public)
  BY <1>3
<1>5. receipt.signed_entry_timestamp = SignedEntryTimestamp(rekor[m], m) /\ k = n
  BY <1>1, <1>2
<1>6. SignedEntryTimestamp(rekor[m], m)
        = SignedEntryTimestamp(CheckpointHashedRekord(cp, public), n)
  BY <1>1, <1>4, <1>5 DEF VerifyRekorReceiptOffline
<1>7. m = n /\ rekor[m] = CheckpointHashedRekord(cp, public)
  BY <1>6 DEF SignedEntryTimestamp
<1>8. QED BY <1>7 DEF CheckpointHashedRekord

-----------------------------------------------------------------------------
(* The invariant *)

\* Rekor's log only grows, and what it holds stays where it is.
LEMMA EntriesStay ==
  ASSUME AnchorTypes, ReceiptsName,
         rekor' = rekor \/ \E body: rekor' = Append(rekor, body)
  PROVE  \A r \in receipts: \E n \in DOMAIN rekor':
           r = [body |-> rekor'[n], receipt |-> Receipt(rekor'[n], n)]
<1>1. \A n \in DOMAIN rekor: n \in DOMAIN rekor' /\ rekor'[n] = rekor[n]
  BY DEF AnchorTypes
<1>2. TAKE r \in receipts
<1>3. PICK n \in DOMAIN rekor: r = [body |-> rekor[n], receipt |-> Receipt(rekor[n], n)]
  BY <1>2 DEF ReceiptsName
<1>4. n \in DOMAIN rekor' /\ rekor'[n] = rekor[n]
  BY <1>1
<1>5. QED BY <1>3, <1>4

\* The end of a call leaves the client with no request: no later answer is its own.
LEMMA ReturnKeeps ==
  ASSUME AnchorInv, NEW c \in Client, PostReturns(c), calls' = calls,
         sent' \subseteq sent
  PROVE  /\ stage' \in [Client -> Stages]
         /\ request' \in [Client -> {NoRequest} \union [n : Nat, body : Submitted]]
         /\ CallsAreTold' /\ AnswersMatch'
<1> USE DEF AnchorInv, AnchorTypes
<1>1. stage' = [stage EXCEPT ![c] = "idle"] /\ request' = [request EXCEPT ![c] = NoRequest]
  BY DEF PostReturns
<1>2. /\ stage' \in [Client -> Stages]
      /\ request' \in [Client -> {NoRequest} \union [n : Nat, body : Submitted]]
  BY <1>1 DEF Stages
<1>3. CallsAreTold'
  BY <1>1 DEF CallsAreTold
<1>4. AnswersMatch'
  <2> SUFFICES ASSUME NEW req \in sent', Awaited(req)'
               PROVE  request'[req.client].body = req.body
    BY DEF AnswersMatch
  <2>1. req \in sent /\ req.client \in Client /\ req.n > 0 /\ request'[req.client].n = req.n
    BY DEF CallsAreTold, Awaited
  <2>2. req.client # c
    BY <1>1, <2>1 DEF NoRequest
  <2>3. QED BY <1>1, <2>1, <2>2 DEF AnswersMatch, Awaited
<1>5. QED BY <1>2, <1>3, <1>4

\* A submission has a number of its own among those of its client.
LEMMA SubmitKeeps ==
  ASSUME AnchorInv, NEW c \in Client, NEW body \in Submitted, Submit(c, calls', body),
         calls' \in Nat, calls' >= calls, calls' > 0,
         \A req \in sent: req.client = c => req.n < calls',
         UNCHANGED <<rekor, receipts>>
  PROVE  /\ stage' \in [Client -> Stages]
         /\ request' \in [Client -> {NoRequest} \union [n : Nat, body : Submitted]]
         /\ sent' \subseteq [client : Client, n : Nat, body : Submitted]
         /\ CallsAreTold' /\ AnswersMatch'
<1> USE DEF AnchorInv, AnchorTypes
<1> DEFINE new == [client |-> c, n |-> calls', body |-> body]
           asked == [n |-> calls', body |-> body]
<1>1. /\ stage' = [stage EXCEPT ![c] = "post"]
      /\ request' = [request EXCEPT ![c] = asked]
      /\ sent' = sent \union {new}
  BY DEF Submit
<1>2. /\ asked \in [n : Nat, body : Submitted] /\ asked.n = calls' /\ asked.body = body
      /\ new \in [client : Client, n : Nat, body : Submitted]
      /\ new.client = c /\ new.n = calls' /\ new.body = body
  OBVIOUS
<1> HIDE DEF new, asked
<1>3. /\ stage' \in [Client -> Stages]
      /\ request' \in [Client -> {NoRequest} \union [n : Nat, body : Submitted]]
      /\ sent' \subseteq [client : Client, n : Nat, body : Submitted]
  BY <1>1, <1>2 DEF Stages
<1>4. CallsAreTold'
  <2>1. \A req \in sent': req.n \in 1..calls'
    BY <1>1, <1>2 DEF CallsAreTold
  <2>2. \A req \in sent': stage'[req.client] \in {"anchor", "build"} => req.n < calls'
    BY <1>1, <1>2 DEF CallsAreTold
  <2>3. QED BY <1>1, <2>1, <2>2 DEF CallsAreTold
<1>5. AnswersMatch'
  <2> SUFFICES ASSUME NEW req \in sent', request'[req.client].n = req.n
               PROVE  request'[req.client].body = req.body
    BY DEF AnswersMatch, Awaited
  <2>1. CASE req = new
    BY <1>1, <1>2, <2>1
  <2>2. CASE req \in sent
    <3>1. req.client \in Client /\ (req.client = c => req.n < calls') /\ req.n \in Nat
      BY <2>2
    <3>2. req.client # c
      BY <1>1, <1>2, <3>1
    <3>3. QED BY <1>1, <2>2, <3>1, <3>2 DEF AnswersMatch, Awaited
  <2>3. QED BY <1>1, <2>1, <2>2
<1>6. QED BY <1>3, <1>4, <1>5

\* An answer of Rekor about its entry n of the content that was sent: the receipt is for
\* what the client has submitted.
LEMMA AnswerKeeps ==
  ASSUME AnchorInv, NEW req \in sent, NEW entry \in SUBSET DOMAIN rekor',
         \A n \in entry: rekor'[n] = req.body,
         rekor' \in Seq(Submitted),
         rekor' = rekor \/ \E body: rekor' = Append(rekor, body),
         Returned(req, entry) \/ NoAnswer,
         sent' = sent \ {req}, UNCHANGED <<head, calls>>, HonestEntries'
  PROVE  AnchorInv'
<1> USE DEF AnchorInv
<1>1. \A r \in receipts: \E n \in DOMAIN rekor':
        r = [body |-> rekor'[n], receipt |-> Receipt(rekor'[n], n)]
  BY EntriesStay
<1>2. req.client \in Client /\ sent' \subseteq sent
  BY DEF AnchorTypes
<1>3. CASE Returned(req, entry)
  <2>1. /\ stage' \in [Client -> Stages]
        /\ request' \in [Client -> {NoRequest} \union [n : Nat, body : Submitted]]
        /\ CallsAreTold' /\ AnswersMatch'
    BY <1>2, <1>3, ReturnKeeps DEF Returned
  <2>2. request[req.client].body = req.body
    BY <1>3 DEF Returned, AnswersMatch
  <2>3. ReceiptsName'
    <3> SUFFICES ASSUME NEW r \in receipts'
                 PROVE  \E n \in DOMAIN rekor':
                          r = [body |-> rekor'[n], receipt |-> Receipt(rekor'[n], n)]
      BY Zenon DEF ReceiptsName
    <3>1. CASE r \in receipts
      BY <1>1, <3>1
    <3>2. CASE r \notin receipts
      <4>1. PICK n \in entry: r = [body |-> request[req.client].body,
                                   receipt |-> Receipt(rekor'[n], n)]
        BY <1>3, <3>2 DEF Returned
      <4>2. n \in DOMAIN rekor' /\ rekor'[n] = request[req.client].body
        BY <2>2
      <4>3. QED BY <4>1, <4>2
    <3>3. QED BY <3>1, <3>2
  <2>4. AnchorTypes'
    BY <1>2, <2>1 DEF AnchorTypes
  <2>5. QED BY <2>1, <2>3, <2>4
<1>4. CASE NoAnswer
  <2>1. AnchorTypes' /\ CallsAreTold'
    BY <1>2, <1>4 DEF NoAnswer, AnchorTypes, CallsAreTold
  <2>2. AnswersMatch'
    BY <1>2, <1>4 DEF NoAnswer, AnswersMatch, Awaited
  <2>3. ReceiptsName'
    BY <1>1, <1>4 DEF NoAnswer, ReceiptsName
  <2>4. QED BY <2>1, <2>2, <2>3
<1>5. QED BY <1>3, <1>4

LEMMA AnchorInit_Inv == AnchorInit => AnchorInv
BY DEF AnchorInit, AnchorInv, AnchorTypes, Stages, HonestEntries, CallsAreTold,
       AnswersMatch, ReceiptsName

LEMMA AnchorInvStep == AnchorInv /\ [AnchorNext]_anchorVars => AnchorInv'
<1> SUFFICES ASSUME AnchorInv, [AnchorNext]_anchorVars
             PROVE  AnchorInv'
  OBVIOUS
<1> USE DEF AnchorInv
<1>1. ASSUME NEW c \in Client, AnchorCall(c)
      PROVE  AnchorInv'
  <2>1. AnchorTypes' /\ HonestEntries'
    BY <1>1 DEF AnchorCall, AnchorTypes, Stages, HonestEntries
  <2>2. CallsAreTold'
    <3>1. CASE calls' = calls /\ stage' = [stage EXCEPT ![c] = "emit"]
      BY <1>1, <3>1 DEF AnchorCall, AnchorTypes, CallsAreTold
    <3>2. CASE calls' = calls + 1 /\ stage' = [stage EXCEPT ![c] = "anchor"]
      BY <1>1, <3>2 DEF AnchorCall, AnchorTypes, CallsAreTold
    <3>3. QED BY <1>1, <3>1, <3>2 DEF AnchorCall
  <2>3. AnswersMatch' /\ ReceiptsName'
    BY <1>1 DEF AnchorCall, AnswersMatch, Awaited, ReceiptsName
  <2>4. QED BY <2>1, <2>2, <2>3
<1>2. ASSUME NEW c \in Client, AnchorLock(c)
      PROVE  AnchorInv'
  <2>1. AnchorTypes' /\ HonestEntries'
    BY <1>2 DEF AnchorLock, AnchorTypes, Stages, HonestEntries
  <2>2. \A d \in Client: stage'[d] \in {"anchor", "build"} => stage[d] \in {"anchor", "build"}
    BY <1>2 DEF AnchorLock, AnchorTypes
  <2>3. CallsAreTold'
    BY <1>2, <2>2 DEF AnchorLock, AnchorTypes, CallsAreTold
  <2>4. AnswersMatch' /\ ReceiptsName'
    BY <1>2 DEF AnchorLock, AnswersMatch, Awaited, ReceiptsName
  <2>5. QED BY <2>1, <2>3, <2>4
<1>3. ASSUME NEW c \in Client, AnchorEmit(c)
      PROVE  AnchorInv'
  <2>1. AnchorTypes' /\ HonestEntries'
    BY <1>3 DEF AnchorEmit, AnchorTypes, Stages, HonestEntries
  <2>2. CallsAreTold'
    BY <1>3 DEF AnchorEmit, AnchorTypes, CallsAreTold
  <2>3. AnswersMatch' /\ ReceiptsName'
    BY <1>3 DEF AnchorEmit, AnswersMatch, Awaited, ReceiptsName
  <2>4. QED BY <2>1, <2>2, <2>3
<1>4. ASSUME NEW c \in Client, BuildAndPost(c)
      PROVE  AnchorInv'
  <2>1. PICK pem \in Pem:
          Submit(c, calls, CheckpointHashedRekord([tree_size |-> head, key |-> Operator], pem))
    BY <1>4 DEF BuildAndPost
  <2> DEFINE body == CheckpointHashedRekord([tree_size |-> head, key |-> Operator], pem)
  <2>2. body \in Submitted
    BY DEF Submitted, CheckpointHashedRekord, AnchorTypes
  <2>3. UNCHANGED <<head, calls, rekor, receipts>> /\ stage[c] = "build"
    BY <1>4 DEF BuildAndPost
  <2>4. calls > 0 /\ \A req \in sent: req.client = c => req.n < calls
    BY <2>3 DEF CallsAreTold
  <2>5. Submit(c, calls', body) /\ calls' \in Nat /\ calls' >= calls /\ calls' > 0
        /\ \A req \in sent: req.client = c => req.n < calls'
    BY <2>1, <2>3, <2>4 DEF AnchorTypes
  <2> HIDE DEF body
  <2>6. /\ stage' \in [Client -> Stages]
        /\ request' \in [Client -> {NoRequest} \union [n : Nat, body : Submitted]]
        /\ sent' \subseteq [client : Client, n : Nat, body : Submitted]
        /\ CallsAreTold' /\ AnswersMatch'
    BY <2>2, <2>3, <2>5, SubmitKeeps
  <2>7. HonestEntries' /\ ReceiptsName'
    BY <2>3 DEF HonestEntries, ReceiptsName
  <2>8. QED BY <2>3, <2>6, <2>7 DEF AnchorTypes
<1>5. ASSUME NEW c \in Client, PostStored(c)
      PROVE  AnchorInv'
  <2>1. PICK cp \in Stored, pem \in Pem: Submit(c, calls', CheckpointHashedRekord(cp, pem))
    BY <1>5 DEF PostStored
  <2> DEFINE body == CheckpointHashedRekord(cp, pem)
  <2>2. body \in Submitted
    BY AnchorAssumption DEF Submitted, CheckpointHashedRekord, Stored, SignedCheckpoint
  <2>3. UNCHANGED <<head, rekor, receipts>> /\ calls' = calls + 1
    BY <1>5 DEF PostStored
  <2>4. calls' \in Nat /\ calls' >= calls /\ calls' > 0
        /\ \A req \in sent: req.client = c => req.n < calls'
    BY <2>3 DEF AnchorTypes, CallsAreTold
  <2>5. Submit(c, calls', body)
    BY <2>1
  <2> HIDE DEF body
  <2>6. /\ stage' \in [Client -> Stages]
        /\ request' \in [Client -> {NoRequest} \union [n : Nat, body : Submitted]]
        /\ sent' \subseteq [client : Client, n : Nat, body : Submitted]
        /\ CallsAreTold' /\ AnswersMatch'
    BY <2>2, <2>3, <2>4, <2>5, SubmitKeeps
  <2>7. HonestEntries' /\ ReceiptsName'
    BY <2>3 DEF HonestEntries, ReceiptsName
  <2>8. QED BY <2>3, <2>4, <2>6, <2>7 DEF AnchorTypes
<1>6. ASSUME NEW c \in Client, Timeout(c)
      PROVE  AnchorInv'
  <2>1. PostReturns(c) /\ UNCHANGED <<head, sent, rekor, receipts, calls>>
    BY <1>6 DEF Timeout
  <2>2. /\ stage' \in [Client -> Stages]
        /\ request' \in [Client -> {NoRequest} \union [n : Nat, body : Submitted]]
        /\ CallsAreTold' /\ AnswersMatch'
    BY <2>1, ReturnKeeps
  <2>3. HonestEntries' /\ ReceiptsName'
    BY <2>1 DEF HonestEntries, ReceiptsName
  <2>4. QED BY <2>1, <2>2, <2>3 DEF AnchorTypes
<1>7. CASE RekorAdds
  <2>1. PICK req \in sent:
          /\ KeyOf[req.body.publicKey] = req.body.checkpoint.key
          /\ \A n \in DOMAIN rekor: rekor[n] # req.body
          /\ rekor' = Append(rekor, req.body)
          /\ Returned(req, {Len(rekor')}) \/ NoAnswer
          /\ sent' = sent \ {req}
          /\ UNCHANGED <<head, calls>>
    BY <1>7 DEF RekorAdds
  <2>2. req.body \in Submitted
    BY DEF AnchorTypes
  <2>3. /\ rekor' \in Seq(Submitted) /\ DOMAIN rekor' = DOMAIN rekor \union {Len(rekor')}
        /\ rekor'[Len(rekor')] = req.body /\ Len(rekor') \notin DOMAIN rekor
        /\ \A n \in DOMAIN rekor: rekor'[n] = rekor[n]
    BY <2>1, <2>2 DEF AnchorTypes
  <2>4. HonestEntries'
    BY <2>1, <2>3 DEF HonestEntries
  <2>5. QED BY <2>1, <2>3, <2>4, AnswerKeeps
<1>8. CASE RekorKnows
  <2>1. PICK req \in sent, n \in DOMAIN rekor:
          /\ rekor[n] = req.body
          /\ UNCHANGED rekor
          /\ Returned(req, {n}) \/ Returned(req, {}) \/ NoAnswer
          /\ sent' = sent \ {req}
          /\ UNCHANGED <<head, calls>>
    BY <1>8 DEF RekorKnows
  <2>2. HonestEntries' /\ rekor' \in Seq(Submitted)
    BY <2>1 DEF HonestEntries, AnchorTypes
  <2>3. CASE Returned(req, {n}) \/ NoAnswer
    BY <2>1, <2>2, <2>3, AnswerKeeps
  <2>4. CASE Returned(req, {})
    BY <2>1, <2>2, <2>4, AnswerKeeps
  <2>5. QED BY <2>1, <2>3, <2>4
<1>9. CASE RekorRefuses
  <2>1. PICK req \in sent:
          /\ UNCHANGED rekor
          /\ Returned(req, {}) \/ NoAnswer
          /\ sent' = sent \ {req}
          /\ UNCHANGED <<head, calls>>
    BY <1>9 DEF RekorRefuses
  <2>2. HonestEntries' /\ rekor' \in Seq(Submitted)
    BY <2>1 DEF HonestEntries, AnchorTypes
  <2>3. QED BY <2>1, <2>2, AnswerKeeps
<1>10. CASE UNCHANGED anchorVars
  <2>1. AnchorTypes' /\ HonestEntries' /\ CallsAreTold'
    BY <1>10 DEF anchorVars, AnchorTypes, HonestEntries, CallsAreTold
  <2>2. AnswersMatch' /\ ReceiptsName'
    BY <1>10 DEF anchorVars, AnswersMatch, Awaited, ReceiptsName
  <2>3. QED BY <2>1, <2>2
<1>11. QED
  BY <1>1, <1>2, <1>3, <1>4, <1>5, <1>6, <1>7, <1>8, <1>9, <1>10
     DEF AnchorNext, Network, Locally

(***************************************************************************)
(* A client takes the answer to its own pending request only, and every    *)
(* receipt names the entry of what it was given out for, whatever is lost, *)
(* late or repeated (SubmitCheckpoint, rekor.go).                          *)
(***************************************************************************)
THEOREM AnswersAreOnesOwn == AnchorSpec => []AnchorInv
<1>1. AnchorInit => AnchorInv
  BY AnchorInit_Inv
<1>2. AnchorInv /\ [AnchorNext]_anchorVars => AnchorInv'
  BY AnchorInvStep
<1>3. QED BY <1>1, <1>2, PTL DEF AnchorSpec

-----------------------------------------------------------------------------
(* What receipts are worth *)

LEMMA NamedReceiptsVerify == AnchorInv => ReceiptsVerify
<1> SUFFICES ASSUME AnchorInv, NEW r \in receipts, NEW online \in BOOLEAN
             PROVE  VerifyAnchor(r.receipt, r.body.checkpoint, r.body.publicKey, online)
  BY DEF ReceiptsVerify
<1>1. PICK n \in DOMAIN rekor: r = [body |-> rekor[n], receipt |-> Receipt(rekor[n], n)]
  BY DEF AnchorInv, ReceiptsName
<1> DEFINE body == rekor[n]
<1>2. r.body = body /\ r.receipt = Receipt(body, n)
  BY <1>1
<1>3. /\ body \in Submitted /\ n # NoEntryID
      /\ KeyOf[body.publicKey] = body.checkpoint.key
  BY DEF AnchorInv, AnchorTypes, HonestEntries, NoEntryID
<1>4. CheckpointHashedRekord(body.checkpoint, body.publicKey) = body
  BY <1>3, BodyIsItsParts
<1>5. body.publicKey # NoPem
  BY <1>3, AnchorAssumption DEF Submitted
<1>6. VerifySignedCheckpoint(body.checkpoint, body.publicKey)
  BY <1>3 DEF VerifySignedCheckpoint
<1>7. VerifyRekorReceiptOffline(Receipt(body, n), body.checkpoint, body.publicKey)
  BY <1>4 DEF VerifyRekorReceiptOffline, Receipt
<1>8. VerifyRekorReceiptOnline(Receipt(body, n), body.checkpoint, body.publicKey)
  BY <1>3, <1>4, <1>7 DEF VerifyRekorReceiptOnline, Fetched, Receipt
<1>9. QED BY <1>2, <1>5, <1>6, <1>7, <1>8 DEF VerifyAnchor

(***************************************************************************)
(* A receipt that was given out is accepted for what was submitted, with   *)
(* the text it was submitted with, offline and online, from then on: the   *)
(* answers of abandoned calls, conflicts and losses notwithstanding.       *)
(***************************************************************************)
THEOREM ReceiptsStayGood == AnchorSpec => []ReceiptsVerify
<1>1. AnchorInv => ReceiptsVerify
  BY NamedReceiptsVerify
<1>2. QED BY AnswersAreOnesOwn, <1>1, PTL

(***************************************************************************)
(* No index has two checkpoints that anybody accepts, whichever receipt is *)
(* put together from the entries of Rekor, and whichever key text and mode *)
(* it is verified with (VerifyRekorReceiptOffline and -Online, rekor.go).  *)
(* It follows from what is signed alone, in every state.                   *)
(***************************************************************************)
THEOREM OneCheckpointPerIndex == AnchorSpec => []AuditorsAgree
<1>1. AuditorsAgree
  BY AcceptedIsTheEntry DEF AuditorsAgree
<1>2. QED BY <1>1, PTL

-----------------------------------------------------------------------------
(* Encoding *)

JSON == JSONNumber \union JSONString

Characters == {"a", "<", "U+FFFD", "bad byte"}

\* What can be in a leaf of an event, and what can be in one that was decoded.
Values == {I64(n) : n \in -Far..Far} \union {Str(s) : s \in Characters}
Decoded == {I64(n) : n \in Int64} \union {Str(s) : s \in Characters \ {"bad byte"}}

\* A line of the log, and its hash.
Text == [Fields -> JSON]
Hash == Seq(Text)

Line ==
  [text : Text, prev_hash : Hash, hash : Hash, source : {"socket", "command"},
   said : [Fields -> JSON \union Values]]

\* The value that stands for what a client sent in field f.
Recorded(f, json) ==
  IF f = "ts" /\ Meant(json).go # "int64" THEN I64(0) ELSE Meant(json)

\* The hash of a line from the socket, and its text in another form, are both of one
\* record, and that record is what the client sent.
IsOfWhatWasSent(line) ==
  /\ line.said \in [Fields -> JSON]
  /\ \E rec \in [Fields -> Decoded]:
       /\ line.text = marshal(rec)
       /\ line.hash = contentHash(line.prev_hash, rec)
       /\ \A f \in Fields: line.said[f].json # "fraction" /\ rec[f] = Recorded(f, line.said[f])

EncodingInv ==
  /\ records \in Seq(Line) /\ lastHash \in Hash
  /\ \A k \in 1..Len(records):
       /\ records[k].prev_hash = (IF k = 1 THEN << >> ELSE records[k - 1].hash)
       /\ records[k].source = "socket" => IsOfWhatWasSent(records[k])
  /\ lastHash = IF records = << >> THEN << >> ELSE records[Len(records)].hash

-----------------------------------------------------------------------------
(* Numbers *)

LEMMA PowerIsPositive == 2^Width \in Nat \ {0}
<1>1. Width \in Nat
  BY EncodingAssumption
<1>2. IsFiniteSet(1..Width) /\ Cardinality(1..Width) = Width
  BY <1>1, FS_Interval
<1>3. IsFiniteSet(SUBSET (1..Width)) /\ Cardinality(SUBSET (1..Width)) = 2^Width
  BY <1>2, FS_SUBSET
<1>4. Cardinality(SUBSET (1..Width)) \in Nat
  BY <1>3, FS_CardinalityType
<1>5. Cardinality(SUBSET (1..Width)) # 0
  BY <1>3, FS_EmptySet
<1>6. QED BY <1>3, <1>4, <1>5

LEMMA Int64Facts == 0 \in Int64 /\ Int64 \subseteq Int /\ Int64 \subseteq -Far..Far
<1>1. PICK power \in Nat \ {0}: power = 2^Width
  BY PowerIsPositive
<1>2. Int64 = -power..(power - 1) /\ Far \in Nat /\ Far > power
  BY <1>1, EncodingAssumption DEF Int64
<1>3. QED BY <1>1, <1>2

-----------------------------------------------------------------------------
(* Leaves *)

LEMMA DecodedValues == Decoded \subseteq Values
BY Int64Facts DEF Decoded, Values

\* Whatever is no number goes through as it is.
LEMMA OthersPass ==
  ASSUME NEW v, v.go = "string"
  PROVE  normalizeJSONNumberValue(v) = {v}
<1>1. v.go # "json.Number"
  OBVIOUS
<1>2. QED BY ONLY <1>1 DEF normalizeJSONNumberValue

\* What is read of a leaf is refused, or means what was sent.
LEMMA DecodingMeansIt ==
  ASSUME NEW json \in JSON, NEW v \in normalizeJSONNumberValue(decode(json))
  PROVE  v \in Decoded /\ json.json # "fraction" /\ v = Meant(json)
<1>1. CASE json \in JSONNumber
  <2>1. decode(json) = Number(json) /\ json.json # "string"
    BY <1>1 DEF decode, JSONNumber
  <2>2. Number(json).go = "json.Number" /\ Number(json).literal = json
    BY DEF Number
  <2>3. json.json = "integer" /\ json.n \in Int64 /\ v = I64(json.n)
    BY <2>1, <2>2 DEF normalizeJSONNumberValue
  <2>4. QED BY <2>1, <2>3 DEF Decoded, Meant
<1>2. CASE json \in JSONString
  <2>1. decode(json) = Str(unquote(json.text)) /\ json.json = "string"
    BY <1>2 DEF decode, JSONString
  <2>2. unquote(json.text) \in Characters \ {"bad byte"}
    BY <1>2 DEF unquote, JSONString, Characters
  <2>3. Str(unquote(json.text)).go = "string"
    BY DEF Str
  <2>4. v = Str(unquote(json.text))
    BY <2>1, <2>3, OthersPass
  <2>5. QED BY <2>1, <2>2, <2>4 DEF Decoded, Meant
<1>3. QED BY <1>1, <1>2 DEF JSON

\* A value that was decoded survives being written for a line and read again.
LEMMA LineHoldsValue ==
  ASSUME NEW v \in Decoded
  PROVE  normalizeJSONNumberValue(decode(encode(v, TRUE))) = {v}
<1>1. CASE v \in {I64(n) : n \in Int64}
  <2>1. PICK n \in Int64: v = I64(n)
    BY <1>1
  <2> DEFINE json == [json |-> "integer", n |-> n]
  <2>2. encode(v, TRUE) = json
    BY <2>1 DEF encode, I64
  <2>3. json.json = "integer" /\ json.n = n
    OBVIOUS
  <2> HIDE DEF json
  <2>4. decode(json) = Number(json)
    BY <2>3 DEF decode
  <2>5. Number(json).go = "json.Number" /\ Number(json).literal = json
    BY DEF Number
  <2>6. normalizeJSONNumberValue(Number(json)) = {I64(n)}
    BY <2>3, <2>5 DEF normalizeJSONNumberValue
  <2>7. QED BY <2>1, <2>2, <2>4, <2>6
<1>2. CASE v \in {Str(s) : s \in Characters \ {"bad byte"}}
  <2>1. PICK s \in Characters \ {"bad byte"}: v = Str(s)
    BY <1>2
  <2> DEFINE json == [json |-> "string", text |-> quote(s, TRUE)]
  <2>2. encode(v, TRUE) = json
    BY <2>1 DEF encode, Str
  <2>3. json.json = "string" /\ json.text = quote(s, TRUE)
    OBVIOUS
  <2>4. unquote(quote(s, TRUE)) = s
    BY DEF unquote, quote, Characters
  <2> HIDE DEF json
  <2>5. decode(json) = v
    BY <2>1, <2>3, <2>4 DEF decode
  <2>6. v.go = "string"
    BY <2>1 DEF Str
  <2>7. QED BY <2>2, <2>5, <2>6, OthersPass
<1>3. QED BY <1>1, <1>2 DEF Decoded

LEMMA EncodedIsJSON ==
  ASSUME NEW v \in Values, NEW escapeHTML \in BOOLEAN
  PROVE  encode(v, escapeHTML) \in JSON
<1>1. CASE v \in {I64(n) : n \in -Far..Far}
  <2>1. PICK n \in -Far..Far: v = I64(n)
    BY <1>1
  <2>2. encode(v, escapeHTML) = [json |-> "integer", n |-> n]
    BY <2>1 DEF encode, I64
  <2>3. QED BY <2>2 DEF JSON, JSONNumber
<1>2. CASE v \in {Str(s) : s \in Characters}
  <2>1. PICK s \in Characters: v = Str(s)
    BY <1>2
  <2>2. encode(v, escapeHTML) = [json |-> "string", text |-> quote(s, escapeHTML)]
    BY <2>1 DEF encode, Str
  <2>3. quote(s, escapeHTML) \in {"a", "<", "\\u003c", "U+FFFD", "\\ufffd", "bad byte"}
    BY DEF quote, Characters
  <2> DEFINE written == quote(s, escapeHTML)
  <2> HIDE DEF written
  <2>4. [json |-> "string", text |-> written] \in JSONString
    BY <2>3 DEF JSONString, written
  <2>5. QED BY <2>2, <2>4 DEF JSON, written
<1>3. QED BY <1>1, <1>2 DEF Values

-----------------------------------------------------------------------------
(* Records *)

\* What is normalised is normalised leaf by leaf.
LEMMA NormalisedLeaves ==
  ASSUME NEW event, NEW normalised \in normalizeJSONNumbers(event)
  PROVE  /\ normalised = [f \in Fields |-> normalised[f]]
         /\ \A f \in Fields: normalised[f] \in normalizeJSONNumberValue(event[f])
<1>1. /\ \A f \in Fields: normalizeJSONNumberValue(event[f]) # {}
      /\ normalised = [f \in Fields |-> CHOOSE v \in normalizeJSONNumberValue(event[f]) : TRUE]
  BY Zenon DEF normalizeJSONNumbers
<1>2. ASSUME NEW f \in Fields
      PROVE  normalised[f] \in normalizeJSONNumberValue(event[f])
  <2>1. \E v: v \in normalizeJSONNumberValue(event[f])
    BY <1>1
  <2>2. (CHOOSE v \in normalizeJSONNumberValue(event[f]) : TRUE)
          \in normalizeJSONNumberValue(event[f])
    BY <2>1
  <2>3. QED BY <1>1, <2>2
<1>3. QED BY <1>1, <1>2

\* The verifier makes of a line the record that the line was made of.
LEMMA RereadIsTheRecord ==
  ASSUME NEW rec \in [Fields -> Decoded]
  PROVE  normalizeJSONNumbers([f \in Fields |-> decode(marshal(rec)[f])]) = {rec}
<1> DEFINE event == [f \in Fields |-> decode(marshal(rec)[f])]
<1>1. \A f \in Fields: event[f] = decode(encode(rec[f], TRUE))
  BY DEF marshal
<1>2. \A f \in Fields: normalizeJSONNumberValue(event[f]) = {rec[f]}
  BY <1>1, LineHoldsValue
<1> HIDE DEF event
<1>3. normalizeJSONNumbers(event)
        = {[f \in Fields |-> CHOOSE v \in normalizeJSONNumberValue(event[f]) : TRUE]}
  BY <1>2 DEF normalizeJSONNumbers
<1>4. ASSUME NEW f \in Fields
      PROVE  (CHOOSE v \in normalizeJSONNumberValue(event[f]) : TRUE) = rec[f]
  <2>1. \E v: v \in {rec[f]}
    OBVIOUS
  <2>2. (CHOOSE v \in {rec[f]} : TRUE) \in {rec[f]}
    BY <2>1
  <2>3. QED BY <1>2, <2>2
<1>5. [f \in Fields |-> CHOOSE v \in normalizeJSONNumberValue(event[f]) : TRUE] = rec
  BY <1>4
<1>6. QED BY <1>3, <1>5 DEF event

LEMMA RecordOfFacts ==
  ASSUME NEW S \in SUBSET Values, I64(0) \in S, NEW event \in [Fields -> S]
  PROVE  /\ RecordOf(event) \in [Fields -> S]
         /\ \A f \in Fields: RecordOf(event)[f]
              = IF f = "ts" /\ event[f].go # "int64" THEN I64(0) ELSE event[f]
<1>1. "ts" \in Fields
  BY DEF Fields
<1>2. I64(toInt64(event["ts"])) = IF event["ts"].go # "int64" THEN I64(0) ELSE event["ts"]
  <2>1. CASE event["ts"] \in {I64(n) : n \in -Far..Far}
    BY <2>1 DEF toInt64, I64
  <2>2. CASE event["ts"] \in {Str(s) : s \in Characters}
    BY <2>2 DEF toInt64, Str
  <2>3. QED BY <1>1, <2>1, <2>2 DEF Values
<1>3. RecordOf(event) = [event EXCEPT !["ts"] = I64(toInt64(event["ts"]))]
  BY DEF RecordOf
<1>4. QED BY <1>1, <1>2, <1>3

-----------------------------------------------------------------------------
(* The invariant *)

LEMMA EmitKeeps ==
  ASSUME EncodingInv, NEW event \in [Fields -> Values],
         NEW source \in {"socket", "command"}, NEW said \in [Fields -> JSON \union Values],
         Emit(event, source, said),
         source = "socket" =>
           /\ said \in [Fields -> JSON] /\ event \in [Fields -> Decoded]
           /\ \A f \in Fields: said[f].json # "fraction" /\ event[f] = Meant(said[f])
  PROVE  EncodingInv'
<1> USE DEF EncodingInv
<1>1. I64(0) \in Values /\ I64(0) \in Decoded
  BY Int64Facts DEF Values, Decoded
<1> DEFINE rec == RecordOf(event)
           hash == contentHash(lastHash, rec)
           line == [text |-> marshal(rec), prev_hash |-> lastHash, hash |-> hash,
                    source |-> source, said |-> said]
<1>2. records' = Append(records, line) /\ lastHash' = hash
  BY DEF Emit
<1>3. rec \in [Fields -> Values]
  BY <1>1, RecordOfFacts
<1>4. marshal(rec) \in Text /\ canonical(rec) \in Text
  BY <1>3, EncodedIsJSON DEF marshal, canonical, Text
<1>5. hash \in Hash
  BY <1>4 DEF contentHash, Hash
<1>6. /\ line \in Line /\ line.prev_hash = lastHash /\ line.hash = hash
      /\ line.source = source /\ line.said = said /\ line.text = marshal(rec)
  BY <1>4, <1>5 DEF Line
<1>7. source = "socket" => IsOfWhatWasSent(line)
  <2> SUFFICES ASSUME source = "socket"
               PROVE  IsOfWhatWasSent(line)
    OBVIOUS
  <2>1. rec \in [Fields -> Decoded]
    BY <1>1, DecodedValues, RecordOfFacts
  <2>2. \A f \in Fields: rec[f] = Recorded(f, said[f])
    BY RecordOfFacts, <1>1 DEF Recorded
  <2> HIDE DEF rec, line
  <2>3. QED BY <1>6, <2>1, <2>2 DEF IsOfWhatWasSent, hash
<1> HIDE DEF line, hash, rec
<1>8. /\ records' \in Seq(Line) /\ Len(records') = Len(records) + 1
      /\ records'[Len(records) + 1] = line
      /\ \A k \in 1..Len(records): records'[k] = records[k]
  BY <1>2, <1>6
<1>9. ASSUME NEW k \in 1..Len(records')
      PROVE  /\ records'[k].prev_hash = (IF k = 1 THEN << >> ELSE records'[k - 1].hash)
             /\ records'[k].source = "socket" => IsOfWhatWasSent(records'[k])
  <2>1. CASE k \in 1..Len(records)
    <3>1. records'[k] = records[k] /\ (k # 1 => records'[k - 1] = records[k - 1])
      BY <1>8, <2>1
    <3>2. QED BY <2>1, <3>1
  <2>2. CASE k = Len(records) + 1
    <3>1. records'[k] = line
      BY <1>8, <2>2
    <3>2. lastHash = IF k = 1 THEN << >> ELSE records'[k - 1].hash
      BY <1>8, <2>2
    <3>3. QED BY <1>6, <1>7, <3>1, <3>2
  <2>3. QED BY <1>8, <2>1, <2>2
<1>10. lastHash' = IF records' = << >> THEN << >> ELSE records'[Len(records')].hash
  BY <1>2, <1>6, <1>8
<1>11. QED BY <1>2, <1>5, <1>8, <1>9, <1>10

LEMMA SocketEmitKeeps == EncodingInv /\ SocketEmit => EncodingInv'
<1> SUFFICES ASSUME EncodingInv, SocketEmit
             PROVE  EncodingInv'
  OBVIOUS
<1>1. PICK asked \in Requests:
        \E event \in normalizeJSONNumbers([f \in Fields |-> decode(asked[f])]):
          Emit(event, "socket", asked)
  BY DEF SocketEmit
<1>2. PICK event \in normalizeJSONNumbers([f \in Fields |-> decode(asked[f])]):
        Emit(event, "socket", asked)
  BY <1>1
<1>3. asked \in [Fields -> JSON]
  <2>1. PICK f \in Fields, value \in JSON:
          asked = [[g \in Fields |-> [json |-> "string", text |-> "a"]] EXCEPT ![f] = value]
    BY DEF Requests, JSON
  <2>2. [json |-> "string", text |-> "a"] \in JSON
    BY DEF JSON, JSONString
  <2>3. QED BY <2>1, <2>2
<1>4. /\ event = [f \in Fields |-> event[f]]
      /\ \A f \in Fields: event[f] \in normalizeJSONNumberValue(decode(asked[f]))
  <2> DEFINE read == [f \in Fields |-> decode(asked[f])]
  <2>1. \A f \in Fields: read[f] = decode(asked[f])
    OBVIOUS
  <2>2. event \in normalizeJSONNumbers(read)
    OBVIOUS
  <2> HIDE DEF read
  <2>3. /\ event = [f \in Fields |-> event[f]]
        /\ \A f \in Fields: event[f] \in normalizeJSONNumberValue(read[f])
    BY <2>2, NormalisedLeaves
  <2>4. QED BY <2>1, <2>3
<1>5. \A f \in Fields: /\ event[f] \in Decoded /\ asked[f].json # "fraction"
                       /\ event[f] = Meant(asked[f])
  BY <1>3, <1>4, DecodingMeansIt
<1>6. event \in [Fields -> Decoded] /\ event \in [Fields -> Values]
  BY <1>4, <1>5, DecodedValues
<1>7. asked \in [Fields -> JSON \union Values]
  BY <1>3
<1>8. QED BY <1>2, <1>3, <1>5, <1>6, <1>7, EmitKeeps

LEMMA CommandEmitKeeps == EncodingInv /\ CommandEmit => EncodingInv'
<1> SUFFICES ASSUME EncodingInv, CommandEmit
             PROVE  EncodingInv'
  OBVIOUS
<1>1. PICK s \in Characters:
        LET event == [ts |-> I64(1), target |-> Str(s), context |-> Str("a")] IN
          Emit(event, "command", event)
  BY DEF CommandEmit, Characters
<1> DEFINE event == [ts |-> I64(1), target |-> Str(s), context |-> Str("a")]
<1>2. event \in [Fields -> Values]
  <2>1. 1 \in -Far..Far
    BY PowerIsPositive, EncodingAssumption
  <2>2. I64(1) \in Values /\ Str(s) \in Values /\ Str("a") \in Values
    BY <2>1 DEF Values, Characters
  <2>3. event \in [{"ts", "target", "context"} -> Values]
    BY <2>2
  <2>4. QED BY <2>3 DEF Fields
<1>3. Emit(event, "command", event)
  BY <1>1
<1> HIDE DEF event
<1>4. event \in [Fields -> JSON \union Values]
  BY <1>2
<1>5. QED BY <1>2, <1>3, <1>4, EmitKeeps

LEMMA EncodingInit_Inv == EncodingInit => EncodingInv
BY DEF EncodingInit, EncodingInv, Hash

(***************************************************************************)
(* Every line links to the one before it; a line that came over the socket *)
(* holds in one form, and its hash in another, the very record that was    *)
(* sent (Emit, chain.go; dispatch, ipc.go).                                *)
(***************************************************************************)
THEOREM LinesAreOfRecords == EncodingSpec => []EncodingInv
<1>1. EncodingInit => EncodingInv
  BY EncodingInit_Inv
<1>2. EncodingInv /\ [EncodingNext]_encodingVars => EncodingInv'
  <2> SUFFICES ASSUME EncodingInv, [EncodingNext]_encodingVars
               PROVE  EncodingInv'
    OBVIOUS
  <2>1. CASE SocketEmit
    BY <2>1, SocketEmitKeeps
  <2>2. CASE CommandEmit
    BY <2>2, CommandEmitKeeps
  <2>3. CASE UNCHANGED encodingVars
    BY <2>3 DEF encodingVars, EncodingInv
  <2>4. QED BY <2>1, <2>2, <2>3 DEF EncodingNext
<1>3. QED BY <1>1, <1>2, PTL DEF EncodingSpec

-----------------------------------------------------------------------------
(* What the verifier makes of it *)

LEMMA SocketLinesReread ==
  ASSUME EncodingInv, NEW k \in DOMAIN records, records[k].source = "socket"
  PROVE  \E rec \in Reread(k):
           /\ contentHash(records[k].prev_hash, rec) = records[k].hash
           /\ \A f \in Fields: /\ records[k].said[f].json # "fraction"
                             /\ rec[f] = Recorded(f, records[k].said[f])
<1>1. IsOfWhatWasSent(records[k])
  BY DEF EncodingInv
<1>2. PICK rec \in [Fields -> Decoded]:
        /\ records[k].text = marshal(rec)
        /\ records[k].hash = contentHash(records[k].prev_hash, rec)
        /\ \A f \in Fields: /\ records[k].said[f].json # "fraction"
                          /\ rec[f] = Recorded(f, records[k].said[f])
  BY <1>1 DEF IsOfWhatWasSent
<1>3. Reread(k) = {rec}
  BY <1>2, RereadIsTheRecord DEF Reread
<1>4. QED BY <1>2, <1>3

(***************************************************************************)
(* What is accepted over the socket verifies, in any company of records of *)
(* the commands: the hash is over one form of a record and the line is in  *)
(* another, and the record survives being written and read.                *)
(***************************************************************************)
THEOREM SocketRecordsVerify == EncodingSpec => []SocketRecordsRecompute
<1>1. ASSUME EncodingInv
      PROVE  SocketRecordsRecompute
  <2> SUFFICES ASSUME NEW k \in DOMAIN records, records[k].source = "socket"
               PROVE  Recomputes(k)
    BY DEF SocketRecordsRecompute
  <2>1. records[k].prev_hash = (IF k = 1 THEN << >> ELSE records[k - 1].hash)
    BY <1>1 DEF EncodingInv
  <2>2. \E rec \in Reread(k): contentHash(records[k].prev_hash, rec) = records[k].hash
    BY <1>1, SocketLinesReread
  <2>3. QED BY <2>1, <2>2 DEF Recomputes
<1>2. QED BY <1>1, LinesAreOfRecords, PTL

(***************************************************************************)
(* A request is recorded as it was sent or refused: no number wraps around *)
(* or is cut off, whatever the width of an int64.                          *)
(***************************************************************************)
THEOREM NumbersSurvive == EncodingSpec => []RecordsSayWhatWasSent
<1>1. ASSUME EncodingInv
      PROVE  RecordsSayWhatWasSent
  <2> SUFFICES ASSUME NEW k \in DOMAIN records, records[k].source = "socket"
               PROVE  \E rec \in Reread(k): \A f \in Fields:
                        LET meant == Meant(records[k].said[f]) IN
                          /\ records[k].said[f].json # "fraction"
                          /\ rec[f] = IF f = "ts" /\ meant.go # "int64" THEN I64(0) ELSE meant
    BY DEF RecordsSayWhatWasSent
  <2>1. PICK rec \in Reread(k):
          \A f \in Fields: /\ records[k].said[f].json # "fraction"
                           /\ rec[f] = Recorded(f, records[k].said[f])
    BY <1>1, SocketLinesReread
  <2>2. QED BY <2>1 DEF Recorded
<1>2. QED BY <1>1, LinesAreOfRecords, PTL

-----------------------------------------------------------------------------
(* The hooks and their installer (GitHooks) *)

Complete(f) == hook[f] = [content |-> "installed", exec |-> TRUE]

\* What the two files owe to the installer's place.
InstallerInv ==
  /\ Installing \/ installer.at = "done" => hooksDir
  /\ installer.at = "chmod" => hook[installer.file].content = "installed"
  /\ Installing /\ installer.file = "post-merge" => Complete("pre-commit")
  /\ installer.at = "done" => Complete("pre-commit") /\ Complete("post-merge")

\* The guards that a commit has behind it: those that stayed have passed.
BehindIt ==
  \A n \in 1..3: n < git.k /\ CommitGuards[n] \in git.steady => Passed(git, CommitGuards[n])

OperationInv ==
  /\ git.steady \subseteq scripts
  /\ git.at = "load" => git.k = 1
  /\ git.at = "run" => git.k <= Len(Guards(git.kind))
  /\ git.kind = "commit" /\ git.at \in {"look", "run"} => BehindIt
  /\ PromisedGuards

HooksInv == HooksTypeOK /\ InstallerInv /\ OperationInv

\* The type of git in HooksTypeOK.
RanType == Seq([script : Scripts, code : Int])

Places == {"load", "look", "run", "over"}

GitType ==
  [kind : Kinds, at : Places, k : 1..4, loaded : Contents,
   ran : RanType, exit : 0..255, steady : SUBSET Scripts, promised : BOOLEAN]

-----------------------------------------------------------------------------
(* Operators *)

LEMMA TypesOfParts ==
  HooksTypeOK <=>
    /\ hooksDir \in BOOLEAN
    /\ hook \in [HookFiles -> [content : Contents, exec : BOOLEAN]]
    /\ installer \in [at : {"never", "open", "write", "chmod", "done", "failed"},
                      file : HookFiles]
    /\ installs \in Nat
    /\ scripts \subseteq Scripts
    /\ git \in GitType
    /\ operations \in Nat
BY Zenon DEF HooksTypeOK, GitType, RanType, Places

LEMMA GuardsFacts ==
  /\ Len(Guards("commit")) = 3 /\ Guards("commit") = CommitGuards
  /\ Len(Guards("merge")) = 1
  /\ \A kind \in Kinds: \A n \in 1..Len(Guards(kind)): Guards(kind)[n] \in Scripts
  /\ \A kind \in Kinds: Len(Guards(kind)) \in 1..3 /\ GuardSet(kind) \subseteq Scripts
BY DEF Guards, CommitGuards, MergeGuards, GuardSet, Scripts, Kinds

LEMMA CommitGuardSet ==
  \A s \in GuardSet("commit"): \E n \in 1..3: s = CommitGuards[n]
BY DEF GuardSet, Guards, CommitGuards

\* A refusal stays a refusal on its way through the exit status.
LEMMA RefusalIsSeen ==
  ASSUME NEW code \in (-255)..255
  PROVE  Status(code) \in 0..255 /\ (Status(code) = 0 <=> code = 0)
BY DEF Status

LEMMA CodesAreCodes ==
  ASSUME NEW script, NEW code \in CodesOf(script)
  PROVE  code \in (-255)..255
BY CodesAssumption DEF CodesOf, NoSuchFile

LEMMA RanGrows ==
  ASSUME HooksTypeOK, NEW script \in Scripts, NEW code \in (-255)..255
  PROVE  /\ Ran(git, script, code) \in Seq([script : Scripts, code : Int])
         /\ Len(Ran(git, script, code)) = Len(git.ran) + 1
         /\ \A n \in 1..Len(git.ran): Ran(git, script, code)[n] = git.ran[n]
         /\ Ran(git, script, code)[Len(git.ran) + 1] = [script |-> script, code |-> code]
<1>1. /\ git.ran \in Seq([script : Scripts, code : Int])
      /\ [script |-> script, code |-> code] \in [script : Scripts, code : Int]
  BY DEF HooksTypeOK
<1> QED
  BY <1>1 DEF Ran

\* What passed before has passed after the next guard ran, and so has that guard if it
\* exited with 0.
LEMMA PassedGrows ==
  ASSUME HooksTypeOK, NEW script \in Scripts, NEW code \in (-255)..255,
         NEW g, g.ran = Ran(git, script, code)
  PROVE  /\ \A s: Passed(git, s) => Passed(g, s)
         /\ code = 0 => Passed(g, script)
<1>1. /\ Len(git.ran) \in Nat
      /\ Len(g.ran) = Len(git.ran) + 1
      /\ \A n \in 1..Len(git.ran): g.ran[n] = git.ran[n]
      /\ g.ran[Len(git.ran) + 1] = [script |-> script, code |-> code]
  <2>1. Len(git.ran) \in Nat
    BY DEF HooksTypeOK
  <2>2. /\ Len(Ran(git, script, code)) = Len(git.ran) + 1
        /\ \A n \in 1..Len(git.ran): Ran(git, script, code)[n] = git.ran[n]
        /\ Ran(git, script, code)[Len(git.ran) + 1] = [script |-> script, code |-> code]
    BY RanGrows
  <2> QED
    BY <2>1, <2>2, Zenon
<1>2. ASSUME NEW s, Passed(git, s)
      PROVE  Passed(g, s)
  <2>1. PICK n \in 1..Len(git.ran): git.ran[n] = [script |-> s, code |-> 0]
    BY <1>2 DEF Passed
  <2>2. n \in 1..Len(g.ran) /\ g.ran[n] = [script |-> s, code |-> 0]
    BY <1>1, <2>1
  <2> QED
    BY <2>2 DEF Passed
<1>3. ASSUME code = 0
      PROVE  Passed(g, script)
  <2>1. /\ Len(git.ran) + 1 \in 1..Len(g.ran)
        /\ g.ran[Len(git.ran) + 1] = [script |-> script, code |-> 0]
    BY <1>1, <1>3
  <2> QED
    BY <2>1 DEF Passed
<1> QED
  BY <1>2, <1>3

-----------------------------------------------------------------------------
(* The installer *)

LEMMA InitHooksInv == HooksInit => HooksInv
<1> SUFFICES ASSUME HooksInit
             PROVE  HooksInv
  OBVIOUS
<1>1. HooksTypeOK
  <2>1. /\ hook \in [HookFiles -> [content : Contents, exec : BOOLEAN]]
        /\ installer \in [at : {"never", "open", "write", "chmod", "done", "failed"},
                          file : HookFiles]
    BY DEF HooksInit, HookFiles, Contents
  <2>2. << >> \in RanType
    BY DEF RanType
  <2>3. git \in GitType
    BY <2>2 DEF HooksInit, NoOperation, Contents, Kinds, GitType, Places
  <2> QED
    BY <2>1, <2>3, TypesOfParts DEF HooksInit
<1>2. InstallerInv
  BY DEF HooksInit, InstallerInv, Installing
<1>3. OperationInv
  BY DEF HooksInit, OperationInv, PromisedGuards, NoOperation
<1> QED
  BY <1>1, <1>2, <1>3 DEF HooksInv

LEMMA RepositoryStep ==
  ASSUME HooksInv, Repository
  PROVE  HooksInv'
<1>1. HooksTypeOK'
  <2>1. {[content |-> "absent", exec |-> FALSE], [content |-> "foreign", exec |-> TRUE]}
          \subseteq [content : Contents, exec : BOOLEAN]
    BY DEF Contents
  <2>2. hook' \in [HookFiles -> [content : Contents, exec : BOOLEAN]]
    BY <2>1 DEF Repository
  <2> QED
    BY <2>2 DEF HooksInv, HooksTypeOK, Repository
<1>2. InstallerInv'
  BY DEF HooksInv, InstallerInv, Repository, Installing
<1>3. OperationInv'
  BY DEF HooksInv, OperationInv, PromisedGuards, Passed, BehindIt, Repository
<1> QED
  BY <1>1, <1>2, <1>3 DEF HooksInv

LEMMA InstallTypes ==
  ASSUME HooksInv, Install
  PROVE  HooksTypeOK'
<1> USE DEF HooksInv, HooksTypeOK, HookFiles, Contents, Installing
<1>1. CASE InstallStart
  BY <1>1 DEF InstallStart
<1>2. CASE InstallOpen
  BY <1>2 DEF InstallOpen
<1>3. CASE InstallWrite
  BY <1>3 DEF InstallWrite
<1>4. CASE InstallChmod
  <2>1. hook' \in [HookFiles -> [content : Contents, exec : BOOLEAN]]
    <3>1. ASSUME NEW h \in [content : Contents, exec : BOOLEAN], NEW e \in BOOLEAN
          PROVE  [h EXCEPT !.exec = e] \in [content : Contents, exec : BOOLEAN]
      OBVIOUS
    <3>2. /\ hook \in [HookFiles -> [content : Contents, exec : BOOLEAN]]
          /\ installer.file \in HookFiles
          /\ hook' = [hook EXCEPT ![installer.file] = [hook[installer.file] EXCEPT !.exec = TRUE]]
      BY <1>4 DEF InstallChmod
    <3>3. [hook[installer.file] EXCEPT !.exec = TRUE] \in [content : Contents, exec : BOOLEAN]
      BY <3>1, <3>2
    <3> QED
      BY <3>2, <3>3
  <2>2. installer' \in [at : {"never", "open", "write", "chmod", "done", "failed"},
                        file : HookFiles]
    BY <1>4 DEF InstallChmod
  <2> QED
    BY <1>4, <2>1, <2>2 DEF InstallChmod
<1>5. CASE InstallFails
  <2>1. hook' \in [HookFiles -> [content : Contents, exec : BOOLEAN]]
    <3>1. ASSUME NEW h \in [content : Contents, exec : BOOLEAN]
          PROVE  [h EXCEPT !.content = "cut"] \in [content : Contents, exec : BOOLEAN]
      BY DEF Contents
    <3>2. CASE UNCHANGED hook
      BY <3>2
    <3>3. CASE hook' = [hook EXCEPT
                  ![installer.file] = [hook[installer.file] EXCEPT !.content = "cut"]]
      BY <3>1, <3>3
    <3> QED
      BY <1>5, <3>2, <3>3 DEF InstallFails
  <2>2. installer' \in [at : {"never", "open", "write", "chmod", "done", "failed"},
                        file : HookFiles]
    BY <1>5 DEF InstallFails
  <2> QED
    BY <1>5, <2>1, <2>2 DEF InstallFails
<1> QED
  BY <1>1, <1>2, <1>3, <1>4, <1>5 DEF Install

LEMMA InstallKeepsInstaller ==
  ASSUME HooksInv, Install
  PROVE  InstallerInv'
<1>1. CASE InstallStart
  BY <1>1 DEF HooksInv, InstallerInv, InstallStart, Installing
<1>2. CASE InstallOpen
  BY <1>2 DEF HooksInv, HooksTypeOK, InstallerInv, InstallOpen, Installing, Complete, HookFiles
<1>3. CASE InstallWrite
  BY <1>3 DEF HooksInv, HooksTypeOK, InstallerInv, InstallWrite, Installing, Complete, HookFiles
<1>4. CASE InstallChmod
  <2>1. hook' = [hook EXCEPT ![installer.file] = [content |-> "installed", exec |-> TRUE]]
    <3>1. /\ hook \in [HookFiles -> [content : Contents, exec : BOOLEAN]]
          /\ installer.file \in HookFiles
          /\ hook[installer.file].content = "installed"
          /\ hook' = [hook EXCEPT ![installer.file].exec = TRUE]
      BY <1>4 DEF HooksInv, HooksTypeOK, InstallerInv, InstallChmod
    <3>2. [hook[installer.file] EXCEPT !.exec = TRUE]
            = [content |-> "installed", exec |-> TRUE]
      <4> DEFINE file == hook[installer.file]
      <4>1. file \in [content : Contents, exec : BOOLEAN] /\ file.content = "installed"
        BY <3>1
      <4>2. ASSUME NEW h \in [content : Contents, exec : BOOLEAN], NEW e \in BOOLEAN
            PROVE  [h EXCEPT !.exec = e] = [content |-> h.content, exec |-> e]
        OBVIOUS
      <4> HIDE DEF file
      <4> QED
        BY <4>1, <4>2 DEF file
    <3> QED
      BY <3>1, <3>2
  <2>2. CASE installer.file = "pre-commit"
    BY <1>4, <2>1, <2>2
       DEF HooksInv, HooksTypeOK, InstallerInv, InstallChmod, Installing, Complete, HookFiles
  <2>3. CASE installer.file = "post-merge"
    BY <1>4, <2>1, <2>3
       DEF HooksInv, HooksTypeOK, InstallerInv, InstallChmod, Installing, Complete, HookFiles
  <2> QED
    BY <2>2, <2>3 DEF HooksInv, HooksTypeOK, HookFiles
<1>5. CASE InstallFails
  BY <1>5 DEF HooksInv, InstallerInv, InstallFails, Installing
<1> QED
  BY <1>1, <1>2, <1>3, <1>4, <1>5 DEF Install

LEMMA InstallKeepsOperation ==
  ASSUME HooksInv, Install
  PROVE  OperationInv'
<1>1. UNCHANGED <<scripts, git>>
  BY DEF Install, InstallStart, InstallOpen, InstallWrite, InstallChmod, InstallFails
<1> QED
  BY <1>1 DEF HooksInv, OperationInv, PromisedGuards, Passed, BehindIt

-----------------------------------------------------------------------------
(* Commits and merges *)

LEMMA CheckoutStep ==
  ASSUME HooksInv, Checkout
  PROVE  HooksInv'
<1>1. PICK s \in GuardSet(git.kind):
        /\ git.at # "over"
        /\ scripts' = IF s \in scripts THEN scripts \ {s} ELSE scripts \union {s}
        /\ git' = [git EXCEPT !.steady = @ \ {s}]
  BY DEF Checkout
<1>2. UNCHANGED <<hooksDir, hook, installer, installs, operations>>
  BY DEF Checkout
<1>3. HooksTypeOK'
  <2>1. s \in Scripts
    BY GuardsFacts DEF HooksInv, HooksTypeOK
  <2> QED
    BY <1>1, <1>2, <2>1, ZenonT(60) DEF HooksInv, HooksTypeOK
<1>4. InstallerInv'
  BY <1>2 DEF HooksInv, InstallerInv, Installing, Complete
<1>5. OperationInv'
  <2>1. /\ git' \in [kind : Kinds, at : {"load", "look", "run", "over"}, k : 1..4,
                     loaded : Contents, ran : Seq([script : Scripts, code : Int]),
                     exit : 0..255, steady : SUBSET Scripts, promised : BOOLEAN]
        /\ git'.kind = git.kind /\ git'.at = git.at /\ git'.k = git.k /\ git'.ran = git.ran
        /\ git'.steady = git.steady \ {s}
    BY <1>1, <1>3 DEF HooksInv, HooksTypeOK
  <2> QED
    BY <1>1, <2>1 DEF HooksInv, OperationInv, PromisedGuards, Passed, BehindIt
<1> QED
  BY <1>3, <1>4, <1>5 DEF HooksInv

LEMMA OperationKeepsInstaller ==
  ASSUME HooksInv, GitOperation
  PROVE  InstallerInv'
<1>1. UNCHANGED <<hooksDir, hook, installer>>
  BY DEF GitOperation, GitStart, GitLoad, HookLook, HookRun, HookRaises
<1> QED
  BY <1>1 DEF HooksInv, InstallerInv, Installing, Complete

LEMMA GitStartStep ==
  ASSUME HooksInv, GitStart
  PROVE  HooksTypeOK' /\ OperationInv'
<1>1. PICK kind \in Kinds:
        /\ scripts' \in SUBSET GuardSet(kind)
        /\ operations' = operations + 1
        /\ git' = [NoOperation EXCEPT
                     !.kind = kind,
                     !.at = IF hook[HookOf(kind)].exec THEN "load" ELSE "over",
                     !.steady = scripts',
                     !.promised = installer.at = "done"]
  BY DEF GitStart
<1>2. UNCHANGED <<hooksDir, hook, installer, installs>>
  BY DEF GitStart
<1> DEFINE at == IF hook[HookOf(kind)].exec THEN "load" ELSE "over"
           promised == installer.at = "done"
<1>3. NoOperation \in GitType /\ NoOperation.k = 1
  <2>1. << >> \in RanType
    BY DEF RanType
  <2> QED
    BY <2>1 DEF NoOperation, GitType, Places, Kinds, Contents
<1>4. at \in Places /\ at \in {"load", "over"} /\ promised \in BOOLEAN
  BY DEF Places
<1>5. scripts' \in SUBSET Scripts
  BY <1>1, GuardsFacts
<1>6. kind = "commit" /\ promised => at = "load"
  <2>1. promised => hook["pre-commit"].exec
    BY DEF HooksInv, InstallerInv, Complete
  <2> QED
    BY <2>1 DEF HookOf
<1> HIDE DEF at, promised
<1>7. git' = [NoOperation EXCEPT !.kind = kind, !.at = at, !.steady = scripts',
                                 !.promised = promised]
  BY <1>1 DEF at, promised
<1>8. /\ git' \in GitType /\ git'.kind = kind /\ git'.at = at /\ git'.steady = scripts'
      /\ git'.promised = promised /\ git'.k = 1
  BY <1>3, <1>4, <1>5, <1>7, ZenonT(60) DEF GitType
<1>9. HooksTypeOK'
  <2>1. git' \in [kind : Kinds, at : {"load", "look", "run", "over"}, k : 1..4,
                 loaded : Contents, ran : Seq([script : Scripts, code : Int]),
                 exit : 0..255, steady : SUBSET Scripts, promised : BOOLEAN]
    BY <1>8, Zenon DEF GitType, RanType, Places
  <2>2. operations' \in Nat /\ scripts' \subseteq Scripts
    BY <1>1, <1>5 DEF HooksInv, HooksTypeOK
  <2>3. /\ hooksDir' \in BOOLEAN /\ installs' \in Nat
        /\ hook' \in [HookFiles -> [content : Contents, exec : BOOLEAN]]
        /\ installer' \in [at : {"never", "open", "write", "chmod", "done", "failed"},
                           file : HookFiles]
    BY <1>2, Zenon DEF HooksInv, HooksTypeOK
  <2> QED
    BY <2>1, <2>2, <2>3, Zenon DEF HooksTypeOK
<1>10. OperationInv'
  BY <1>4, <1>6, <1>8 DEF OperationInv, PromisedGuards
<1> QED
  BY <1>9, <1>10

LEMMA GitLoadStep ==
  ASSUME HooksInv, GitLoad
  PROVE  HooksTypeOK' /\ OperationInv'
<1> DEFINE content == hook[HookOf(git.kind)].content
<1>1. PICK exit \in {0, 1}:
        git' = [git EXCEPT
                  !.at = IF content = "installed" THEN "look" ELSE "over",
                  !.loaded = content,
                  !.exit = IF content = "installed" THEN 0 ELSE exit,
                  !.promised = @ /\ installer.at = "done"]
  BY DEF GitLoad
<1>2. git.at = "load" /\ UNCHANGED <<hooksDir, hook, installer, installs, scripts, operations>>
  BY DEF GitLoad
<1>3. content \in Contents
  BY DEF HooksInv, HooksTypeOK, HookOf, HookFiles, Kinds
<1> DEFINE at == IF content = "installed" THEN "look" ELSE "over"
           result == IF content = "installed" THEN 0 ELSE exit
           promised == git.promised /\ installer.at = "done"
<1>4. at \in Places /\ at \in {"look", "over"} /\ result \in 0..255 /\ promised \in BOOLEAN
  BY DEF Places
<1>5. git.kind = "commit" /\ promised => at = "look"
  BY DEF HooksInv, InstallerInv, Complete, HookOf
<1> HIDE DEF at, result, promised, content
<1>6. git' = [git EXCEPT !.at = at, !.loaded = content, !.exit = result, !.promised = promised]
  BY <1>1 DEF at, result, promised
<1>7. git \in GitType
  BY TypesOfParts DEF HooksInv
<1>8. /\ git' \in GitType /\ git'.kind = git.kind /\ git'.at = at /\ git'.k = git.k
      /\ git'.steady = git.steady /\ git'.promised = promised
  BY <1>3, <1>4, <1>6, <1>7, ZenonT(60) DEF GitType
<1>9. HooksTypeOK'
  BY <1>2, <1>8 DEF HooksInv, HooksTypeOK, GitType, RanType, Places
<1>10. OperationInv'
  BY <1>2, <1>4, <1>5, <1>7, <1>8
     DEF HooksInv, OperationInv, PromisedGuards, BehindIt, GitType
<1> QED
  BY <1>9, <1>10

\* A missing script is no steady one.
LEMMA HookLookStep ==
  ASSUME HooksInv, HookLook
  PROVE  HooksTypeOK' /\ OperationInv'
<1>1. git.at = "look" /\ UNCHANGED <<hooksDir, hook, installer, installs, scripts, operations>>
  BY DEF HookLook
<1>2. git.kind \in Kinds /\ git.k \in 1..4 /\ Len(Guards(git.kind)) \in 1..3
  BY GuardsFacts DEF HooksInv, HooksTypeOK
<1>3. CASE git.k > Len(Guards(git.kind))
  <2>1. git' = [git EXCEPT !.at = "over"]
    BY <1>3 DEF HookLook
  <2>2. HooksTypeOK'
    BY <1>1, <2>1, ZenonT(60) DEF HooksInv, HooksTypeOK
  <2>3. /\ git'.kind = git.kind /\ git'.k = git.k /\ git'.steady = git.steady
        /\ git'.ran = git.ran /\ git'.at = "over"
    BY <2>1 DEF HooksInv, HooksTypeOK
  <2>4. git.kind = "commit" => \A s \in GuardSet("commit"): s \in git.steady => Passed(git, s)
    BY <1>1, <1>2, <1>3, GuardsFacts, CommitGuardSet DEF HooksInv, OperationInv, BehindIt
  <2>5. OperationInv'
    BY <1>1, <2>3, <2>4 DEF HooksInv, OperationInv, PromisedGuards, Passed
  <2> QED
    BY <2>2, <2>5
<1>4. CASE git.k <= Len(Guards(git.kind)) /\ Guards(git.kind)[git.k] \in scripts
  <2>1. git' = [git EXCEPT !.at = "run"]
    BY <1>2, <1>4 DEF HookLook
  <2>2. HooksTypeOK'
    BY <1>1, <2>1, ZenonT(60) DEF HooksInv, HooksTypeOK
  <2>3. /\ git'.kind = git.kind /\ git'.k = git.k /\ git'.steady = git.steady
        /\ git'.ran = git.ran /\ git'.at = "run"
    BY <2>1 DEF HooksInv, HooksTypeOK
  <2>4. OperationInv'
    BY <1>1, <1>4, <2>3 DEF HooksInv, OperationInv, PromisedGuards, Passed, BehindIt
  <2> QED
    BY <2>2, <2>4
<1>5. CASE git.k <= Len(Guards(git.kind)) /\ Guards(git.kind)[git.k] \notin scripts
  <2>1. git' = [git EXCEPT !.k = git.k + 1]
    BY <1>2, <1>5 DEF HookLook
  <2>2. HooksTypeOK'
    <3>1. git \in GitType /\ git.k + 1 \in 1..4
      BY <1>2, <1>5, TypesOfParts DEF HooksInv
    <3>2. git' \in GitType
      BY <2>1, <3>1 DEF GitType
    <3> QED
      BY <1>1, <3>2 DEF HooksInv, HooksTypeOK, GitType, RanType, Places
  <2>3. /\ git'.kind = git.kind /\ git'.k = git.k + 1 /\ git'.steady = git.steady
        /\ git'.ran = git.ran /\ git'.at = "look"
    BY <1>1, <2>1 DEF HooksInv, HooksTypeOK
  <2>4. git.kind = "commit" => BehindIt'
    <3> SUFFICES ASSUME git.kind = "commit", NEW n \in 1..3,
                        n < git'.k, CommitGuards[n] \in git'.steady
                 PROVE  Passed(git', CommitGuards[n])
      BY DEF BehindIt
    <3>1. n # git.k
      BY <1>5, <2>3, GuardsFacts DEF HooksInv, OperationInv
    <3>2. n < git.k /\ CommitGuards[n] \in git.steady
      BY <1>2, <2>3, <3>1
    <3>3. Passed(git, CommitGuards[n])
      BY <1>1, <3>2 DEF HooksInv, OperationInv, BehindIt
    <3> QED
      BY <2>3, <3>3 DEF Passed
  <2>5. OperationInv'
    BY <1>1, <2>3, <2>4 DEF HooksInv, OperationInv, PromisedGuards
  <2> QED
    BY <2>2, <2>5
<1> QED
  BY <1>2, <1>3, <1>4, <1>5

\* pre-commit goes on only past a 0, and otherwise ends with a refusal.
LEMMA CommitVerdictStep ==
  ASSUME HooksInv, git.at = "run", git.kind = "commit",
         NEW code \in (-255)..255, UNCHANGED scripts,
         git' = CommitVerdict(git, CommitGuards[git.k], code)
  PROVE  git' \in GitType /\ OperationInv'
<1> DEFINE script == CommitGuards[git.k]
<1>1. git.k \in 1..3 /\ script \in Scripts
  BY GuardsFacts DEF HooksInv, HooksTypeOK, OperationInv, Kinds
<1>2. Ran(git, script, code) \in RanType
  BY <1>1, RanGrows DEF HooksInv, RanType
<1>3. Status(code) \in 0..255 /\ (Status(code) = 0 <=> code = 0)
  BY RefusalIsSeen
<1> DEFINE at == IF code # 0 THEN "over" ELSE "look"
           result == Status(code)
           ran == Ran(git, script, code)
<1>4. git \in GitType /\ git.k + 1 \in 1..4 /\ at \in Places
  BY <1>1, TypesOfParts DEF HooksInv, Places
<1>5. git' = [git EXCEPT !.ran = ran, !.k = git.k + 1, !.at = at, !.exit = result]
  BY DEF CommitVerdict
<1>6. ran \in RanType /\ result \in 0..255
  BY <1>2, <1>3
<1> HIDE DEF at, result, ran, script
<1>7. /\ git' \in GitType /\ git'.kind = "commit" /\ git'.at = at /\ git'.steady = git.steady
      /\ git'.exit = result /\ git'.k = git.k + 1 /\ git'.ran = ran
  <2>1. git' \in GitType
    BY ONLY <1>4, <1>5, <1>6, ZenonT(60) DEF GitType
  <2>2. git'.exit = result /\ git'.k = git.k + 1 /\ git'.ran = ran
    BY <1>4, <1>5, <1>6 DEF GitType
  <2>3. git'.kind = git.kind /\ git'.at = at /\ git'.steady = git.steady
    BY <1>4, <1>5, <1>6 DEF GitType
  <2> QED
    BY <2>1, <2>2, <2>3
<1> USE DEF at, result, ran, script
<1>8. CASE code # 0
  BY <1>3, <1>7, <1>8 DEF HooksInv, OperationInv, PromisedGuards
<1>9. CASE code = 0
  <2>1. BehindIt'
    <3> SUFFICES ASSUME NEW n \in 1..3, n < git'.k, CommitGuards[n] \in git'.steady
                 PROVE  Passed(git', CommitGuards[n])
      BY DEF BehindIt
    <3>1. CASE n = git.k
      BY <1>1, <1>7, <1>9, <3>1, PassedGrows DEF HooksInv
    <3>2. CASE n < git.k
      <4>1. Passed(git, CommitGuards[n])
        BY <1>7, <3>2 DEF HooksInv, OperationInv, BehindIt
      <4> QED
        BY <1>1, <1>7, <4>1, PassedGrows DEF HooksInv
    <3> QED
      BY <1>1, <1>7, <3>1, <3>2
  <2> QED
    BY <1>7, <1>9, <2>1, GuardsFacts DEF HooksInv, OperationInv, PromisedGuards
<1> QED
  BY <1>7, <1>8, <1>9

LEMMA HookRunStep ==
  ASSUME HooksInv, HookRun
  PROVE  HooksTypeOK' /\ OperationInv'
<1>1. git.at = "run" /\ UNCHANGED <<hooksDir, hook, installer, installs, scripts, operations>>
  BY DEF HookRun
<1>2. git.kind \in Kinds /\ git.k \in 1..Len(Guards(git.kind))
  BY <1>1, GuardsFacts DEF HooksInv, HooksTypeOK, OperationInv
<1>3. PICK code \in (-255)..255:
        git' = IF git.kind = "commit"
                 THEN CommitVerdict(git, Guards(git.kind)[git.k], code)
                 ELSE MergeVerdict(git, Guards(git.kind)[git.k], code)
  BY CodesAreCodes DEF HookRun
<1>4. CASE git.kind = "commit"
  <2>1. git' \in GitType /\ OperationInv'
    BY <1>1, <1>3, <1>4, GuardsFacts, CommitVerdictStep
  <2> QED
    BY <1>1, <2>1 DEF HooksInv, HooksTypeOK, GitType, RanType, Places
<1>5. CASE git.kind = "merge"
  <2> DEFINE script == Guards(git.kind)[git.k]
  <2>1. script \in Scripts
    BY <1>2, GuardsFacts
  <2>2. Ran(git, script, code) \in RanType
    BY <2>1, RanGrows DEF HooksInv, RanType
  <2>3. git' = [git EXCEPT !.ran = Ran(git, script, code), !.k = git.k + 1, !.at = "look",
                           !.exit = 0]
    BY <1>3, <1>5 DEF MergeVerdict
  <2> DEFINE ran == Ran(git, script, code)
             at == "look"
             result == 0
  <2> HIDE DEF ran, at, result, script
  <2>4. /\ git \in GitType /\ git.k + 1 \in 1..4
        /\ at \in Places /\ result \in 0..255 /\ ran \in RanType
    BY <1>2, <1>5, <2>2, GuardsFacts, TypesOfParts DEF HooksInv, Places, at, result, ran
  <2>5. /\ git' \in GitType /\ git'.kind = "merge" /\ git'.at = "look"
        /\ git'.steady = git.steady
    <3>1. git' = [git EXCEPT !.ran = ran, !.k = git.k + 1, !.at = at, !.exit = result]
      BY <2>3 DEF ran, at, result
    <3>2. git' \in GitType /\ git'.kind = git.kind /\ git'.at = at /\ git'.steady = git.steady
      BY <2>4, <3>1, ZenonT(60) DEF GitType
    <3> QED
      BY <1>5, <3>2 DEF at
  <2>6. OperationInv'
    BY <1>1, <2>5 DEF HooksInv, OperationInv, PromisedGuards
  <2>7. HooksTypeOK'
    BY <1>1, <2>5 DEF HooksInv, HooksTypeOK, GitType, RanType, Places
  <2> QED
    BY <2>6, <2>7
<1> QED
  BY <1>2, <1>4, <1>5 DEF Kinds

LEMMA HookRaisesStep ==
  ASSUME HooksInv, HookRaises
  PROVE  HooksTypeOK' /\ OperationInv'
<1>1. UNCHANGED <<hooksDir, hook, installer, installs, scripts, operations>>
  BY DEF HookRaises
<1> DEFINE at == "over"
           result == Raised
<1>2. /\ git \in GitType /\ git.ran \in RanType /\ git.k \in 1..4
      /\ at \in Places /\ result \in 0..255 /\ result # 0
  BY TypesOfParts DEF HooksInv, GitType, Places, Raised
<1>3. git' = [git EXCEPT !.at = at, !.exit = result]
  BY DEF HookRaises
<1> HIDE DEF at, result
<1>4. git' \in GitType /\ git'.at = at /\ git'.exit = result /\ git'.steady = git.steady
  BY <1>2, <1>3, ZenonT(60) DEF GitType
<1>5. HooksTypeOK'
  BY <1>1, <1>4 DEF HooksInv, HooksTypeOK, GitType, RanType, Places
<1>6. OperationInv'
  BY <1>1, <1>2, <1>4 DEF HooksInv, OperationInv, PromisedGuards, at
<1> QED
  BY <1>5, <1>6

-----------------------------------------------------------------------------

LEMMA HooksStep == HooksInv /\ [HooksNext]_hooksVars => HooksInv'
<1> SUFFICES ASSUME HooksInv, [HooksNext]_hooksVars
             PROVE  HooksInv'
  OBVIOUS
<1>1. CASE Repository
  BY <1>1, RepositoryStep
<1>2. CASE Checkout
  BY <1>2, CheckoutStep
<1>3. CASE Install
  BY <1>3, InstallTypes, InstallKeepsInstaller, InstallKeepsOperation DEF HooksInv
<1>4. CASE GitOperation
  <2>1. HooksTypeOK' /\ OperationInv'
    BY <1>4, GitStartStep, GitLoadStep, HookLookStep, HookRunStep, HookRaisesStep
       DEF GitOperation
  <2> QED
    BY <1>4, <2>1, OperationKeepsInstaller DEF HooksInv
<1>5. CASE UNCHANGED hooksVars
  <2>1. HooksTypeOK' /\ InstallerInv'
    BY <1>5 DEF hooksVars, HooksInv, HooksTypeOK, InstallerInv, Installing, Complete
  <2>2. OperationInv'
    BY <1>5 DEF hooksVars, HooksInv, OperationInv, PromisedGuards, Passed, BehindIt
  <2> QED
    BY <2>1, <2>2 DEF HooksInv
<1> QED
  BY <1>1, <1>2, <1>3, <1>4, <1>5 DEF HooksNext

\* The inductive invariant: types, what the files owe to the installer's place, and what
\* a running commit has behind it (setup-hooks.py:64-91, 164-187).
THEOREM HooksInvHolds == HooksSpec => []HooksInv
<1> QED
  BY InitHooksInv, HooksStep, PTL DEF HooksSpec

\* Types, for any set of return codes (setup-hooks.py).
THEOREM HooksTypeCorrect == HooksSpec => []HooksTypeOK
<1>1. HooksInv => HooksTypeOK
  BY DEF HooksInv
<1> QED
  BY <1>1, HooksInvHolds, PTL

\* "Git hooks successfully installed!" is said only of two whole and executable hooks,
\* however often the installer failed or died before (setup-hooks.py:168-187).
THEOREM ReportedInstalls == HooksSpec => []ReportedInstallIsComplete
<1>1. HooksInv => ReportedInstallIsComplete
  BY DEF HooksInv, InstallerInv, Complete, ReportedInstallIsComplete, HookFiles
<1> QED
  BY <1>1, HooksInvHolds, PTL

\* No commit under installed hooks is made past a guard that stayed and did not pass, for
\* any return codes and however the checkout changes (setup-hooks.py:64-91).
THEOREM GuardsArePromised == HooksSpec => []PromisedGuards
<1>1. HooksInv => PromisedGuards
  BY DEF HooksInv, OperationInv
<1> QED
  BY <1>1, HooksInvHolds, PTL

-----------------------------------------------------------------------------
(* The linter (MermaidLint) *)

Texts == Seq([form : Forms, on : SUBSET Offenders, quoted : SUBSET Offenders])

\* Line s opens a block: none that began before it is still open.
Opener(t, s) ==
  /\ t[s].form = "mermaid"
  /\ \A o \in 1..(s - 1): t[o].form = "mermaid" => Fenced(t, o + 1, s - 1)

\* The block that opened on line s is what the first k lines leave open.
LeftOpen(t, s, k) == Opener(t, s) /\ ~Fenced(t, s + 1, k)

\* The first k lines leave no block open.
AllClosed(t, k) == \A o \in 1..k: t[o].form = "mermaid" => Fenced(t, o + 1, k)

\* The block in hand is the one that the lines so far leave open, and holds its lines.
BlockInHand ==
  \/ cur = NoBlock /\ AllClosed(text, i)
  \/ \E s \in 1..i:
       /\ LeftOpen(text, s, i)
       /\ cur = [open |-> TRUE, start |-> s + 1, body |-> SubSeq(text, s + 1, i)]

\* What is owed is counted by now or stands in the file in hand.
Counted ==
  /\ owed = (total \/ Offending(text, Len(text)) # {})
  /\ found # {} => total

LintInv ==
  /\ text \in Texts /\ i \in 0..Len(text)
  /\ total \in BOOLEAN /\ owed \in BOOLEAN
  /\ status # "lines" => text = << >> /\ i = 0
  /\ status = "1" => total
  /\ status = "0" => ~total
  /\ BlockInHand /\ Counted /\ ReportIsExact

-----------------------------------------------------------------------------
(* Operators *)

LEMMA SubSeqAt ==
  ASSUME NEW S, NEW t \in Seq(S), NEW a \in 1..(Len(t) + 1), NEW b \in 0..Len(t), a <= b + 1
  PROVE  /\ SubSeq(t, a, b) \in Seq(S) /\ Len(SubSeq(t, a, b)) = b - a + 1
         /\ \A n \in 1..(b - a + 1): SubSeq(t, a, b)[n] = t[a + n - 1]
OBVIOUS

LEMMA AppendAt ==
  ASSUME NEW S, NEW u \in Seq(S), NEW x \in S
  PROVE  /\ Append(u, x) \in Seq(S) /\ Len(Append(u, x)) = Len(u) + 1
         /\ Append(u, x)[Len(u) + 1] = x
         /\ \A n \in 1..Len(u): Append(u, x)[n] = u[n]
OBVIOUS

LEMMA SameLines ==
  ASSUME NEW S, NEW u \in Seq(S), NEW v \in Seq(S), Len(u) = Len(v),
         \A n \in 1..Len(u): u[n] = v[n]
  PROVE  u = v
OBVIOUS

LEMMA OneMoreLine ==
  ASSUME NEW S, NEW t \in Seq(S), NEW a \in 1..Len(t), NEW b \in 0..(Len(t) - 1), a <= b + 1
  PROVE  Append(SubSeq(t, a, b), t[b + 1]) = SubSeq(t, a, b + 1)
<1> DEFINE u == SubSeq(t, a, b)
           v == SubSeq(t, a, b + 1)
           x == t[b + 1]
           w == Append(u, x)
<1>0. a \in Nat /\ b \in Nat /\ x \in S
  OBVIOUS
<1>1. /\ u \in Seq(S) /\ Len(u) = b - a + 1
      /\ \A n \in 1..(b - a + 1): u[n] = t[a + n - 1]
  BY SubSeqAt
<1>2. /\ v \in Seq(S) /\ Len(v) = b + 1 - a + 1
      /\ \A n \in 1..(b + 1 - a + 1): v[n] = t[a + n - 1]
  BY SubSeqAt
<1> HIDE DEF u, v
<1>3. /\ w \in Seq(S) /\ Len(w) = Len(u) + 1 /\ w[Len(u) + 1] = x
      /\ \A n \in 1..Len(u): w[n] = u[n]
  BY <1>0, <1>1, AppendAt
<1> HIDE DEF w
<1>4. Len(w) = Len(v)
  BY <1>0, <1>1, <1>2, <1>3
<1>5. ASSUME NEW n \in 1..Len(w)
      PROVE  w[n] = v[n]
  <2>1. v[n] = t[a + n - 1]
    BY <1>0, <1>1, <1>2, <1>3
  <2>2. CASE n \in 1..Len(u)
    BY <1>0, <1>1, <1>3, <2>1, <2>2
  <2>3. CASE n = Len(u) + 1
    <3>1. a + n - 1 = b + 1
      BY <1>0, <1>1, <2>3
    <3>2. QED BY <1>3, <2>1, <2>3, <3>1
  <2>4. QED BY <1>0, <1>1, <1>3, <2>2, <2>3
<1>6. w = v
  BY <1>2, <1>3, <1>4, <1>5, SameLines
<1>7. QED BY <1>6 DEF u, v, w

\* Only the block that is left open can close on the next line.
LEMMA OneOpener ==
  ASSUME NEW t, NEW k \in Nat, NEW s \in 1..k, NEW r \in 1..k,
         LeftOpen(t, s, k), LeftOpen(t, r, k)
  PROVE  s = r
<1>1. ASSUME NEW a \in 1..k, NEW b \in 1..k, LeftOpen(t, a, k), LeftOpen(t, b, k), a < b
      PROVE  FALSE
  <2>1. Fenced(t, a + 1, b - 1)
    BY <1>1 DEF LeftOpen, Opener
  <2>2. Fenced(t, a + 1, k)
    BY <2>1 DEF Fenced
  <2>3. QED BY <1>1, <2>2 DEF LeftOpen
<1>2. QED BY <1>1

\* A block closes on a line exactly if it is left open before it and the line is a fence.
LEMMA ClosingLine ==
  ASSUME NEW t, NEW k \in Nat, NEW s \in 1..k
  PROVE  IsBlock(t, s, k + 1) <=> LeftOpen(t, s, k) /\ t[k + 1].form = "fence"
BY DEF IsBlock, LeftOpen, Opener

\* The offending lines of the one block from line s to line e.
OffendingIn(t, s, e) ==
  {issue \in [line : 1..Len(t), what : Offenders] :
    /\ s < issue.line /\ issue.line < e
    /\ t[issue.line].form # "comment"
    /\ issue.what \in Reported(t[issue.line], SequenceBlock(t, s, e))}

LEMMA OffendingByBlock ==
  ASSUME NEW t, NEW k, NEW issue
  PROVE  issue \in Offending(t, k)
           <=> \E s, e \in 1..k: IsBlock(t, s, e) /\ issue \in OffendingIn(t, s, e)
BY DEF Offending, OffendingIn

\* A line that closes nothing adds no issue.
LEMMA NothingCloses ==
  ASSUME NEW t, NEW k \in Nat, \A s \in 1..k: ~IsBlock(t, s, k + 1)
  PROVE  Offending(t, k + 1) = Offending(t, k)
<1>1. ASSUME NEW s \in 1..(k + 1), NEW e \in 1..(k + 1), IsBlock(t, s, e)
      PROVE  s \in 1..k /\ e \in 1..k
  BY <1>1 DEF IsBlock
<1>2. ASSUME NEW issue
      PROVE  issue \in Offending(t, k + 1) <=> issue \in Offending(t, k)
  <2>1. (\E s, e \in 1..(k + 1): IsBlock(t, s, e) /\ issue \in OffendingIn(t, s, e))
          <=> \E s, e \in 1..k: IsBlock(t, s, e) /\ issue \in OffendingIn(t, s, e)
    BY <1>1
  <2>2. QED BY <2>1, OffendingByBlock
<1>3. QED BY <1>2

\* A line that closes the block from line s adds its offending lines.
LEMMA OneCloses ==
  ASSUME NEW t, NEW k \in Nat, NEW s \in 1..k, LeftOpen(t, s, k), t[k + 1].form = "fence"
  PROVE  Offending(t, k + 1) = Offending(t, k) \union OffendingIn(t, s, k + 1)
<1>1. IsBlock(t, s, k + 1)
  BY ClosingLine
<1>2. ASSUME NEW r \in 1..(k + 1), NEW e \in 1..(k + 1), IsBlock(t, r, e)
      PROVE  r \in 1..k /\ (e \in 1..k \/ (e = k + 1 /\ r = s))
  <2>1. r \in 1..k
    BY <1>2 DEF IsBlock
  <2>2. CASE e = k + 1
    BY <1>2, <2>1, <2>2, ClosingLine, OneOpener
  <2>3. QED BY <2>1, <2>2
<1>3. ASSUME NEW issue
      PROVE  issue \in Offending(t, k + 1)
               <=> issue \in Offending(t, k) \/ issue \in OffendingIn(t, s, k + 1)
  <2>1. (\E r, e \in 1..(k + 1): IsBlock(t, r, e) /\ issue \in OffendingIn(t, r, e))
          <=> \/ \E r, e \in 1..k: IsBlock(t, r, e) /\ issue \in OffendingIn(t, r, e)
              \/ issue \in OffendingIn(t, s, k + 1)
    BY <1>1, <1>2
  <2>2. QED BY <2>1, OffendingByBlock
<1>4. QED BY <1>3

LEMMA OffendingGrows ==
  ASSUME NEW t, NEW k \in Nat, NEW l \in Nat, k <= l
  PROVE  Offending(t, k) \subseteq Offending(t, l)
<1>1. ASSUME NEW issue \in Offending(t, k)
      PROVE  issue \in Offending(t, l)
  <2>1. PICK s, e \in 1..k: IsBlock(t, s, e) /\ issue \in OffendingIn(t, s, e)
    BY <1>1, OffendingByBlock
  <2>2. s \in 1..l /\ e \in 1..l
    OBVIOUS
  <2>3. QED BY <2>1, <2>2, OffendingByBlock
<1>2. QED BY <1>1

LEMMA NothingIsOwed == Offending(<< >>, 0) = {}
BY DEF Offending

\* A block's kind is judged on its body as it is in the text.
LEMMA KindOfBlock ==
  ASSUME NEW t \in Texts, NEW s \in 1..Len(t), NEW k \in s..Len(t)
  PROVE  block_kind(SubSeq(t, s + 1, k)) = SequenceBlock(t, s, k + 1)
<1> DEFINE body == SubSeq(t, s + 1, k)
<1>1. Len(body) = k - s /\ \A n \in 1..(k - s): body[n] = t[s + n]
  <2>1. s + 1 \in 1..(Len(t) + 1) /\ k \in 0..Len(t) /\ s + 1 <= k + 1
    BY DEF Texts
  <2>2. Len(body) = k - (s + 1) + 1
        /\ \A n \in 1..(k - (s + 1) + 1): body[n] = t[(s + 1) + n - 1]
    BY <2>1, SubSeqAt DEF Texts
  <2>3. QED BY <2>2 DEF Texts
<1> HIDE DEF body
<1>2. s \in Nat /\ k \in Nat /\ s <= k
  BY DEF Texts
<1>3. ASSUME block_kind(body)
      PROVE  SequenceBlock(t, s, k + 1)
  <2>1. PICK n \in 1..(k - s):
          body[n].form = "sequence" /\ \A m \in 1..(n - 1): body[m].form = "comment"
    BY <1>1, <1>3 DEF block_kind
  <2>2. s + n \in (s + 1)..k /\ t[s + n].form = "sequence"
    BY <1>1, <1>2, <2>1
  <2>3. ASSUME NEW m \in (s + 1)..(s + n - 1)
        PROVE  t[m].form = "comment"
    <3>1. m - s \in 1..(n - 1) /\ m - s \in 1..(k - s) /\ s + (m - s) = m
      BY <1>2
    <3>2. body[m - s].form = "comment" /\ body[m - s] = t[s + (m - s)]
      BY <1>1, <2>1, <3>1
    <3>3. QED BY <3>1, <3>2
  <2>4. QED BY <1>2, <2>2, <2>3 DEF SequenceBlock
<1>4. ASSUME SequenceBlock(t, s, k + 1)
      PROVE  block_kind(body)
  <2>1. PICK n \in (s + 1)..k:
          t[n].form = "sequence" /\ \A m \in (s + 1)..(n - 1): t[m].form = "comment"
    BY <1>2, <1>4 DEF SequenceBlock
  <2>2. n - s \in 1..(k - s) /\ s + (n - s) = n
    BY <1>2
  <2>3. body[n - s].form = "sequence"
    BY <1>1, <2>1, <2>2
  <2>4. ASSUME NEW m \in 1..(n - s - 1)
        PROVE  body[m].form = "comment"
    <3>1. s + m \in (s + 1)..(n - 1) /\ m \in 1..(k - s)
      BY <1>2
    <3>2. QED BY <1>1, <2>1, <3>1
  <2>5. QED BY <1>1, <2>2, <2>3, <2>4 DEF block_kind
<1>5. block_kind(body) \in BOOLEAN /\ SequenceBlock(t, s, k + 1) \in BOOLEAN
  BY DEF block_kind, SequenceBlock
<1>6. QED BY <1>3, <1>4, <1>5 DEF body

\* lint_block finds the offending lines of a block, under their numbers in the text.
LEMMA LintsTheBlock ==
  ASSUME NEW t \in Texts, NEW s \in 1..Len(t), NEW k \in s..(Len(t) - 1)
  PROVE  lint_block(s + 1, SubSeq(t, s + 1, k)) = OffendingIn(t, s, k + 1)
<1> DEFINE body == SubSeq(t, s + 1, k)
           kind == SequenceBlock(t, s, k + 1)
<1>1. s \in Nat /\ k \in Nat /\ Len(t) \in Nat /\ s <= k /\ k < Len(t) /\ s >= 1
  BY DEF Texts
<1>2. Len(body) = k - s /\ \A n \in 1..(k - s): body[n] = t[s + n]
  <2>1. s + 1 \in 1..(Len(t) + 1) /\ k \in 0..Len(t) /\ s + 1 <= k + 1
    BY <1>1
  <2>2. Len(body) = k - (s + 1) + 1
        /\ \A n \in 1..(k - (s + 1) + 1): body[n] = t[(s + 1) + n - 1]
    BY <2>1, SubSeqAt DEF Texts
  <2>3. QED BY <1>1, <2>2
<1>3. block_kind(body) = kind
  BY KindOfBlock, <1>1
<1> HIDE DEF body, kind
<1>4. (s + 1)..(s + 1 + Len(body) - 1) = (s + 1)..k
  BY <1>1, <1>2
<1>5. ASSUME NEW n \in (s + 1)..k
      PROVE  body[n - (s + 1) + 1] = t[n]
  <2>1. n - (s + 1) + 1 = n - s /\ n - s \in 1..(k - s) /\ s + (n - s) = n
    BY <1>1
  <2>2. QED BY <1>2, <2>1
<1>6. ASSUME NEW issue
      PROVE  issue \in lint_block(s + 1, body) <=> issue \in OffendingIn(t, s, k + 1)
  <2>1. issue \in lint_block(s + 1, body)
          <=> /\ issue \in [line : (s + 1)..k, what : Offenders]
              /\ t[issue.line].form # "comment"
              /\ issue.what \in Reported(t[issue.line], kind)
    <3>1. issue \in lint_block(s + 1, body)
            <=> /\ issue \in [line : (s + 1)..k, what : Offenders]
                /\ body[issue.line - (s + 1) + 1].form # "comment"
                /\ issue.what \in Reported(body[issue.line - (s + 1) + 1], kind)
      BY <1>3, <1>4, Zenon DEF lint_block
    <3>2. issue \in [line : (s + 1)..k, what : Offenders]
            => body[issue.line - (s + 1) + 1] = t[issue.line]
      BY <1>5
    <3>3. QED BY <3>1, <3>2
  <2>2. issue \in [line : (s + 1)..k, what : Offenders]
          <=> /\ issue \in [line : 1..Len(t), what : Offenders]
              /\ s < issue.line /\ issue.line < k + 1
    BY <1>1
  <2>3. QED BY <2>1, <2>2 DEF OffendingIn, kind
<1>7. QED BY <1>6 DEF body

-----------------------------------------------------------------------------
(* The invariant *)

LEMMA LintInit_Inv == LintInit => LintInv
<1> SUFFICES ASSUME LintInit
             PROVE  LintInv
  OBVIOUS
<1> USE DEF LintInit
<1>1. BlockInHand
  BY DEF BlockInHand, AllClosed
<1>2. Counted /\ ReportIsExact
  BY NothingIsOwed DEF Counted, ReportIsExact
<1>3. text \in Texts /\ i \in 0..Len(text)
  BY DEF Texts
<1>4. QED BY <1>1, <1>2, <1>3 DEF LintInv

\* Between files there is nothing in hand.
LEMMA AtRest ==
  ASSUME LintInv, status # "lines"
  PROVE  text = << >> /\ i = 0 /\ cur = NoBlock /\ found = {} /\ owed = total
<1>1. text = << >> /\ i = 0
  BY DEF LintInv
<1>2. cur = NoBlock
  BY <1>1 DEF LintInv, BlockInHand
<1>3. found = {} /\ owed = total
  BY <1>1, NothingIsOwed DEF LintInv, Counted, ReportIsExact
<1>4. QED BY <1>1, <1>2, <1>3

\* A line that closes no block: the report is exact as it is.
LEMMA LineKeeps ==
  ASSUME LintInv, NextLine, UNCHANGED <<queue, text, found, total, owed, status>>,
         BlockInHand', \A s \in 1..i: ~IsBlock(text, s, i + 1)
  PROVE  LintInv'
<1>1. i \in Nat /\ i' = i + 1 /\ i' \in 0..Len(text) /\ status = "lines"
  BY DEF LintInv, NextLine, Texts
<1>2. ReportIsExact'
  BY <1>1, NothingCloses DEF LintInv, ReportIsExact
<1>3. Counted'
  BY DEF LintInv, Counted
<1>4. QED BY <1>1, <1>2, <1>3 DEF LintInv

LEMMA LintInvStep == LintInv /\ [LintNext]_lintVars => LintInv'
<1> SUFFICES ASSUME LintInv, [LintNext]_lintVars
             PROVE  LintInv'
  OBVIOUS
<1>0. text \in Texts /\ i \in Nat /\ i <= Len(text) /\ Len(text) \in Nat
  BY DEF LintInv, Texts
<1>1. CASE LintStart
  BY <1>1 DEF LintStart, LintInv, BlockInHand, Counted, ReportIsExact
<1>2. CASE ReadFile
  <2>1. /\ status = "files" /\ status' = "lines"
        /\ owed' = (owed \/ Offending(text', Len(text')) # {})
        /\ UNCHANGED <<i, cur, found, total>>
    BY <1>2 DEF ReadFile
  <2>2. PICK n \in 0..MaxLines: text' \in [1..n -> Lines]
    BY <1>2 DEF ReadFile
  <2>3. text' \in Texts
    <3> DEFINE AnyLine == [form : Forms, on : SUBSET Offenders, quoted : SUBSET Offenders]
    <3>1. n \in Nat /\ Lines \subseteq AnyLine
      BY LintAssumption
    <3> HIDE DEF AnyLine
    <3>2. text' \in [1..n -> AnyLine]
      BY <2>2, <3>1
    <3>3. text' \in Seq(AnyLine)
      BY <3>1, <3>2
    <3>4. QED BY <3>3 DEF Texts, AnyLine
  <2>4. i = 0 /\ cur = NoBlock /\ found = {} /\ owed = total
    BY <2>1, AtRest
  <2>5. BlockInHand'
    BY <2>1, <2>4 DEF BlockInHand, AllClosed
  <2>6. Offending(text', 0) = {}
    BY DEF Offending
  <2>7. ReportIsExact'
    BY <2>1, <2>4, <2>6 DEF ReportIsExact
  <2>8. Counted'
    BY <2>1, <2>4 DEF Counted
  <2>9. i' \in 0..Len(text') /\ total' \in BOOLEAN /\ owed' \in BOOLEAN
    BY <2>1, <2>3, <2>4 DEF LintInv, Texts
  <2>10. QED BY <2>1, <2>3, <2>5, <2>7, <2>8, <2>9 DEF LintInv
<1>3. CASE SkipFile
  BY <1>3 DEF SkipFile, LintInv, BlockInHand, Counted, ReportIsExact
<1>4. CASE Undecodable
  BY <1>4 DEF Undecodable, LintInv, BlockInHand, Counted, ReportIsExact
<1>5. CASE OpensBlock
  <2>1. /\ NextLine /\ ~cur.open /\ text[i + 1].form = "mermaid"
        /\ cur' = [open |-> TRUE, start |-> i + 2, body |-> << >>]
        /\ UNCHANGED <<queue, text, found, total, owed, status>>
    BY <1>5 DEF OpensBlock
  <2>2. i < Len(text) /\ i' = i + 1
    BY <2>1 DEF NextLine
  <2>3. AllClosed(text, i)
    BY <2>1 DEF LintInv, BlockInHand
  <2>4. LeftOpen(text, i + 1, i + 1)
    BY <1>0, <2>1, <2>3 DEF LeftOpen, Opener, AllClosed, Fenced
  <2>5. SubSeq(text, (i + 1) + 1, i + 1) = << >>
    BY <1>0, <2>2 DEF Texts
  <2>6. BlockInHand'
    <3>1. i + 1 \in 1..i' /\ (i + 1) + 1 = i + 2
      BY <1>0, <2>2
    <3>2. QED BY <2>1, <2>2, <2>4, <2>5, <3>1 DEF BlockInHand
  <2>7. \A s \in 1..i: ~IsBlock(text, s, i + 1)
    BY <2>1, <1>0, ClosingLine
  <2>8. QED BY <2>1, <2>6, <2>7, LineKeeps
<1>6. CASE ClosesBlock
  <2>1. /\ NextLine /\ cur.open /\ text[i + 1].form = "fence"
        /\ Count(lint_block(cur.start, cur.body))
        /\ cur' = NoBlock
        /\ UNCHANGED <<queue, text, owed, status>>
    BY <1>6 DEF ClosesBlock
  <2>2. i < Len(text) /\ i' = i + 1 /\ status = "lines"
    BY <2>1 DEF NextLine
  <2>3. PICK s \in 1..i:
          /\ LeftOpen(text, s, i)
          /\ cur = [open |-> TRUE, start |-> s + 1, body |-> SubSeq(text, s + 1, i)]
    BY <2>1 DEF LintInv, BlockInHand, NoBlock
  <2> DEFINE issues == lint_block(cur.start, cur.body)
  <2>4. issues = OffendingIn(text, s, i + 1)
    <3>1. s \in 1..Len(text) /\ i \in s..(Len(text) - 1)
      BY <1>0, <2>2
    <3>2. cur.start = s + 1 /\ cur.body = SubSeq(text, s + 1, i)
      BY <2>3
    <3>3. QED BY <1>0, <3>1, <3>2, LintsTheBlock
  <2>5. found' = found \union issues /\ total' = (total \/ issues # {})
    BY <2>1 DEF Count
  <2> HIDE DEF issues
  <2>6. Offending(text, i + 1) = Offending(text, i) \union issues
    BY <1>0, <2>1, <2>3, <2>4, OneCloses
  <2>7. ReportIsExact'
    BY <2>1, <2>2, <2>5, <2>6 DEF LintInv, ReportIsExact
  <2>8. issues \subseteq Offending(text, Len(text))
    BY <1>0, <2>2, <2>6, OffendingGrows
  <2>9. Counted'
    BY <2>1, <2>5, <2>8 DEF LintInv, Counted
  <2>10. AllClosed(text, i + 1)
    BY <1>0, <2>1 DEF AllClosed, Fenced
  <2>11. BlockInHand'
    BY <2>1, <2>2, <2>10 DEF BlockInHand
  <2>12. total' \in BOOLEAN /\ i' \in 0..Len(text)
    BY <1>0, <2>2, <2>5 DEF LintInv
  <2>13. QED BY <2>1, <2>2, <2>7, <2>9, <2>11, <2>12 DEF LintInv
<1>7. CASE BodyLine
  <2>1. /\ NextLine /\ cur.open /\ text[i + 1].form # "fence"
        /\ cur' = [cur EXCEPT !.body = Append(@, text[i + 1])]
        /\ UNCHANGED <<queue, text, found, total, owed, status>>
    BY <1>7 DEF BodyLine
  <2>2. i < Len(text) /\ i' = i + 1
    BY <2>1 DEF NextLine
  <2>3. PICK s \in 1..i:
          /\ LeftOpen(text, s, i)
          /\ cur = [open |-> TRUE, start |-> s + 1, body |-> SubSeq(text, s + 1, i)]
    BY <2>1 DEF LintInv, BlockInHand, NoBlock
  <2>4. Append(SubSeq(text, s + 1, i), text[i + 1]) = SubSeq(text, s + 1, i + 1)
    BY <1>0, <2>2, OneMoreLine DEF Texts
  <2>5. cur' = [open |-> TRUE, start |-> s + 1, body |-> SubSeq(text, s + 1, i + 1)]
    BY <2>1, <2>3, <2>4
  <2>6. LeftOpen(text, s, i + 1)
    <3>1. ~Fenced(text, s + 1, i) /\ Opener(text, s)
      BY <2>3 DEF LeftOpen
    <3>2. ASSUME NEW n \in (s + 1)..(i + 1)
          PROVE  text[n].form # "fence"
      <4>1. n \in (s + 1)..i \/ n = i + 1
        BY <1>0
      <4>2. QED BY <2>1, <3>1, <4>1 DEF Fenced
    <3>3. QED BY <3>1, <3>2 DEF LeftOpen, Fenced
  <2>7. BlockInHand'
    <3>1. s \in 1..i' /\ LeftOpen(text', s, i')
      BY <1>0, <2>1, <2>2, <2>6
    <3>2. cur' = [open |-> TRUE, start |-> s + 1, body |-> SubSeq(text', s + 1, i')]
      BY <2>1, <2>2, <2>5
    <3>3. QED BY <3>1, <3>2 DEF BlockInHand
  <2>8. \A r \in 1..i: ~IsBlock(text, r, i + 1)
    BY <2>1, <1>0, ClosingLine
  <2>9. QED BY <2>1, <2>7, <2>8, LineKeeps
<1>8. CASE Prose
  <2>1. /\ NextLine /\ ~cur.open /\ text[i + 1].form # "mermaid"
        /\ UNCHANGED <<queue, text, cur, found, total, owed, status>>
    BY <1>8 DEF Prose
  <2>2. i < Len(text) /\ i' = i + 1
    BY <2>1 DEF NextLine
  <2>3. cur = NoBlock /\ AllClosed(text, i)
    BY <2>1 DEF LintInv, BlockInHand
  <2>4. AllClosed(text, i + 1)
    BY <1>0, <2>1, <2>3 DEF AllClosed, Fenced
  <2>5. BlockInHand'
    BY <2>1, <2>2, <2>3, <2>4 DEF BlockInHand
  <2>6. \A s \in 1..i: ~IsBlock(text, s, i + 1)
    BY <1>0, <2>3, ClosingLine DEF AllClosed, LeftOpen, Opener
  <2>7. QED BY <2>1, <2>5, <2>6, LineKeeps
<1>9. CASE FileDone
  <2>1. /\ status = "lines" /\ i = Len(text) /\ status' = "files"
        /\ text' = << >> /\ i' = 0 /\ cur' = NoBlock /\ found' = {}
        /\ UNCHANGED <<queue, total, owed>>
    BY <1>9 DEF FileDone
  <2>2. owed = total
    BY <2>1 DEF LintInv, Counted, ReportIsExact
  <2>3. BlockInHand'
    BY <2>1 DEF BlockInHand, AllClosed
  <2>4. Offending(text', 0) = {} /\ Len(text') = 0
    BY <2>1, NothingIsOwed
  <2>5. Counted' /\ ReportIsExact'
    BY <2>1, <2>2, <2>4 DEF LintInv, Counted, ReportIsExact
  <2>6. QED BY <2>1, <2>3, <2>5 DEF LintInv, Texts
<1>10. CASE LintEnd
  <2>1. /\ status = "files" /\ status' = IF total THEN "1" ELSE "0"
        /\ UNCHANGED <<queue, text, i, cur, found, total, owed>>
    BY <1>10 DEF LintEnd
  <2>2. BlockInHand' /\ Counted' /\ ReportIsExact'
    BY <2>1 DEF LintInv, BlockInHand, Counted, ReportIsExact
  <2>3. (status' = "1" => total) /\ (status' = "0" => ~total)
    BY <2>1
  <2>4. QED BY <2>1, <2>2, <2>3 DEF LintInv
<1>11. CASE UNCHANGED lintVars
  BY <1>11 DEF lintVars, LintInv, BlockInHand, Counted, ReportIsExact
<1>12. QED
  BY <1>1, <1>2, <1>3, <1>4, <1>5, <1>6, <1>7, <1>8, <1>9, <1>10, <1>11 DEF LintNext

(***************************************************************************)
(* find_blocks holds, after each line, the block that the text so far      *)
(* leaves open, and main has counted what is owed for it.                  *)
(***************************************************************************)
THEOREM LintInvHolds == LintSpec => []LintInv
<1>1. LintInit => LintInv
  BY LintInit_Inv
<1>2. LintInv /\ [LintNext]_lintVars => LintInv'
  BY LintInvStep
<1>3. QED BY <1>1, <1>2, PTL DEF LintSpec

(***************************************************************************)
(* The linter prints the offending lines of the closed blocks of any file, *)
(* each under its own number, and nothing else (find_blocks, lint_block).  *)
(***************************************************************************)
THEOREM ReportsExactly == LintSpec => []ReportIsExact
<1>1. LintInv => ReportIsExact
  BY DEF LintInv
<1>2. QED BY <1>1, LintInvHolds, PTL

(***************************************************************************)
(* Its exit status tells whether a file that it could read holds an        *)
(* offending line, for any number of files in any order (main).            *)
(***************************************************************************)
THEOREM ExitsTruly == LintSpec => []ExitIsTheVerdict
<1>1. ASSUME LintInv
      PROVE  ExitIsTheVerdict
  <2>1. status \in {"0", "1"} => owed = total
    BY <1>1, AtRest
  <2>2. QED BY <1>1, <2>1 DEF LintInv, ExitIsTheVerdict
<1>2. QED BY <1>1, LintInvHolds, PTL
=============================================================================
