------------------------------ MODULE RekorAnchor ------------------------------
(***************************************************************************)
(* Anchoring signed checkpoints in Rekor (rekor.go, and the anchor         *)
(* operations of ipc.go and main.go): submissions over a network that      *)
(* loses and delays, a client that gives up after five seconds, and the    *)
(* verification of what came back.  Emits and checkpoint_create are one    *)
(* step under Chain.mu here; module Chain has them in detail.              *)
(*                                                                         *)
(* Rekor is external: an honest append-only log that checks the signature  *)
(* of what it is given and keeps one entry for equal content.  The number  *)
(* of an entry stands for its logIndex, integratedTime and logID, which    *)
(* Rekor signs together and the code compares one by one.  An answer       *)
(* reaches its client as it is made or never: HTTP gives no other call     *)
(* the answer of an abandoned one.                                         *)
(***************************************************************************)
EXTENDS Integers, Sequences, FiniteSets

CONSTANTS
  Client,       \* connections to the daemon, and commands next to it
  Nobody,       \* nobody holds Chain.mu
  Pem, NoPem,   \* the texts of public keys; no text is given
  KeyOf,        \* the key in a text; several texts may hold the same one
  Operator,     \* the key the daemon signs with
  MaxHead,      \* bound: records
  MaxCalls      \* bound: anchor calls

ASSUME AnchorAssumption ==
  /\ Nobody \notin Client /\ NoPem \notin Pem
  /\ DOMAIN KeyOf = Pem
  /\ {MaxHead, MaxCalls} \subseteq Nat

Key == {KeyOf[pem] : pem \in Pem}

\* issued_at is left out: checkpoints of one head are of one second, and Ed25519 then
\* gives them one signature.
SignedCheckpoint == [tree_size : 0..MaxHead, key : Key]

\* A hashedrekord: digest and signature stand for the signed checkpoint.
CheckpointHashedRekord(cp, pem) == [checkpoint |-> cp, publicKey |-> pem]

VARIABLES
  head,       \* records in the log
  chainMu,    \* the holder of Chain.mu
  stage,      \* per client: where its call is
  request,    \* per client: its submission
  sent,       \* the submissions under way to Rekor
  rekor,      \* the entries of Rekor
  receipts,   \* the receipts that were given out, each with what was submitted for it
  calls       \* anchor calls so far

anchorVars == <<head, chainMu, stage, request, sent, rekor, receipts, calls>>

NoRequest == [n |-> 0]

AnchorInit ==
  /\ head = 0 /\ chainMu = Nobody
  /\ stage = [c \in Client |-> "idle"] /\ request = [c \in Client |-> NoRequest]
  /\ sent = {} /\ rekor = << >> /\ receipts = {} /\ calls = 0

-----------------------------------------------------------------------------
(* Rekor's entry n, and the receipt that the code makes of an answer *)

SignedEntryTimestamp(body, n) == [body |-> body, log_index |-> n]

Receipt(body, n) ==
  [log_index |-> n, signed_entry_timestamp |-> SignedEntryTimestamp(body, n), entry_id |-> n]

NoEntryID == 0

-----------------------------------------------------------------------------
(* Calls to the daemon *)

Emitting == {c \in Client : stage[c] \in {"emit", "append"}}

AnchorCall(c) ==
  /\ stage[c] = "idle"
  /\ \/ /\ head + Cardinality(Emitting) < MaxHead
        /\ stage' = [stage EXCEPT ![c] = "emit"] /\ UNCHANGED calls
     \/ /\ calls < MaxCalls
        /\ stage' = [stage EXCEPT ![c] = "anchor"] /\ calls' = calls + 1
  /\ UNCHANGED <<head, chainMu, request, sent, rekor, receipts>>

AnchorLock(c) ==
  /\ stage[c] \in {"emit", "anchor"} /\ chainMu = Nobody
  /\ chainMu' = c
  /\ stage' = [stage EXCEPT ![c] = IF @ = "emit" THEN "append" ELSE "build"]
  /\ UNCHANGED <<head, request, sent, rekor, receipts, calls>>

AnchorEmit(c) ==
  /\ stage[c] = "append"
  /\ head' = head + 1
  /\ chainMu' = Nobody
  /\ stage' = [stage EXCEPT ![c] = "idle"]
  /\ UNCHANGED <<request, sent, rekor, receipts, calls>>

\* SubmitCheckpoint up to the answer.
Submit(c, n, body) ==
  /\ stage' = [stage EXCEPT ![c] = "post"]
  /\ request' = [request EXCEPT ![c] = [n |-> n, body |-> body]]
  /\ sent' = sent \union {[client |-> c, n |-> n, body |-> body]}

\* Mutant of BuildAndPost: the lock is held until Rekor has answered.
BuildAndPostLocked(c) ==
  /\ stage[c] = "build"
  /\ \E pem \in Pem:
       Submit(c, calls, CheckpointHashedRekord([tree_size |-> head, key |-> Operator], pem))
  /\ UNCHANGED <<head, chainMu, rekor, receipts, calls>>

\* checkpoint_anchor: a checkpoint of the current head, built under the lock, is sent
\* after it is released, with the configured key text or one derived from the private
\* key.  The checkpoint itself is given to nobody.
BuildAndPost(c) ==
  /\ stage[c] = "build"
  /\ \E pem \in Pem:
       Submit(c, calls, CheckpointHashedRekord([tree_size |-> head, key |-> Operator], pem))
  /\ chainMu' = Nobody
  /\ UNCHANGED <<head, rekor, receipts, calls>>

\* A checkpoint that can be in a file: the daemon signed one of the heads so far, and
\* others sign what they like.
Stored == {cp \in SignedCheckpoint : cp.key = Operator => cp.tree_size <= head}

\* The command `checkpoint anchor` submits a checkpoint from a file, and may do so again.
PostStored(c) ==
  /\ stage[c] = "idle" /\ calls < MaxCalls
  /\ calls' = calls + 1
  /\ \E cp \in Stored, pem \in Pem: Submit(c, calls', CheckpointHashedRekord(cp, pem))
  /\ UNCHANGED <<head, chainMu, rekor, receipts>>

PostReturns(c) ==
  /\ stage' = [stage EXCEPT ![c] = "idle"]
  /\ request' = [request EXCEPT ![c] = NoRequest]
  /\ chainMu' = IF chainMu = c THEN Nobody ELSE chainMu

\* Mutant of Timeout: a request that times out is sent again instead.
TimeoutSendsAgain(c) ==
  /\ stage[c] = "post"
  /\ sent' = sent \union {[client |-> c, n |-> request[c].n, body |-> request[c].body]}
  /\ UNCHANGED <<head, chainMu, stage, request, rekor, receipts, calls>>

\* http.Client gives up.  What it sent may still arrive.
Timeout(c) ==
  /\ stage[c] = "post"
  /\ PostReturns(c)
  /\ UNCHANGED <<head, sent, rekor, receipts, calls>>

-----------------------------------------------------------------------------
(* Rekor and the network *)

\* Mutant of Awaited: an answer is taken for whatever the client waits for by now.
AwaitedByClient(req) == stage[req.client] = "post"

\* The client still waits for the answer to this very request.
Awaited(req) == request[req.client].n = req.n

NoAnswer == UNCHANGED <<stage, request, chainMu, receipts>>

\* SubmitCheckpoint from the answer on: a receipt if there is an entry.
Returned(req, entry) ==
  /\ Awaited(req)
  /\ receipts' = receipts \union
       {[body |-> request[req.client].body, receipt |-> Receipt(rekor'[n], n)] : n \in entry}
  /\ PostReturns(req.client)

RekorAdds ==
  \E req \in sent:
    /\ KeyOf[req.body.publicKey] = req.body.checkpoint.key
    /\ \A n \in DOMAIN rekor: rekor[n] # req.body
    /\ rekor' = Append(rekor, req.body)
    /\ Returned(req, {Len(rekor')}) \/ NoAnswer
    /\ sent' = sent \ {req}
    /\ UNCHANGED <<head, calls>>

\* Equal content: the entry that is there, or a conflict, which the client takes for a
\* refusal.
RekorKnows ==
  \E req \in sent, n \in DOMAIN rekor:
    /\ rekor[n] = req.body
    /\ UNCHANGED rekor
    /\ Returned(req, {n}) \/ Returned(req, {}) \/ NoAnswer
    /\ sent' = sent \ {req}
    /\ UNCHANGED <<head, calls>>

\* Refused, lost, or answered with something that does not decode.
RekorRefuses ==
  \E req \in sent:
    /\ UNCHANGED rekor
    /\ Returned(req, {}) \/ NoAnswer
    /\ sent' = sent \ {req}
    /\ UNCHANGED <<head, calls>>

-----------------------------------------------------------------------------

Locally(c) == AnchorEmit(c) \/ BuildAndPost(c)

Network == RekorAdds \/ RekorKnows \/ RekorRefuses

AnchorNext ==
  \/ Network
  \/ \E c \in Client:
       AnchorCall(c) \/ AnchorLock(c) \/ Locally(c) \/ PostStored(c) \/ Timeout(c)

AnchorFairness ==
  \A c \in Client: SF_anchorVars(AnchorLock(c)) /\ WF_anchorVars(Locally(c))

AnchorSpec == AnchorInit /\ [][AnchorNext]_anchorVars /\ AnchorFairness

-----------------------------------------------------------------------------
(* Verification of a receipt.  It changes nothing: every failed fetch is a    *)
(* verdict of invalid.                                                        *)

VerifySignedCheckpoint(cp, pem) == cp.key = KeyOf[pem]

\* Mutant of VerifyRekorReceiptOffline: the index is left out of the signed payload.
VerifyRekorReceiptOfflineUnplaced(receipt, cp, pem) ==
  receipt.signed_entry_timestamp.body = CheckpointHashedRekord(cp, pem)

VerifyRekorReceiptOffline(receipt, cp, pem) ==
  receipt.signed_entry_timestamp
    = SignedEntryTimestamp(CheckpointHashedRekord(cp, pem), receipt.log_index)

\* By entry_id, and without one by index.
Fetched(receipt) ==
  IF receipt.entry_id # NoEntryID THEN receipt.entry_id ELSE receipt.log_index

VerifyRekorReceiptOnline(receipt, cp, pem) ==
  LET n == Fetched(receipt) IN
  /\ n \in DOMAIN rekor
  /\ VerifyRekorReceiptOffline(receipt, cp, pem)
  /\ n = receipt.log_index
  /\ SignedEntryTimestamp(rekor[n], n) = receipt.signed_entry_timestamp
  /\ rekor[n] = CheckpointHashedRekord(cp, pem)

\* The command without a key takes the one in the entry, and needs Rekor for it.
VerifyAnchor(receipt, cp, pem, online) ==
  IF pem = NoPem
    THEN /\ online /\ Fetched(receipt) \in DOMAIN rekor
         /\ LET extracted == rekor[Fetched(receipt)].publicKey IN
              /\ VerifyRekorReceiptOnline(receipt, cp, extracted)
              /\ VerifySignedCheckpoint(cp, extracted)
    ELSE /\ VerifySignedCheckpoint(cp, pem)
         /\ IF online THEN VerifyRekorReceiptOnline(receipt, cp, pem)
                      ELSE VerifyRekorReceiptOffline(receipt, cp, pem)

-----------------------------------------------------------------------------
(* Properties *)

\* Whatever a third party can put together from the entries of Rekor.
Recombined ==
  {[log_index |-> n, signed_entry_timestamp |-> SignedEntryTimestamp(rekor[m], m),
    entry_id |-> id] : n, m \in DOMAIN rekor, id \in DOMAIN rekor \union {NoEntryID}}

\* The checkpoints that receipts with this index are accepted for.
AcceptedAt(n) ==
  {cp \in SignedCheckpoint : \E receipt \in Recombined, pem \in Pem \union {NoPem}, online \in BOOLEAN:
    receipt.log_index = n /\ VerifyAnchor(receipt, cp, pem, online)}

(***************************************************************************)
(* Auditors who compare notes by log index look at one head (ADR-004): for *)
(* each index at most one checkpoint is ever accepted, the one Rekor holds *)
(* there, whichever receipt, key text and mode of verification the         *)
(* auditors use and however the receipts were put together.                *)
(***************************************************************************)
AuditorsAgree ==
  \A n \in DOMAIN rekor: AcceptedAt(n) \subseteq {rekor[n].checkpoint}

(***************************************************************************)
(* A receipt that was given out is a receipt for what was submitted, late  *)
(* and lost answers of this and of abandoned calls notwithstanding: with   *)
(* the text of the key it was submitted with it is accepted for that       *)
(* checkpoint, offline and online, from then on.                           *)
(***************************************************************************)
ReceiptsVerify ==
  \A r \in receipts, online \in BOOLEAN:
    VerifyAnchor(r.receipt, r.body.checkpoint, r.body.publicKey, online)

(***************************************************************************)
(* ADR-004: client writes never block on network calls.  Every emit        *)
(* returns, although nothing is assumed of Rekor or of the network here,   *)
(* not even that a request times out.                                      *)
(***************************************************************************)
EmitNeverWaitsForRekor ==
  \A c \in Client: stage[c] = "emit" ~> stage[c] = "idle"

(***************************************************************************)
(* Every anchor call returns if only the client's timeout fires.           *)
(***************************************************************************)
AnchorReturns ==
  (\A c \in Client: WF_anchorVars(Timeout(c)))
    => \A c \in Client: stage[c] = "anchor" ~> stage[c] = "idle"
=============================================================================
