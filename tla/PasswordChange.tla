----------------------------- MODULE PasswordChange -----------------------------
(****************************************************************************)
(* Service.ChangePassword and SettlePasswordChangeNotApplied for one user.  *)
(* A call reads the receipt, reads and verifies the credential, and only    *)
(* then starts the transaction that claims the receipt and swaps the hash;  *)
(* a call that fails settles the receipt as not_applied and reads it back.  *)
(* Calls with the same request_id (retries, a settlement racing the call it *)
(* gives up on) interleave between those steps, and any of them may be cut  *)
(* off by an error, before or after its transaction committed.              *)
(*                                                                          *)
(* A hash is salted: it is equal to no other hash, even of the same         *)
(* password.  It is modelled by the password and the call that hashed it.   *)
(****************************************************************************)
CONSTANTS Call, RequestId, Password, InitialPassword,
          NoCall  \* "hashed by" of the password the account was created with

ASSUME PasswordAssumption == InitialPassword \in Password /\ NoCall \notin Call

VARIABLES credential,  \* password_credentials.password_hash
          receipt,     \* password_change_receipts.effect
          call         \* the calls in progress

passwordVars == <<credential, receipt, call>>

Hash == [password : Password, by : Call \union {NoCall}]
NotAsked == [id |-> "none"]
Ask == [id : RequestId, current : Password, new : Password]
NotStarted == [phase |-> "idle", ask |-> NotAsked, answer |-> "none"]

\* read: the hash the call verified the current password against.
CallState ==
  {NotStarted} \union
  [phase : {"begun", "valid", "verified", "reject", "resolve", "done"}, ask : Ask,
   read : Hash, answer : {"none", "applied", "not_applied", "error", "no_receipt"}]

PasswordTypeOK ==
  /\ credential \in Hash
  /\ receipt \in [RequestId -> {"unknown", "committed", "not_applied"}]
  /\ call \in [Call -> CallState]

PasswordInit ==
  /\ credential = [password |-> InitialPassword, by |-> NoCall]
  /\ receipt = [r \in RequestId |-> "unknown"]
  /\ call = [c \in Call |-> NotStarted]

-----------------------------------------------------------------------------
Goto(c, phase) == call' = [call EXCEPT ![c].phase = phase]
Finish(c, answer) == call' = [call EXCEPT ![c].phase = "done", ![c].answer = answer]

\* resolvePasswordChange: what the receipt says; it should not be missing.
Resolved(effect) ==
  CASE effect = "committed" -> "applied"
    [] effect = "not_applied" -> "not_applied"
    [] OTHER -> "no_receipt"

\* A request to change the password, or only to settle a request id.
Begin(c, ask, settle) ==
  /\ call[c] = NotStarted
  /\ call' = [call EXCEPT ![c] = [phase |-> IF settle THEN "reject" ELSE "begun",
                                  ask |-> ask, read |-> credential, answer |-> "none"]]
  /\ UNCHANGED <<credential, receipt>>

\* The receipt decides if there is one; an invalid new password is rejected.
CheckReceipt(c, valid) ==
  /\ call[c].phase = "begun"
  /\ LET effect == receipt[call[c].ask.id] IN
       IF effect # "unknown" THEN Finish(c, Resolved(effect))
       ELSE Goto(c, IF valid THEN "valid" ELSE "reject")
  /\ UNCHANGED <<credential, receipt>>

\* PasswordCredential and verifyPassword.
VerifyCurrent(c) ==
  /\ call[c].phase = "valid"
  /\ call' = [call EXCEPT ![c].read = credential,
                          ![c].phase = IF credential.password = call[c].ask.current
                                       THEN "verified" ELSE "reject"]
  /\ UNCHANGED <<credential, receipt>>

\* Seeded fault: the update does not compare the hash the call verified.
TryCommitPasswordChange_blind(c, delivered) ==
  /\ call[c].phase = "verified"
  /\ receipt[call[c].ask.id] = "unknown"
  /\ credential' = [password |-> call[c].ask.new, by |-> c]
  /\ receipt' = [receipt EXCEPT ![call[c].ask.id] = "committed"]
  /\ Finish(c, IF delivered THEN "applied" ELSE "error")

\* The transaction: claim the receipt, compare and swap the hash.  The caller
\* may not hear of the commit.
TryCommitPasswordChange(c, delivered) ==
  /\ call[c].phase = "verified"
  /\ \/ /\ receipt[call[c].ask.id] # "unknown"
        /\ Goto(c, "resolve")
        /\ UNCHANGED <<credential, receipt>>
     \/ /\ receipt[call[c].ask.id] = "unknown" /\ credential # call[c].read
        /\ Goto(c, "reject")
        /\ UNCHANGED <<credential, receipt>>
     \/ /\ receipt[call[c].ask.id] = "unknown" /\ credential = call[c].read
        /\ credential' = [password |-> call[c].ask.new, by |-> c]
        /\ receipt' = [receipt EXCEPT ![call[c].ask.id] = "committed"]
        /\ Finish(c, IF delivered THEN "applied" ELSE "error")

\* Seeded fault: the rejected call reports without writing a receipt.
SettlePasswordChange_skipped(c) ==
  /\ call[c].phase = "reject"
  /\ Goto(c, "resolve")
  /\ UNCHANGED <<credential, receipt>>

\* Seeded fault: ON CONFLICT DO UPDATE instead of DO NOTHING.
SettlePasswordChange_overwriting(c) ==
  /\ call[c].phase = "reject"
  /\ receipt' = [receipt EXCEPT ![call[c].ask.id] = "not_applied"]
  /\ Goto(c, "resolve")
  /\ UNCHANGED credential

\* INSERT ... ON CONFLICT DO NOTHING, without the control lock.
SettlePasswordChange(c) ==
  /\ call[c].phase = "reject"
  /\ receipt' = [receipt EXCEPT ![call[c].ask.id] = IF @ = "unknown" THEN "not_applied" ELSE @]
  /\ Goto(c, "resolve")
  /\ UNCHANGED credential

resolvePasswordChange(c) ==
  /\ call[c].phase = "resolve"
  /\ Finish(c, Resolved(receipt[call[c].ask.id]))
  /\ UNCHANGED <<credential, receipt>>

\* A database error, a timeout or a crash: what was not committed is lost.
Fail(c) ==
  /\ call[c].phase \notin {"idle", "done"}
  /\ Finish(c, "error")
  /\ UNCHANGED <<credential, receipt>>

Step(c) ==
  \/ \E b \in BOOLEAN : CheckReceipt(c, b)
  \/ VerifyCurrent(c)
  \/ \E b \in BOOLEAN : TryCommitPasswordChange(c, b)
  \/ SettlePasswordChange(c)
  \/ resolvePasswordChange(c)

PasswordNext ==
  \E c \in Call : \/ \E a \in Ask, settle \in BOOLEAN : Begin(c, a, settle)
                  \/ Step(c)
                  \/ Fail(c)

\* A call that was accepted runs to its end.
PasswordSpec ==
  PasswordInit /\ [][PasswordNext]_passwordVars /\ \A c \in Call : WF_passwordVars(Step(c))

-----------------------------------------------------------------------------
(* Properties. *)

\* The branch for a request without a durable outcome is unreachable: whoever
\* resolves has claimed, found or settled the receipt before.
ReceiptNeverMissing ==
  \A c \in Call :
    /\ call[c].phase = "resolve" => receipt[call[c].ask.id] # "unknown"
    /\ call[c].answer # "no_receipt"

\* No two callers of the same request id are told different things, and what
\* they are told is what the receipt says for good.
AnswersAgree ==
  \A c \in Call :
    /\ call[c].answer = "applied" => receipt[call[c].ask.id] = "committed"
    /\ call[c].answer = "not_applied" => receipt[call[c].ask.id] = "not_applied"

\* A call that is about to commit knows the password behind the hash it read.
VerifiedKnowsPassword ==
  \A c \in Call : call[c].phase = "verified" => call[c].read.password = call[c].ask.current

\* A call that is still running has not answered.
AnswersComeLast ==
  \A c \in Call : call[c].phase # "done" => call[c].answer = "none"

\* The inductive invariant behind the refinement.
PasswordInvariant ==
  /\ PasswordTypeOK /\ ReceiptNeverMissing /\ AnswersAgree
  /\ VerifiedKnowsPassword /\ AnswersComeLast

\* The calls together implement PasswordOutcome: one decision per request id,
\* applied exactly once and only over the password its caller knew.
O == INSTANCE PasswordOutcome WITH
       password <- credential.password,
       outcome <- receipt,
       asked <- [c \in Call |-> call[c].ask],
       answer <- [c \in Call |-> call[c].answer]

ImplementsOutcome == O!OutcomeSpec

\* Every request id somebody asked about is decided for good, unless one of
\* its calls was cut off by an error.
EveryRequestDecided ==
  \A r \in RequestId :
    (\E c \in Call : call[c].ask.id = r) ~>
      \/ receipt[r] # "unknown"
      \/ \E c \in Call : call[c].ask.id = r /\ call[c].answer = "error"
=================================================================================
