---------------------------- MODULE PasswordProofs ----------------------------
(* PasswordInvariant is inductive, and PasswordChange implements            *)
(* PasswordOutcome, for any number of calls, request ids and passwords.     *)
EXTENDS PasswordChange, TLAPS

Phases == {"begun", "valid", "verified", "reject", "resolve", "done"}
Answers == {"none", "applied", "not_applied", "error", "no_receipt"}

\* A started call has all fields.
LEMMA StartedCall ==
  ASSUME PasswordTypeOK, NEW c \in Call, call[c].phase # "idle"
  PROVE  /\ call[c].phase \in Phases /\ call[c].answer \in Answers
         /\ call[c].ask \in Ask /\ call[c].ask.id \in RequestId
         /\ call[c].ask.current \in Password /\ call[c].ask.new \in Password
         /\ call[c].read \in Hash
         /\ call[c] = [phase |-> call[c].phase, ask |-> call[c].ask,
                       read |-> call[c].read, answer |-> call[c].answer]
<1>1. call[c] \in CallState /\ call[c] # NotStarted
  BY DEF PasswordTypeOK, NotStarted
<1>. QED
  BY <1>1 DEF CallState, Phases, Answers, Ask

\* Goto and Finish change the phase and the answer of one call only.
LEMMA PhaseChange ==
  ASSUME PasswordTypeOK, NEW c \in Call, call[c].phase # "idle",
         NEW phase \in Phases, NEW answer \in Answers,
         \/ Goto(c, phase) /\ answer = call[c].answer
         \/ Finish(c, answer) /\ phase = "done"
  PROVE  /\ call' \in [Call -> CallState]
         /\ call'[c].phase = phase /\ call'[c].answer = answer
         /\ call'[c].ask = call[c].ask /\ call'[c].read = call[c].read
         /\ \A d \in Call : d # c => call'[d] = call[d]
<1>1. call[c].ask \in Ask /\ call[c].read \in Hash
  BY StartedCall
<1>2. call' = [call EXCEPT ![c] = [phase |-> phase, ask |-> call[c].ask,
                                   read |-> call[c].read, answer |-> answer]]
  BY StartedCall DEF Goto, Finish, PasswordTypeOK
<1>. QED
  BY <1>1, <1>2 DEF PasswordTypeOK, CallState, Phases, Answers

\* A receipt is decided at most once.
Decided == \A r \in RequestId : receipt[r] # "unknown" => receipt'[r] = receipt[r]

\* What one call has to observe for everybody's sake.
LEMMA CallStep ==
  ASSUME PasswordInvariant, NEW c \in Call,
         credential' \in Hash,
         receipt' \in [RequestId -> {"unknown", "committed", "not_applied"}], Decided,
         call' \in [Call -> CallState],
         \A d \in Call : d # c => call'[d] = call[d],
         call'[c].phase # "idle",
         call'[c].phase = "resolve" => receipt'[call'[c].ask.id] # "unknown",
         call'[c].answer # "no_receipt",
         call'[c].answer = "applied" => receipt'[call'[c].ask.id] = "committed",
         call'[c].answer = "not_applied" => receipt'[call'[c].ask.id] = "not_applied",
         call'[c].phase = "verified" => call'[c].read.password = call'[c].ask.current,
         call'[c].phase # "done" => call'[c].answer = "none"
  PROVE  PasswordInvariant'
<1>1. PasswordTypeOK'
  BY DEF PasswordTypeOK
<1>2. \A d \in Call : call[d].answer # "none" \/ call[d].phase = "resolve"
                         => call[d].ask.id \in RequestId
  BY StartedCall DEF PasswordInvariant, PasswordTypeOK, CallState, NotStarted
<1>3. ReceiptNeverMissing'
  BY <1>2 DEF PasswordInvariant, ReceiptNeverMissing, Decided
<1>4. AnswersAgree'
  BY <1>2 DEF PasswordInvariant, AnswersAgree, Decided
<1>5. VerifiedKnowsPassword'
  BY DEF PasswordInvariant, VerifiedKnowsPassword
<1>6. AnswersComeLast'
  BY DEF PasswordInvariant, AnswersComeLast
<1>. QED
  BY <1>1, <1>3, <1>4, <1>5, <1>6 DEF PasswordInvariant

\* One case per step of a call.
LEMMA PasswordStep ==
  PasswordInvariant /\ [PasswordNext]_passwordVars => PasswordInvariant'
<1>. SUFFICES ASSUME PasswordInvariant, [PasswordNext]_passwordVars
     PROVE PasswordInvariant'
  OBVIOUS
<1>0. PasswordTypeOK
  BY DEF PasswordInvariant
<1>1. ASSUME NEW c \in Call, NEW a \in Ask, NEW settle \in BOOLEAN, Begin(c, a, settle)
      PROVE PasswordInvariant'
  <2>. DEFINE new == [phase |-> IF settle THEN "reject" ELSE "begun",
                      ask |-> a, read |-> credential, answer |-> "none"]
  <2>1. new \in CallState /\ new.phase \in {"reject", "begun"} /\ new.answer = "none"
    BY <1>0 DEF CallState, PasswordTypeOK
  <2>2. /\ call' \in [Call -> CallState] /\ call'[c] = new
        /\ \A d \in Call : d # c => call'[d] = call[d]
    BY <1>0, <1>1, <2>1 DEF Begin, PasswordTypeOK
  <2>. HIDE DEF new
  <2>3. /\ credential' \in Hash /\ Decided
        /\ receipt' \in [RequestId -> {"unknown", "committed", "not_applied"}]
    BY <1>0, <1>1 DEF Begin, PasswordTypeOK, Decided
  <2>. QED
    BY <2>1, <2>2, <2>3, CallStep
<1>2. ASSUME NEW c \in Call, NEW valid \in BOOLEAN, CheckReceipt(c, valid)
      PROVE PasswordInvariant'
  <2>1. call[c].phase = "begun" /\ call[c].phase # "idle" /\ call[c].ask.id \in RequestId
    BY <1>0, <1>2, StartedCall DEF CheckReceipt
  <2>2. /\ credential' \in Hash /\ Decided /\ receipt' = receipt
        /\ receipt' \in [RequestId -> {"unknown", "committed", "not_applied"}]
    BY <1>0, <1>2 DEF CheckReceipt, PasswordTypeOK, Decided
  <2>3. CASE receipt[call[c].ask.id] # "unknown"
    <3>. DEFINE ans == Resolved(receipt[call[c].ask.id])
    <3>1. Finish(c, ans)
      BY <1>2, <2>3 DEF CheckReceipt
    <3>2. /\ ans \in Answers /\ ans # "no_receipt"
          /\ ans = "applied" => receipt[call[c].ask.id] = "committed"
          /\ ans = "not_applied" => receipt[call[c].ask.id] = "not_applied"
      BY <1>0, <2>1, <2>3 DEF Resolved, PasswordTypeOK, Answers
    <3>. HIDE DEF ans
    <3>. QED
      BY <1>0, <2>1, <2>2, <3>1, <3>2, PhaseChange, CallStep DEF Phases
  <2>4. CASE receipt[call[c].ask.id] = "unknown"
    <3>1. Goto(c, IF valid THEN "valid" ELSE "reject")
      BY <1>2, <2>4 DEF CheckReceipt
    <3>2. PICK ph \in {"valid", "reject"} : Goto(c, ph)
      BY <3>1
    <3>3. /\ call' \in [Call -> CallState]
          /\ call'[c].phase = ph /\ call'[c].answer = call[c].answer
          /\ call'[c].ask = call[c].ask
          /\ \A d \in Call : d # c => call'[d] = call[d]
      <4>1. ph \in Phases /\ call[c].answer \in Answers
        BY <1>0, <2>1, StartedCall DEF Phases
      <4>. QED
        BY <1>0, <2>1, <3>2, <4>1, PhaseChange
    <3>. QED
      BY <2>1, <2>2, <3>3, CallStep DEF PasswordInvariant, AnswersComeLast
  <2>. QED
    BY <2>3, <2>4
<1>3. ASSUME NEW c \in Call, VerifyCurrent(c) PROVE PasswordInvariant'
  <2>1. call[c].phase = "valid" /\ call[c].phase # "idle" /\ call[c].ask \in Ask
    BY <1>0, <1>3, StartedCall DEF VerifyCurrent
  <2>2. /\ credential' \in Hash /\ Decided /\ receipt' = receipt
        /\ receipt' \in [RequestId -> {"unknown", "committed", "not_applied"}]
    BY <1>0, <1>3 DEF VerifyCurrent, PasswordTypeOK, Decided
  <2>. DEFINE ph == IF credential.password = call[c].ask.current THEN "verified" ELSE "reject"
              new == [phase |-> ph, ask |-> call[c].ask, read |-> credential,
                      answer |-> call[c].answer]
  <2>3. call' = [call EXCEPT ![c] = new]
    BY <1>0, <1>3, <2>1, StartedCall DEF VerifyCurrent, PasswordTypeOK
  <2>4. new \in CallState
    BY <1>0, <2>1, StartedCall DEF CallState, PasswordTypeOK, Answers
  <2>5. /\ new.phase \in {"verified", "reject"} /\ new.answer = call[c].answer
        /\ new.ask = call[c].ask
        /\ new.phase = "verified" => new.read.password = call[c].ask.current
    OBVIOUS
  <2>. HIDE DEF new, ph
  <2>6. /\ call' \in [Call -> CallState] /\ call'[c] = new
        /\ \A d \in Call : d # c => call'[d] = call[d]
    BY <1>0, <2>3, <2>4 DEF PasswordTypeOK
  <2>. QED
    BY <2>1, <2>2, <2>5, <2>6, CallStep DEF PasswordInvariant, AnswersComeLast
<1>4. ASSUME NEW c \in Call, NEW delivered \in BOOLEAN, TryCommitPasswordChange(c, delivered)
      PROVE PasswordInvariant'
  <2>1. /\ call[c].phase = "verified" /\ call[c].phase # "idle"
        /\ call[c].ask.id \in RequestId /\ call[c].ask.new \in Password
    BY <1>0, <1>4, StartedCall DEF TryCommitPasswordChange
  <2>2. CASE \E ph \in {"resolve", "reject"} :
               /\ ph = "resolve" => receipt[call[c].ask.id] # "unknown"
               /\ Goto(c, ph) /\ UNCHANGED <<credential, receipt>>
    <3>1. PICK ph \in {"resolve", "reject"} :
            /\ ph = "resolve" => receipt[call[c].ask.id] # "unknown"
            /\ Goto(c, ph) /\ UNCHANGED <<credential, receipt>>
      BY <2>2
    <3>2. /\ call' \in [Call -> CallState]
          /\ call'[c].phase = ph /\ call'[c].answer = call[c].answer
          /\ call'[c].ask = call[c].ask
          /\ \A d \in Call : d # c => call'[d] = call[d]
      <4>1. ph \in Phases /\ call[c].answer \in Answers
        BY <1>0, <2>1, StartedCall DEF Phases
      <4>. QED
        BY <1>0, <2>1, <3>1, <4>1, PhaseChange
    <3>3. /\ credential' \in Hash /\ Decided
          /\ receipt' \in [RequestId -> {"unknown", "committed", "not_applied"}]
      BY <1>0, <3>1 DEF PasswordTypeOK, Decided
    <3>. QED
      BY <2>1, <3>1, <3>2, <3>3, CallStep DEF PasswordInvariant, AnswersComeLast
  <2>3. CASE /\ receipt[call[c].ask.id] = "unknown"
             /\ credential' = [password |-> call[c].ask.new, by |-> c]
             /\ receipt' = [receipt EXCEPT ![call[c].ask.id] = "committed"]
             /\ Finish(c, IF delivered THEN "applied" ELSE "error")
    <3>1. PICK ans \in {"applied", "error"} : Finish(c, ans)
      BY <2>3
    <3>2. /\ call' \in [Call -> CallState]
          /\ call'[c].phase = "done" /\ call'[c].answer = ans
          /\ call'[c].ask = call[c].ask
          /\ \A d \in Call : d # c => call'[d] = call[d]
      BY <1>0, <2>1, <3>1, PhaseChange DEF Phases, Answers
    <3>3. /\ credential' \in Hash /\ Decided
          /\ receipt' \in [RequestId -> {"unknown", "committed", "not_applied"}]
          /\ receipt'[call[c].ask.id] = "committed"
      BY <1>0, <2>1, <2>3 DEF PasswordTypeOK, Decided, Hash
    <3>. QED
      BY <3>2, <3>3, CallStep
  <2>. QED
    BY <1>4, <2>2, <2>3 DEF TryCommitPasswordChange
<1>5. ASSUME NEW c \in Call, SettlePasswordChange(c) PROVE PasswordInvariant'
  <2>1. /\ call[c].phase = "reject" /\ call[c].phase # "idle"
        /\ call[c].ask.id \in RequestId
    BY <1>0, <1>5, StartedCall DEF SettlePasswordChange
  <2>2. /\ credential' \in Hash /\ Decided
        /\ receipt' \in [RequestId -> {"unknown", "committed", "not_applied"}]
        /\ receipt'[call[c].ask.id] # "unknown"
    BY <1>0, <1>5, <2>1 DEF SettlePasswordChange, PasswordTypeOK, Decided
  <2>3. /\ call' \in [Call -> CallState]
        /\ call'[c].phase = "resolve" /\ call'[c].answer = call[c].answer
        /\ call'[c].ask = call[c].ask
        /\ \A d \in Call : d # c => call'[d] = call[d]
    BY <1>0, <1>5, <2>1, PhaseChange, StartedCall DEF SettlePasswordChange, Phases
  <2>. QED
    BY <2>1, <2>2, <2>3, CallStep DEF PasswordInvariant, AnswersComeLast, Decided
<1>6. ASSUME NEW c \in Call, resolvePasswordChange(c) PROVE PasswordInvariant'
  <2>. DEFINE ans == Resolved(receipt[call[c].ask.id])
  <2>1. /\ call[c].phase # "idle" /\ call[c].ask.id \in RequestId
        /\ receipt[call[c].ask.id] # "unknown"
    BY <1>0, <1>6, StartedCall DEF resolvePasswordChange, PasswordInvariant, ReceiptNeverMissing
  <2>2. /\ ans \in Answers /\ ans # "no_receipt"
        /\ ans = "applied" => receipt[call[c].ask.id] = "committed"
        /\ ans = "not_applied" => receipt[call[c].ask.id] = "not_applied"
    BY <1>0, <2>1 DEF Resolved, PasswordTypeOK, Answers
  <2>3. /\ credential' \in Hash /\ Decided /\ receipt' = receipt
        /\ receipt' \in [RequestId -> {"unknown", "committed", "not_applied"}]
        /\ Finish(c, ans)
    BY <1>0, <1>6 DEF resolvePasswordChange, PasswordTypeOK, Decided
  <2>. HIDE DEF ans
  <2>4. /\ call' \in [Call -> CallState]
        /\ call'[c].phase = "done" /\ call'[c].answer = ans
        /\ call'[c].ask = call[c].ask
        /\ \A d \in Call : d # c => call'[d] = call[d]
    BY <1>0, <2>1, <2>2, <2>3, PhaseChange DEF Phases
  <2>. QED
    BY <2>2, <2>3, <2>4, CallStep
<1>7. ASSUME NEW c \in Call, Fail(c) PROVE PasswordInvariant'
  <2>1. call[c].phase # "idle"
    BY <1>7 DEF Fail
  <2>2. /\ call' \in [Call -> CallState]
        /\ call'[c].phase = "done" /\ call'[c].answer = "error"
        /\ \A d \in Call : d # c => call'[d] = call[d]
    BY <1>0, <1>7, <2>1, PhaseChange DEF Fail, Phases, Answers
  <2>3. /\ credential' \in Hash /\ Decided
        /\ receipt' \in [RequestId -> {"unknown", "committed", "not_applied"}]
    BY <1>0, <1>7 DEF Fail, PasswordTypeOK, Decided
  <2>. QED
    BY <2>2, <2>3, CallStep
<1>8. CASE UNCHANGED passwordVars
  BY <1>8 DEF passwordVars, PasswordInvariant, PasswordTypeOK, ReceiptNeverMissing, AnswersAgree,
              VerifiedKnowsPassword, AnswersComeLast
<1>. QED
  BY <1>1, <1>2, <1>3, <1>4, <1>5, <1>6, <1>7, <1>8 DEF PasswordNext, Step

\* No call ever misses its receipt, no two answers about a request id differ,
\* and only who knew the password swaps it, however the calls interleave.
THEOREM PasswordHolds == PasswordSpec => []PasswordInvariant
<1>1. PasswordInit => PasswordInvariant
  BY PasswordAssumption
     DEF PasswordInit, PasswordInvariant, PasswordTypeOK, ReceiptNeverMissing, AnswersAgree,
         VerifiedKnowsPassword, AnswersComeLast, Hash, CallState, NotStarted
<1>. QED
  BY <1>1, PasswordStep, PTL DEF PasswordSpec

\* The unknown-outcome branch of resolvePasswordChange is unreachable.
THEOREM ReceiptAlwaysThere == PasswordSpec => []ReceiptNeverMissing
<1>1. PasswordInvariant => ReceiptNeverMissing
  BY DEF PasswordInvariant
<1>. QED
  BY <1>1, PasswordHolds, PTL

\* Whoever asks about a request id is told the one decision taken for it.
THEOREM AnswersAlwaysAgree == PasswordSpec => []AnswersAgree
<1>1. PasswordInvariant => AnswersAgree
  BY DEF PasswordInvariant
<1>. QED
  BY <1>1, PasswordHolds, PTL

-----------------------------------------------------------------------------
(* The refinement. *)

\* What PasswordOutcome sees of a call.
LEMMA AskedOf ==
  ASSUME PasswordTypeOK, NEW c \in Call
  PROVE  /\ call[c].phase = "idle" => call[c].ask = NotAsked
         /\ call[c].phase # "idle" => call[c].ask # NotAsked /\ call[c].ask \in Ask
<1>1. \A a \in Ask : a # NotAsked
  BY DEF Ask, NotAsked
<1>2. call[c] \in CallState
  BY DEF PasswordTypeOK
<1>. QED
  BY <1>1, <1>2, StartedCall DEF CallState, NotStarted

\* Phases are invisible: a step that keeps every ask and answer, the password
\* and the receipts is a stutter.
LEMMA InvisibleStep ==
  ASSUME PasswordTypeOK, NEW c \in Call,
         \A d \in Call : call'[d].ask = call[d].ask /\ call'[d].answer = call[d].answer,
         UNCHANGED <<credential, receipt>>
  PROVE  UNCHANGED O!outcomeVars
BY DEF O!outcomeVars

\* Moving a call to another phase keeps what it asked and answered.
LEMMA GotoKeeps ==
  ASSUME PasswordTypeOK, NEW c \in Call, call[c].phase # "idle",
         NEW ph \in Phases, Goto(c, ph)
  PROVE  \A d \in Call : call'[d].ask = call[d].ask /\ call'[d].answer = call[d].answer
<1>1. call[c].answer \in Answers
  BY StartedCall
<1>2. /\ call'[c].answer = call[c].answer /\ call'[c].ask = call[c].ask
      /\ \A d \in Call : d # c => call'[d] = call[d]
  BY <1>1, PhaseChange
<1>. QED
  BY <1>2

\* A step that only answers is Answer if what it says is the receipt, or an
\* error.
LEMMA AnswerStep ==
  ASSUME PasswordInvariant, NEW c \in Call, NEW ans \in {"applied", "not_applied", "error"},
         call[c].phase \notin {"idle", "done"}, Finish(c, ans),
         ans = "applied" => receipt[call[c].ask.id] = "committed",
         ans = "not_applied" => receipt[call[c].ask.id] = "not_applied",
         UNCHANGED <<credential, receipt>>
  PROVE  O!Answer(c)
<1>1. /\ call[c].answer = "none"
      /\ call[c].ask # NotAsked
  BY AskedOf DEF PasswordInvariant, AnswersComeLast
<1>2. /\ call'[c].answer = ans /\ call'[c].ask = call[c].ask
      /\ \A d \in Call : d # c => call'[d] = call[d]
  BY PhaseChange DEF PasswordInvariant, Phases, Answers
<1>3. [d \in Call |-> call'[d].ask] = [d \in Call |-> call[d].ask]
  BY <1>2
<1>4. [d \in Call |-> call'[d].answer] = [[d \in Call |-> call[d].answer] EXCEPT ![c] = ans]
  BY <1>2
<1>. QED
  BY <1>1, <1>3, <1>4 DEF O!Answer, O!NotAsked, NotAsked

\* Every step of a call is a step of PasswordOutcome or invisible.
LEMMA OutcomeStep ==
  PasswordInvariant /\ [PasswordNext]_passwordVars => [O!OutcomeNext]_(O!outcomeVars)
<1>. SUFFICES ASSUME PasswordInvariant, [PasswordNext]_passwordVars
     PROVE [O!OutcomeNext]_(O!outcomeVars)
  OBVIOUS
<1>0. PasswordTypeOK
  BY DEF PasswordInvariant
<1>1. ASSUME NEW c \in Call, NEW a \in Ask, NEW settle \in BOOLEAN, Begin(c, a, settle)
      PROVE O!Submit(c)
  <2>1. call[c].ask = NotAsked /\ call[c].answer = "none"
    BY <1>1 DEF Begin, NotStarted
  <2>2. /\ call'[c].ask = a /\ call'[c].answer = "none"
        /\ \A d \in Call : d # c => call'[d] = call[d]
    BY <1>0, <1>1 DEF Begin, PasswordTypeOK
  <2>3. [d \in Call |-> call'[d].ask] = [[d \in Call |-> call[d].ask] EXCEPT ![c] = a]
    BY <2>2
  <2>4. [d \in Call |-> call'[d].answer] = [d \in Call |-> call[d].answer]
    BY <2>1, <2>2
  <2>5. a \in O!Ask
    BY DEF Ask, O!Ask
  <2>. QED
    BY <1>1, <2>1, <2>3, <2>4, <2>5 DEF Begin, O!Submit, O!NotAsked, NotAsked
<1>2. ASSUME NEW c \in Call, call[c].phase \notin {"idle", "done"},
             NEW ph \in Phases, Goto(c, ph), UNCHANGED <<credential, receipt>>
      PROVE UNCHANGED O!outcomeVars
  <2>1. \A d \in Call : call'[d].ask = call[d].ask /\ call'[d].answer = call[d].answer
    BY <1>0, <1>2, GotoKeeps
  <2>. QED
    BY <1>0, <1>2, <2>1, InvisibleStep
<1>3. ASSUME NEW c \in Call, NEW valid \in BOOLEAN, CheckReceipt(c, valid)
      PROVE [O!OutcomeNext]_(O!outcomeVars)
  <2>1. call[c].phase \notin {"idle", "done"} /\ UNCHANGED <<credential, receipt>>
    BY <1>3 DEF CheckReceipt
  <2>2. CASE receipt[call[c].ask.id] = "unknown"
    <3>1. PICK ph \in {"valid", "reject"} : Goto(c, ph)
      BY <1>3, <2>2 DEF CheckReceipt
    <3>2. ph \in Phases
      BY DEF Phases
    <3>. QED
      BY <1>2, <2>1, <3>1, <3>2
  <2>3. CASE receipt[call[c].ask.id] # "unknown"
    <3>1. PICK ans \in {"applied", "not_applied"} :
            /\ Finish(c, ans)
            /\ ans = "applied" => receipt[call[c].ask.id] = "committed"
            /\ ans = "not_applied" => receipt[call[c].ask.id] = "not_applied"
      BY <1>0, <1>3, <2>1, <2>3, StartedCall DEF CheckReceipt, Resolved, PasswordTypeOK
    <3>. QED
      BY <2>1, <3>1, AnswerStep DEF O!OutcomeNext
  <2>. QED
    BY <2>2, <2>3
<1>4. ASSUME NEW c \in Call, VerifyCurrent(c) PROVE UNCHANGED O!outcomeVars
  <2>1. call[c].phase # "idle"
    BY <1>4 DEF VerifyCurrent
  <2>2. \A d \in Call : call'[d].ask = call[d].ask /\ call'[d].answer = call[d].answer
    BY <1>0, <1>4, <2>1, StartedCall DEF VerifyCurrent, PasswordTypeOK
  <2>. QED
    BY <1>0, <1>4, <2>2, InvisibleStep DEF VerifyCurrent
<1>5. ASSUME NEW c \in Call, NEW delivered \in BOOLEAN, TryCommitPasswordChange(c, delivered)
      PROVE [O!OutcomeNext]_(O!outcomeVars)
  <2>1. call[c].phase = "verified" /\ call[c].ask \in Ask /\ call[c].ask.id \in RequestId
    BY <1>0, <1>5, StartedCall DEF TryCommitPasswordChange
  <2>2. CASE \E ph \in {"resolve", "reject"} : Goto(c, ph) /\ UNCHANGED <<credential, receipt>>
    BY <1>2, <2>1, <2>2 DEF Phases
  <2>3. CASE /\ receipt[call[c].ask.id] = "unknown" /\ credential = call[c].read
             /\ credential' = [password |-> call[c].ask.new, by |-> c]
             /\ receipt' = [receipt EXCEPT ![call[c].ask.id] = "committed"]
             /\ Finish(c, IF delivered THEN "applied" ELSE "error")
    <3>1. PICK ans \in {"applied", "error"} : Finish(c, ans)
      BY <2>3
    <3>2. /\ call[c].answer = "none" /\ call[c].ask # NotAsked
          /\ credential.password = call[c].ask.current
      BY <1>0, <2>1, <2>3, AskedOf
         DEF PasswordInvariant, AnswersComeLast, VerifiedKnowsPassword
    <3>3. /\ call'[c].answer = ans /\ call'[c].ask = call[c].ask
          /\ \A d \in Call : d # c => call'[d] = call[d]
      BY <1>0, <2>1, <3>1, PhaseChange DEF Phases, Answers
    <3>4. [d \in Call |-> call'[d].ask] = [d \in Call |-> call[d].ask]
      BY <3>3
    <3>5. [d \in Call |-> call'[d].answer] = [[d \in Call |-> call[d].answer] EXCEPT ![c] = ans]
      BY <3>3
    <3>6. credential'.password = call[c].ask.new
      BY <2>3
    <3>7. O!Apply(c)
      BY <2>1, <2>3, <3>2, <3>4, <3>5, <3>6 DEF O!Apply, O!NotAsked, NotAsked
    <3>. QED
      BY <3>7 DEF O!OutcomeNext
  <2>. QED
    BY <1>5, <2>2, <2>3 DEF TryCommitPasswordChange
<1>6. ASSUME NEW c \in Call, SettlePasswordChange(c)
      PROVE [O!OutcomeNext]_(O!outcomeVars)
  <2>1. call[c].phase = "reject" /\ call[c].ask \in Ask /\ call[c].ask.id \in RequestId
    BY <1>0, <1>6, StartedCall DEF SettlePasswordChange
  <2>2. /\ Goto(c, "resolve") /\ credential' = credential
        /\ receipt' = [receipt EXCEPT ![call[c].ask.id] = IF @ = "unknown" THEN "not_applied" ELSE @]
    BY <1>6 DEF SettlePasswordChange
  <2>3. CASE receipt[call[c].ask.id] # "unknown"
    <3>1. receipt' = receipt
      BY <1>0, <2>1, <2>2, <2>3 DEF PasswordTypeOK
    <3>. QED
      BY <1>2, <2>1, <2>2, <3>1 DEF Phases
  <2>4. CASE receipt[call[c].ask.id] = "unknown"
    <3>1. receipt' = [receipt EXCEPT ![call[c].ask.id] = "not_applied"]
      BY <2>2, <2>4
    <3>2. \A d \in Call : call'[d].ask = call[d].ask /\ call'[d].answer = call[d].answer
      BY <1>0, <2>1, <2>2, GotoKeeps DEF Phases
    <3>3. /\ [d \in Call |-> call'[d].ask] = [d \in Call |-> call[d].ask]
          /\ [d \in Call |-> call'[d].answer] = [d \in Call |-> call[d].answer]
      BY <3>2
    <3>4. call[c].ask # NotAsked
      BY <1>0, <2>1, AskedOf
    <3>5. O!GiveUp(c)
      BY <2>2, <2>4, <3>1, <3>3, <3>4 DEF O!GiveUp, O!NotAsked, NotAsked
    <3>. QED
      BY <3>5 DEF O!OutcomeNext
  <2>. QED
    BY <2>3, <2>4
<1>7. ASSUME NEW c \in Call, resolvePasswordChange(c) PROVE O!Answer(c)
  <2>1. call[c].phase \notin {"idle", "done"} /\ receipt[call[c].ask.id] # "unknown"
    BY <1>7 DEF resolvePasswordChange, PasswordInvariant, ReceiptNeverMissing
  <2>2. PICK ans \in {"applied", "not_applied"} :
          /\ Finish(c, ans)
          /\ ans = "applied" => receipt[call[c].ask.id] = "committed"
          /\ ans = "not_applied" => receipt[call[c].ask.id] = "not_applied"
    BY <1>0, <1>7, <2>1, StartedCall DEF resolvePasswordChange, Resolved, PasswordTypeOK
  <2>. QED
    BY <1>7, <2>1, <2>2, AnswerStep DEF resolvePasswordChange
<1>8. ASSUME NEW c \in Call, Fail(c) PROVE O!Answer(c)
  BY <1>8, AnswerStep DEF Fail
<1>9. CASE UNCHANGED passwordVars
  BY <1>9 DEF passwordVars, O!outcomeVars
<1>. QED
  BY <1>1, <1>3, <1>4, <1>5, <1>6, <1>7, <1>8, <1>9 DEF PasswordNext, Step, O!OutcomeNext

\* Retries, settlements, lost responses and concurrent changes included, a
\* password change is one decision per request id, applied at most once and
\* only over the password its caller knew.
THEOREM PasswordRefinement == PasswordSpec => ImplementsOutcome
<1>1. PasswordInit => O!OutcomeInit
  BY DEF PasswordInit, O!OutcomeInit, NotStarted, O!NotAsked, NotAsked
<1>. QED
  BY <1>1, OutcomeStep, PasswordHolds, PTL DEF PasswordSpec, ImplementsOutcome, O!OutcomeSpec
=============================================================================
