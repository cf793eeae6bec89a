---------------------------- MODULE PasswordOutcome ----------------------------
(****************************************************************************)
(* What a password change with a request_id promises: the id is decided     *)
(* once, for all calls that carry it; the password changes exactly when the *)
(* decision is "committed", from the password the deciding call knew to the *)
(* one it asked for; and every answer but an error reports the decision.    *)
(****************************************************************************)
CONSTANTS Call, RequestId, Password, InitialPassword

VARIABLES password,  \* the password in force
          outcome,   \* the decision per request id
          asked,     \* what a call wants: request id, current and new password
          answer     \* what its caller was told

outcomeVars == <<password, outcome, asked, answer>>

NotAsked == [id |-> "none"]
Ask == [id : RequestId, current : Password, new : Password]

OutcomeInit ==
  /\ password = InitialPassword
  /\ outcome = [r \in RequestId |-> "unknown"]
  /\ asked = [c \in Call |-> NotAsked]
  /\ answer = [c \in Call |-> "none"]

Submit(c) ==
  /\ asked[c] = NotAsked
  /\ \E a \in Ask : asked' = [asked EXCEPT ![c] = a]
  /\ UNCHANGED <<password, outcome, answer>>

\* The call's change is applied; whether its caller also hears of it in the
\* same step is left open, the connection may break.
Apply(c) ==
  /\ asked[c] # NotAsked /\ answer[c] = "none"
  /\ outcome[asked[c].id] = "unknown" /\ password = asked[c].current
  /\ password' = asked[c].new
  /\ outcome' = [outcome EXCEPT ![asked[c].id] = "committed"]
  /\ answer' \in {answer, [answer EXCEPT ![c] = "applied"], [answer EXCEPT ![c] = "error"]}
  /\ UNCHANGED asked

\* Somebody gives the request id up.
GiveUp(c) ==
  /\ asked[c] # NotAsked /\ outcome[asked[c].id] = "unknown"
  /\ outcome' = [outcome EXCEPT ![asked[c].id] = "not_applied"]
  /\ UNCHANGED <<password, asked, answer>>

Answer(c) ==
  /\ asked[c] # NotAsked /\ answer[c] = "none"
  /\ \/ outcome[asked[c].id] = "committed" /\ answer' = [answer EXCEPT ![c] = "applied"]
     \/ outcome[asked[c].id] = "not_applied" /\ answer' = [answer EXCEPT ![c] = "not_applied"]
     \/ answer' = [answer EXCEPT ![c] = "error"]
  /\ UNCHANGED <<password, outcome, asked>>

OutcomeNext == \E c \in Call : Submit(c) \/ Apply(c) \/ GiveUp(c) \/ Answer(c)

OutcomeSpec == OutcomeInit /\ [][OutcomeNext]_outcomeVars
================================================================================
