------------------------------ MODULE IdentityLog ------------------------------
(****************************************************************************)
(* The identity_invalidations table: transactions append events, consumers  *)
(* poll them by cursor.  An id is drawn when the row is inserted, but the   *)
(* row becomes visible only when its transaction commits; a consumer that   *)
(* moved its cursor past an id not yet visible would never see that event.  *)
(* beginIdentityWrite therefore takes the control_state lock before any id  *)
(* is drawn.  Rolled back ids leave gaps on PostgreSQL and are drawn again  *)
(* on SQLite.                                                               *)
(*                                                                          *)
(* The consumers live in other repositories; they are modelled by the way   *)
(* the two HTTP endpoints are meant to be used: start from latest, poll     *)
(* with the last cursor, move to next_cursor.                               *)
(****************************************************************************)
EXTENDS Naturals, FiniteSets, FiniteSetsExt

CONSTANTS Writer, Consumer, NotSubscribed,
          Limit,    \* events per response (256)
          Imported, \* ids an import may bring along
          MaxId     \* bound: no id beyond it is drawn

ASSUME LimitAssumption == Limit \in Nat \ {0}
ASSUME BoundAssumption == MaxId \in Nat /\ Imported \in 0..MaxId

VARIABLES nextId,   \* the sequence
          open,     \* transactions in progress: those that hold the lock
          staged,   \* ids each transaction has drawn
          visible,  \* committed events
          cursor,   \* per consumer, what it sends as after
          reply,    \* the response on its way to the consumer, or {}
          seen      \* history: events each consumer has dealt with

logVars == <<nextId, open, staged, visible, cursor, reply, seen>>

Ids == 1..MaxId

LogTypeOK ==
  /\ nextId \in Nat \ {0}
  /\ open \subseteq Writer
  /\ staged \in [Writer -> SUBSET (Nat \ {0})]
  /\ visible \in SUBSET Nat
  /\ cursor \in [Consumer -> Nat]
  /\ reply \in [Consumer -> SUBSET Nat]
  /\ seen \in [Consumer -> (SUBSET Nat) \union {NotSubscribed}]

\* MAX(event_id), or 0.
Latest == IF visible = {} THEN 0 ELSE Max(visible)

\* A new deployment, or one imported with its events (ids kept, the sequence
\* moved behind them) whose consumers still hold cursors from before.
LogInit ==
  /\ visible \in SUBSET (1..Imported)
  /\ nextId = Latest + 1
  /\ open = {} /\ staged = [w \in Writer |-> {}]
  /\ cursor \in [Consumer -> 0..Latest]
  /\ reply = [c \in Consumer |-> {}]
  /\ seen \in [Consumer -> {NotSubscribed} \union {{e \in visible : e <= k} : k \in 0..Latest}]
  /\ \A c \in Consumer : IF seen[c] = NotSubscribed THEN cursor[c] = 0
                          ELSE seen[c] = {e \in visible : e <= cursor[c]}

-----------------------------------------------------------------------------
(* Writers. *)

\* Seeded fault: the transaction starts without the control_state lock.
beginIdentityWrite_unlocked(w) ==
  /\ w \notin open
  /\ open' = open \union {w}
  /\ UNCHANGED <<nextId, staged, visible, cursor, reply, seen>>

beginIdentityWrite(w) ==
  /\ open = {}
  /\ open' = {w}
  /\ UNCHANGED <<nextId, staged, visible, cursor, reply, seen>>

appendIdentityInvalidation(w) ==
  /\ w \in open /\ nextId <= MaxId
  /\ staged' = [staged EXCEPT ![w] = @ \union {nextId}]
  /\ nextId' = nextId + 1
  /\ UNCHANGED <<open, visible, cursor, reply, seen>>

Commit(w) ==
  /\ w \in open
  /\ visible' = visible \union staged[w]
  /\ staged' = [staged EXCEPT ![w] = {}]
  /\ open' = open \ {w}
  /\ UNCHANGED <<nextId, cursor, reply, seen>>

\* An error, or the server crashed.
Rollback(w) ==
  /\ w \in open
  /\ nextId' \in {nextId} \union staged[w]
  /\ nextId' \in staged[w] => \A e \in staged[w] : nextId' <= e
  /\ staged' = [staged EXCEPT ![w] = {}]
  /\ open' = open \ {w}
  /\ UNCHANGED <<visible, cursor, reply, seen>>

-----------------------------------------------------------------------------
(* Consumers. *)

\* The response: the first Limit visible events after the cursor.
ListIdentityInvalidations(after) ==
  {e \in visible : /\ e > after
                   /\ Cardinality({d \in visible : after < d /\ d <= e}) <= Limit}

LatestIdentityInvalidationID(c) ==
  /\ seen[c] = NotSubscribed
  /\ cursor' = [cursor EXCEPT ![c] = Latest]
  /\ seen' = [seen EXCEPT ![c] = visible]
  /\ UNCHANGED <<nextId, open, staged, visible, reply>>

\* An empty response leaves everything as it is.
Poll(c) ==
  /\ seen[c] # NotSubscribed /\ reply[c] = {}
  /\ ListIdentityInvalidations(cursor[c]) # {}
  /\ reply' = [reply EXCEPT ![c] = ListIdentityInvalidations(cursor[c])]
  /\ UNCHANGED <<nextId, open, staged, visible, cursor, seen>>

\* Seeded fault: next_cursor is the latest id instead of the last one listed.
NextCursor_latest(batch) == Latest

\* next_cursor: the id of the last event of the response.
NextCursor(batch) == Max(batch)

\* The consumer deals with the response; if it crashes before it has stored
\* the new cursor, it will get the same events again.
Receive(c, stored) ==
  /\ reply[c] # {}
  /\ seen' = [seen EXCEPT ![c] = @ \union reply[c]]
  /\ cursor' = [cursor EXCEPT ![c] = IF stored THEN NextCursor(reply[c]) ELSE @]
  /\ reply' = [reply EXCEPT ![c] = {}]
  /\ UNCHANGED <<nextId, open, staged, visible>>

\* The response is lost.
Lose(c) ==
  /\ reply[c] # {}
  /\ reply' = [reply EXCEPT ![c] = {}]
  /\ UNCHANGED <<nextId, open, staged, visible, cursor, seen>>

-----------------------------------------------------------------------------
LogNext ==
  \/ \E w \in Writer : \/ beginIdentityWrite(w) \/ appendIdentityInvalidation(w)
                       \/ Commit(w) \/ Rollback(w)
  \/ \E c \in Consumer : \/ LatestIdentityInvalidationID(c) \/ Poll(c) \/ Lose(c)
                         \/ \E stored \in BOOLEAN : Receive(c, stored)

\* Consumers keep polling, and not every response is lost or forgotten.
LogFairness ==
  \A c \in Consumer : WF_logVars(Poll(c)) /\ SF_logVars(Receive(c, TRUE))

LogSpec == LogInit /\ [][LogNext]_logVars /\ LogFairness

-----------------------------------------------------------------------------
(* Properties. *)

\* No event hides below a cursor: whatever is visible at or before a
\* consumer's cursor has been dealt with, although events become visible
\* later than their ids are drawn.
NothingSkipped ==
  \A c \in Consumer : seen[c] # NotSubscribed =>
    \A e \in visible : e <= cursor[c] => e \in seen[c]

\* Ids drawn but not visible yet are beyond every visible event, and beyond
\* everything a consumer may have been handed.
DrawnIdsAreNew ==
  /\ \A w \in Writer : \A e \in staged[w] : e < nextId /\ \A d \in visible : d < e
  /\ \A e \in visible : e < nextId
  /\ \A c \in Consumer : cursor[c] < nextId /\ reply[c] \subseteq visible

\* Only the transaction that holds the lock has drawn ids.
OneWriter ==
  /\ \A w \in Writer : staged[w] # {} => w \in open
  /\ \A v, w \in open : v = w

\* A response leaves out nothing between the cursor it answers and its end,
\* not even what has become visible since.
RepliesAreGapless ==
  \A c \in Consumer : \A e \in visible, d \in reply[c] :
    cursor[c] < e /\ e <= d => e \in reply[c]

\* The inductive invariant.  A consumer that has not subscribed has asked for
\* nothing, and no cursor has reached an id that may still be drawn again.
LogInvariant ==
  /\ LogTypeOK /\ NothingSkipped /\ DrawnIdsAreNew /\ OneWriter /\ RepliesAreGapless
  /\ \A c \in Consumer : \A w \in Writer : \A e \in staged[w] : cursor[c] < e
  /\ \A c \in Consumer : seen[c] = NotSubscribed => reply[c] = {}

\* The table and its consumers implement EventFeed.
F == INSTANCE EventFeed WITH published <- visible

ImplementsFeed == F!FeedSpec

\* Every committed event reaches every consumer that has subscribed.
EventuallySeen ==
  \A c \in Consumer, e \in Ids :
    (e \in visible /\ seen[c] # NotSubscribed) ~> (seen[c] # NotSubscribed /\ e \in seen[c])
================================================================================
