------------------------------- MODULE EventFeed -------------------------------
(****************************************************************************)
(* What the identity invalidation feed promises its consumers (the Nexus    *)
(* replicas and the Relay): events are published in id order, and each      *)
(* consumer gets every event published after it subscribed, in id order,    *)
(* none skipped.                                                            *)
(****************************************************************************)
EXTENDS Naturals

CONSTANTS Consumer, NotSubscribed

VARIABLES published,  \* ids of the events everybody may see
          seen        \* per consumer, the events it has dealt with

feedVars == <<published, seen>>

\* A set of events has no gap below it: whoever has it has all earlier ones.
Prefix(S, all) == \A e \in S, d \in all : d < e => d \in S

FeedInit ==
  /\ published \subseteq Nat
  /\ \A c \in Consumer :
       \/ seen[c] = NotSubscribed
       \/ seen[c] \subseteq published /\ Prefix(seen[c], published)

Publish ==
  /\ published \subseteq published'
  /\ \A b \in published' \ published, e \in published : e < b
  /\ UNCHANGED seen

\* A new consumer starts behind everything published so far.
Subscribe(c) ==
  /\ seen[c] = NotSubscribed
  /\ seen' = [seen EXCEPT ![c] = published]
  /\ UNCHANGED published

\* A batch is never older than what the consumer has and leaves no gap.
Deliver(c, more) ==
  /\ seen[c] # NotSubscribed
  /\ more \subseteq published /\ Prefix(seen[c] \union more, published)
  /\ seen' = [seen EXCEPT ![c] = @ \union more]
  /\ UNCHANGED published

FeedNext ==
  \/ Publish
  \/ \E c \in Consumer : Subscribe(c) \/ \E more \in SUBSET published : Deliver(c, more)

FeedSpec == FeedInit /\ [][FeedNext]_feedVars
================================================================================
