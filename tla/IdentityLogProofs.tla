-------------------------- MODULE IdentityLogProofs --------------------------
(* LogInvariant is inductive, for any writers, consumers, page size and     *)
(* number of events.                                                        *)
EXTENDS IdentityLog, TLAPS, FiniteSetTheorems, WellFoundedInduction

\* A non-empty set of ids below a bound has a maximum (the least of its upper
\* bounds).
LEMMA MaxExists ==
  ASSUME NEW S \in SUBSET Nat, S # {}, NEW n \in Nat, \A s \in S : s < n
  PROVE  Max(S) \in S /\ \A s \in S : s <= Max(S)
<1>. DEFINE U == {k \in Nat : \A s \in S : s <= k}
            R == {p \in Nat \X Nat : p[1] < p[2]}
<1>1. n \in U
  OBVIOUS
<1>2. PICK m \in U : \A y \in U : ~(<<y, m>> \in R)
  <2>1. IsWellFoundedOn(R, Nat)
    BY NatLessThanWellFounded DEF OpToRel
  <2>2. U \subseteq Nat /\ U # {}
    BY <1>1
  <2>. HIDE DEF U, R
  <2>. QED
    BY <2>1, <2>2, WFMin
<1>3. \A y \in U : m <= y
  <2>. SUFFICES ASSUME NEW y \in U, y < m PROVE FALSE
    BY <1>2
  <2>1. <<y, m>> \in Nat \X Nat /\ <<y, m>>[1] = y /\ <<y, m>>[2] = m
    BY <1>2
  <2>2. <<y, m>> \in R
    BY <2>1
  <2>. QED
    BY <1>2, <2>2
<1>4. m \in S
  <2>. SUFFICES ASSUME m \notin S PROVE FALSE
    OBVIOUS
  <2>1. \A s \in S : s < m
    BY <1>2
  <2>2. m \in Nat /\ m > 0
    <3>1. PICK s \in S : TRUE
      OBVIOUS
    <3>2. s \in Nat /\ m \in Nat /\ s < m
      BY <2>1, <3>1
    <3>. QED
      BY <3>2
  <2>3. m - 1 \in U
    BY <2>1, <2>2
  <2>. QED
    BY <1>3, <2>2, <2>3
<1>5. \E x \in S : \A y \in S : x >= y
  BY <1>2, <1>4
<1>. QED
  BY <1>5 DEF Max

\* The visible events are finitely many, and Latest is the last of them.
LEMMA VisibleEvents ==
  ASSUME LogTypeOK, \A e \in visible : e < nextId
  PROVE  /\ IsFiniteSet(visible)
         /\ Latest \in Nat /\ Latest < nextId
         /\ \A e \in visible : e <= Latest
<1>1. nextId \in Nat /\ nextId > 0 /\ visible \in SUBSET Nat
  BY DEF LogTypeOK
<1>2. IsFiniteSet(visible)
  BY <1>1, FS_BoundedSetOfNaturals
<1>3. CASE visible = {}
  BY <1>1, <1>2, <1>3 DEF Latest
<1>4. CASE visible # {}
  <2>1. Max(visible) \in visible /\ \A e \in visible : e <= Max(visible)
    BY <1>1, <1>4, MaxExists
  <2>. QED
    BY <1>1, <1>2, <1>4, <2>1 DEF Latest
<1>. QED
  BY <1>3, <1>4

\* A response is a gapless piece of the visible events.
LEMMA ListIsGapless ==
  ASSUME LogTypeOK, IsFiniteSet(visible), NEW after \in Nat
  PROVE  /\ ListIdentityInvalidations(after) \subseteq visible
         /\ \A e \in visible, d \in ListIdentityInvalidations(after) :
              after < e /\ e <= d => e \in ListIdentityInvalidations(after)
<1>. SUFFICES ASSUME NEW e \in visible, NEW d \in ListIdentityInvalidations(after),
                     after < e, e <= d
     PROVE e \in ListIdentityInvalidations(after)
  BY DEF ListIdentityInvalidations
<1>. DEFINE Upto(x) == {y \in visible : after < y /\ y <= x}
<1>1. visible \in SUBSET Nat /\ d \in visible /\ Cardinality(Upto(d)) <= Limit
  BY DEF ListIdentityInvalidations, LogTypeOK
<1>2. Upto(e) \subseteq Upto(d)
  <2>. SUFFICES ASSUME NEW y \in visible, y <= e PROVE y <= d
    OBVIOUS
  <2>1. y \in Nat /\ e \in Nat /\ d \in Nat
    BY <1>1
  <2>. QED
    BY <2>1
<1>3. Upto(d) \in SUBSET visible
  OBVIOUS
<1>4. IsFiniteSet(Upto(d))
  BY <1>3, FS_Subset
<1>5. Cardinality(Upto(e)) <= Cardinality(Upto(d)) /\ IsFiniteSet(Upto(e))
  BY <1>2, <1>4, FS_Subset
<1>6. Cardinality(Upto(e)) \in Nat /\ Cardinality(Upto(d)) \in Nat
  BY <1>4, <1>5, FS_CardinalityType
<1>7. Cardinality(Upto(e)) <= Limit
  BY <1>1, <1>5, <1>6, LimitAssumption
<1>. QED
  BY <1>7 DEF ListIdentityInvalidations

\* The conjuncts of the invariant that have no name of their own.
CursorsBehindDrawn == \A c \in Consumer : \A w \in Writer : \A e \in staged[w] : cursor[c] < e
SilentUntilSubscribed == \A c \in Consumer : seen[c] = NotSubscribed => reply[c] = {}

\* A writer's step keeps the consumers' side as it is.
LEMMA WriterStep ==
  ASSUME LogInvariant, NEW w \in Writer,
         \/ beginIdentityWrite(w) \/ appendIdentityInvalidation(w) \/ Commit(w) \/ Rollback(w)
  PROVE  LogInvariant'
<1>0. LogTypeOK /\ DrawnIdsAreNew /\ OneWriter /\ CursorsBehindDrawn
  BY DEF LogInvariant, CursorsBehindDrawn
<1>1. CASE beginIdentityWrite(w)
  <2>1. \A v \in Writer : staged[v] = {}
    BY <1>0, <1>1 DEF beginIdentityWrite, OneWriter
  <2>2. OneWriter' /\ LogTypeOK'
    BY <1>0, <1>1, <2>1 DEF beginIdentityWrite, OneWriter, LogTypeOK
  <2>. QED
    BY <1>1, <2>2 DEF beginIdentityWrite, LogInvariant, NothingSkipped, DrawnIdsAreNew,
                      RepliesAreGapless
<1>2. CASE appendIdentityInvalidation(w)
  <2>1. /\ nextId \in Nat /\ nextId' = nextId + 1
        /\ \A v \in Writer : \A e \in staged'[v] : e \in staged[v] \/ (v = w /\ e = nextId)
        /\ \A v \in Writer : staged[v] \subseteq Nat /\ (v # w => staged'[v] = staged[v])
        /\ w \in open /\ open' = open
        /\ UNCHANGED <<visible, cursor, reply, seen>>
    BY <1>0, <1>2 DEF appendIdentityInvalidation, LogTypeOK
  <2>2. LogTypeOK'
    BY <1>0, <1>2 DEF appendIdentityInvalidation, LogTypeOK
  <2>3. visible \subseteq Nat /\ \A c \in Consumer : cursor[c] \in Nat
    BY <1>0 DEF LogTypeOK
  <2>4. DrawnIdsAreNew'
    <3>1. /\ \A v \in Writer : \A e \in staged[v] : e < nextId /\ \A d \in visible : d < e
          /\ \A d \in visible : d < nextId
          /\ \A c \in Consumer : cursor[c] < nextId /\ reply[c] \subseteq visible
      BY <1>0 DEF DrawnIdsAreNew
    <3>2. ASSUME NEW d \in visible' PROVE d < nextId'
      <4>1. d \in visible /\ d \in Nat /\ d < nextId
        BY <2>1, <2>3, <3>1
      <4>. QED
        BY <2>1, <4>1
    <3>3. ASSUME NEW c \in Consumer PROVE cursor'[c] < nextId' /\ reply'[c] \subseteq visible'
      <4>1. cursor[c] \in Nat /\ cursor[c] < nextId /\ reply[c] \subseteq visible
        BY <2>3, <3>1
      <4>. QED
        BY <2>1, <4>1
    <3>4. ASSUME NEW v \in Writer, NEW e \in staged'[v]
          PROVE  e < nextId' /\ \A d \in visible' : d < e
      <4>1. e \in staged[v] \/ e = nextId
        BY <2>1
      <4>2. CASE e \in staged[v]
        <5>1. e \in Nat /\ e < nextId /\ \A d \in visible : d < e
          BY <2>1, <3>1, <4>2
        <5>. QED
          BY <2>1, <5>1
      <4>3. CASE e = nextId
        BY <2>1, <3>1, <4>3
      <4>. QED
        BY <4>1, <4>2, <4>3
    <3>. QED
      BY <3>2, <3>3, <3>4 DEF DrawnIdsAreNew
  <2>5. OneWriter'
    BY <1>0, <2>1 DEF OneWriter
  <2>6. CursorsBehindDrawn'
    BY <1>0, <2>1 DEF CursorsBehindDrawn, DrawnIdsAreNew
  <2>. QED
    BY <2>1, <2>2, <2>4, <2>5, <2>6 DEF LogInvariant, NothingSkipped, RepliesAreGapless,
                                       CursorsBehindDrawn
<1>3. CASE Commit(w)
  <2>1. /\ visible' = visible \union staged[w] /\ nextId' = nextId
        /\ UNCHANGED <<cursor, reply, seen>>
        /\ staged'[w] = {} /\ \A v \in Writer : v # w => staged[v] = {} /\ staged'[v] = {}
    BY <1>0, <1>3 DEF Commit, OneWriter, LogTypeOK
  <2>2. LogTypeOK' /\ OneWriter'
    BY <1>0, <1>3, <2>1 DEF Commit, LogTypeOK, OneWriter
  <2>3. visible \subseteq Nat /\ staged[w] \subseteq Nat
        /\ \A c \in Consumer : cursor[c] \in Nat /\ reply[c] \subseteq visible
    BY <1>0 DEF LogTypeOK, DrawnIdsAreNew
  <2>4. DrawnIdsAreNew'
    BY <1>0, <2>1, <2>3 DEF DrawnIdsAreNew
  <2>5. NothingSkipped'
    BY <1>0, <2>1, <2>3 DEF LogInvariant, NothingSkipped, CursorsBehindDrawn
  <2>6. RepliesAreGapless'
    <3>. SUFFICES ASSUME NEW c \in Consumer, NEW e \in visible', NEW d \in reply[c],
                         cursor[c] < e, e <= d
         PROVE e \in reply[c]
      BY <2>1 DEF RepliesAreGapless
    <3>1. d \in visible /\ d \in Nat
      BY <2>3
    <3>2. \A x \in staged[w] : x \in Nat /\ d < x
      BY <1>0, <2>3, <3>1 DEF DrawnIdsAreNew
    <3>3. e \in visible
      BY <2>1, <3>1, <3>2
    <3>. QED
      BY <3>3 DEF LogInvariant, RepliesAreGapless
  <2>. QED
    BY <2>1, <2>2, <2>4, <2>5, <2>6 DEF LogInvariant
<1>4. CASE Rollback(w)
  <2>1. /\ nextId' = nextId \/ nextId' \in staged[w]
        /\ UNCHANGED <<visible, cursor, reply, seen>>
        /\ staged'[w] = {} /\ \A v \in Writer : v # w => staged[v] = {} /\ staged'[v] = {}
    BY <1>0, <1>4 DEF Rollback, OneWriter, LogTypeOK
  <2>2. nextId' \in Nat \ {0}
    BY <1>0, <2>1 DEF LogTypeOK
  <2>3. LogTypeOK' /\ OneWriter'
    BY <1>0, <1>4, <2>1, <2>2 DEF Rollback, LogTypeOK, OneWriter
  <2>4. DrawnIdsAreNew'
    BY <1>0, <2>1 DEF DrawnIdsAreNew, CursorsBehindDrawn
  <2>. QED
    BY <2>1, <2>3, <2>4 DEF LogInvariant, NothingSkipped, RepliesAreGapless
<1>. QED
  BY <1>1, <1>2, <1>3, <1>4

\* A consumer's step leaves the table and the transactions alone.
LEMMA ConsumerStep ==
  ASSUME LogInvariant, NEW c \in Consumer,
         \/ LatestIdentityInvalidationID(c) \/ Poll(c) \/ Lose(c)
         \/ \E stored \in BOOLEAN : Receive(c, stored)
  PROVE  LogInvariant'
<1>0. /\ LogTypeOK /\ DrawnIdsAreNew /\ OneWriter /\ CursorsBehindDrawn
      /\ NothingSkipped /\ RepliesAreGapless /\ SilentUntilSubscribed
  BY DEF LogInvariant, CursorsBehindDrawn, SilentUntilSubscribed
<1>1. /\ UNCHANGED <<nextId, open, staged, visible>>
      /\ visible \subseteq Nat /\ cursor[c] \in Nat /\ reply[c] \subseteq visible
      /\ \A w \in Writer : staged[w] \subseteq Nat
  BY <1>0 DEF LatestIdentityInvalidationID, Poll, Lose, Receive, LogTypeOK, DrawnIdsAreNew
<1>2. OneWriter'
  BY <1>0, <1>1 DEF OneWriter
<1>3. CASE LatestIdentityInvalidationID(c)
  <2>1. Latest \in Nat /\ Latest < nextId /\ \A e \in visible : e <= Latest
    BY <1>0, VisibleEvents DEF DrawnIdsAreNew
  <2>2. \A w \in Writer : \A e \in staged[w] : Latest < e
    <3>1. Latest = 0 \/ Latest \in visible
      <4>1. CASE visible = {}
        BY <4>1 DEF Latest
      <4>2. CASE visible # {}
        BY <1>0, <1>1, <4>2, MaxExists DEF Latest, DrawnIdsAreNew, LogTypeOK
      <4>. QED
        BY <4>1, <4>2
    <3>2. \A w \in Writer : \A e \in staged[w] : e \in Nat /\ 0 < e
      BY <1>0 DEF LogTypeOK
    <3>3. \A w \in Writer : \A e \in staged[w] : \A d \in visible : d < e
      BY <1>0 DEF DrawnIdsAreNew
    <3>. QED
      BY <3>1, <3>2, <3>3
  <2>3. /\ cursor' = [cursor EXCEPT ![c] = Latest] /\ seen' = [seen EXCEPT ![c] = visible]
        /\ reply' = reply /\ reply[c] = {}
    BY <1>0, <1>3 DEF LatestIdentityInvalidationID, SilentUntilSubscribed
  <2>4. LogTypeOK'
    BY <1>0, <1>1, <2>1, <2>3 DEF LogTypeOK
  <2>5. /\ cursor'[c] = Latest /\ seen'[c] = visible
        /\ \A d \in Consumer : d # c => cursor'[d] = cursor[d] /\ seen'[d] = seen[d]
    BY <1>0, <2>3 DEF LogTypeOK
  <2>6. DrawnIdsAreNew' /\ CursorsBehindDrawn'
    BY <1>0, <1>1, <2>1, <2>2, <2>3, <2>5 DEF DrawnIdsAreNew, CursorsBehindDrawn
  <2>7. NothingSkipped' /\ RepliesAreGapless' /\ SilentUntilSubscribed'
    BY <1>0, <1>1, <2>3, <2>5 DEF NothingSkipped, RepliesAreGapless, SilentUntilSubscribed
  <2>. QED
    BY <1>2, <2>4, <2>6, <2>7 DEF LogInvariant, CursorsBehindDrawn, SilentUntilSubscribed
<1>4. CASE Poll(c)
  <2>. DEFINE page == ListIdentityInvalidations(cursor[c])
  <2>1. /\ page \subseteq visible
        /\ \A e \in visible, d \in page : cursor[c] < e /\ e <= d => e \in page
    BY <1>0, <1>1, VisibleEvents, ListIsGapless DEF DrawnIdsAreNew
  <2>2. /\ reply' = [reply EXCEPT ![c] = page] /\ cursor' = cursor /\ seen' = seen
        /\ seen[c] # NotSubscribed
    BY <1>4 DEF Poll
  <2>. HIDE DEF page
  <2>3. LogTypeOK' /\ reply'[c] = page /\ \A d \in Consumer : d # c => reply'[d] = reply[d]
    BY <1>0, <1>1, <2>1, <2>2 DEF LogTypeOK
  <2>4. DrawnIdsAreNew' /\ CursorsBehindDrawn'
    BY <1>0, <1>1, <2>1, <2>2, <2>3 DEF DrawnIdsAreNew, CursorsBehindDrawn
  <2>5. NothingSkipped' /\ SilentUntilSubscribed'
    BY <1>0, <1>1, <2>2, <2>3 DEF NothingSkipped, SilentUntilSubscribed
  <2>6. RepliesAreGapless'
    BY <1>0, <1>1, <2>1, <2>2, <2>3 DEF RepliesAreGapless
  <2>. QED
    BY <1>2, <2>3, <2>4, <2>5, <2>6 DEF LogInvariant, CursorsBehindDrawn, SilentUntilSubscribed
<1>5. CASE Lose(c)
  <2>1. /\ reply' = [reply EXCEPT ![c] = {}] /\ cursor' = cursor /\ seen' = seen
    BY <1>5 DEF Lose
  <2>2. LogTypeOK' /\ reply'[c] = {} /\ \A d \in Consumer : d # c => reply'[d] = reply[d]
    BY <1>0, <1>1, <2>1 DEF LogTypeOK
  <2>3. DrawnIdsAreNew' /\ CursorsBehindDrawn'
    BY <1>0, <1>1, <2>1, <2>2 DEF DrawnIdsAreNew, CursorsBehindDrawn
  <2>4. NothingSkipped' /\ SilentUntilSubscribed' /\ RepliesAreGapless'
    BY <1>0, <1>1, <2>1, <2>2 DEF NothingSkipped, SilentUntilSubscribed, RepliesAreGapless
  <2>. QED
    BY <1>2, <2>2, <2>3, <2>4 DEF LogInvariant, CursorsBehindDrawn, SilentUntilSubscribed
<1>6. ASSUME NEW stored \in BOOLEAN, Receive(c, stored) PROVE LogInvariant'
  <2>. DEFINE top == IF stored THEN NextCursor(reply[c]) ELSE cursor[c]
  <2>1. Max(reply[c]) \in reply[c] /\ \A e \in reply[c] : e <= Max(reply[c])
    <3>1. reply[c] # {} /\ reply[c] \in SUBSET Nat
      BY <1>1, <1>6 DEF Receive
    <3>2. nextId \in Nat /\ \A e \in reply[c] : e < nextId
      BY <1>0, <1>1 DEF DrawnIdsAreNew, LogTypeOK
    <3>. QED
      BY <3>1, <3>2, MaxExists
  <2>2. seen[c] # NotSubscribed /\ seen[c] \subseteq Nat
    <3>1. seen[c] # NotSubscribed
      BY <1>0, <1>6 DEF Receive, SilentUntilSubscribed
    <3>2. seen[c] \in (SUBSET Nat) \union {NotSubscribed}
      BY <1>0 DEF LogTypeOK
    <3>. QED
      BY <3>1, <3>2
  <2>3. /\ top = cursor[c] \/ (top \in reply[c] /\ \A e \in reply[c] : e <= top)
        /\ top \in Nat
    BY <1>1, <2>1 DEF NextCursor
  <2>4. /\ cursor' = [cursor EXCEPT ![c] = top]
        /\ seen' = [seen EXCEPT ![c] = seen[c] \union reply[c]]
        /\ reply' = [reply EXCEPT ![c] = {}]
    BY <1>6 DEF Receive
  <2>. HIDE DEF top
  <2>5. LogTypeOK'
    BY <1>0, <1>1, <2>2, <2>3, <2>4 DEF LogTypeOK
  <2>6. /\ cursor'[c] = top /\ seen'[c] = seen[c] \union reply[c] /\ reply'[c] = {}
        /\ \A d \in Consumer : d # c => cursor'[d] = cursor[d] /\ seen'[d] = seen[d]
                                        /\ reply'[d] = reply[d]
    BY <1>0, <2>4 DEF LogTypeOK
  <2>7. top < nextId /\ \A w \in Writer : \A e \in staged[w] : top < e
    BY <1>0, <1>1, <2>3 DEF DrawnIdsAreNew, CursorsBehindDrawn
  <2>8. DrawnIdsAreNew' /\ CursorsBehindDrawn'
    BY <1>0, <1>1, <2>6, <2>7 DEF DrawnIdsAreNew, CursorsBehindDrawn
  <2>9. \A e \in visible : e <= top => e \in seen[c] \union reply[c]
    <3>. SUFFICES ASSUME NEW e \in visible, e <= top, e \notin seen[c] PROVE e \in reply[c]
      OBVIOUS
    <3>1. cursor[c] < e
      BY <1>0, <1>1, <2>2 DEF NothingSkipped
    <3>2. top # cursor[c]
      BY <1>1, <3>1
    <3>. QED
      BY <1>0, <2>3, <3>1, <3>2 DEF RepliesAreGapless
  <2>10. NothingSkipped' /\ RepliesAreGapless' /\ SilentUntilSubscribed'
    BY <1>0, <1>1, <2>6, <2>9 DEF NothingSkipped, RepliesAreGapless, SilentUntilSubscribed
  <2>. QED
    BY <1>2, <2>5, <2>8, <2>10 DEF LogInvariant, CursorsBehindDrawn, SilentUntilSubscribed
<1>. QED
  BY <1>3, <1>4, <1>5, <1>6

\* Every step of the log keeps the invariant.
LEMMA LogStep == LogInvariant /\ [LogNext]_logVars => LogInvariant'
<1>. SUFFICES ASSUME LogInvariant, [LogNext]_logVars PROVE LogInvariant'
  OBVIOUS
<1>1. CASE UNCHANGED logVars
  BY <1>1 DEF logVars, LogInvariant, LogTypeOK, NothingSkipped, DrawnIdsAreNew, OneWriter,
              RepliesAreGapless
<1>. QED
  BY <1>1, WriterStep, ConsumerStep DEF LogNext

\* A new or an imported log satisfies the invariant.
LEMMA LogStart == LogInit => LogInvariant
<1>. SUFFICES ASSUME LogInit PROVE LogInvariant
  OBVIOUS
<1>1. visible \in SUBSET Nat /\ \A e \in visible : e <= Imported /\ e > 0
  BY BoundAssumption DEF LogInit
<1>2. Latest \in Nat /\ \A e \in visible : e <= Latest
  <2>1. CASE visible = {}
    BY <2>1 DEF Latest
  <2>2. CASE visible # {}
    <3>1. Imported + 1 \in Nat /\ \A e \in visible : e < Imported + 1
      BY <1>1, BoundAssumption
    <3>2. Max(visible) \in visible /\ \A e \in visible : e <= Max(visible)
      BY <1>1, <2>2, <3>1, MaxExists
    <3>. QED
      BY <1>1, <2>2, <3>2 DEF Latest
  <2>. QED
    BY <2>1, <2>2
<1>3. LogTypeOK
  <2>1. seen \in [Consumer -> (SUBSET Nat) \union {NotSubscribed}]
    <3>1. \A k \in 0..Latest : {e \in visible : e <= k} \in SUBSET Nat
      BY <1>1
    <3>. QED
      BY <3>1 DEF LogInit
  <2>2. nextId \in Nat \ {0} /\ cursor \in [Consumer -> Nat]
    BY <1>2 DEF LogInit
  <2>. QED
    BY <1>1, <2>1, <2>2 DEF LogInit, LogTypeOK
<1>4. DrawnIdsAreNew /\ OneWriter
  BY <1>1, <1>2, <1>3 DEF LogInit, DrawnIdsAreNew, OneWriter, LogTypeOK
<1>5. NothingSkipped /\ RepliesAreGapless
  BY <1>1, <1>3 DEF LogInit, NothingSkipped, RepliesAreGapless, LogTypeOK
<1>. QED
  BY <1>3, <1>4, <1>5 DEF LogInit, LogInvariant

\* The invariant holds however transactions and polls interleave.
THEOREM LogHolds == LogSpec => []LogInvariant
BY LogStart, LogStep, PTL DEF LogSpec

\* No consumer ever passes an event it has not dealt with: the lock that
\* beginIdentityWrite takes before the first id is drawn is enough.
THEOREM NothingIsSkipped == LogSpec => []NothingSkipped
<1>1. LogInvariant => NothingSkipped
  BY DEF LogInvariant
<1>. QED
  BY <1>1, LogHolds, PTL

\* Ids drawn by an open transaction lie beyond everything visible.
THEOREM DrawnIdsStayNew == LogSpec => []DrawnIdsAreNew
<1>1. LogInvariant => DrawnIdsAreNew
  BY DEF LogInvariant
<1>. QED
  BY <1>1, LogHolds, PTL

-----------------------------------------------------------------------------
(* The table implements EventFeed. *)

\* What a consumer has dealt with has no gap below it: an invariant beside
\* LogInvariant, since events that become visible are beyond all visible ones.
SeenIsPrefix ==
  \A c \in Consumer : seen[c] # NotSubscribed =>
    seen[c] \subseteq visible /\ F!Prefix(seen[c], visible)

\* A response (ListIdentityInvalidations) continues what the consumer has.
LEMMA ReplyContinues ==
  ASSUME LogInvariant, SeenIsPrefix, NEW c \in Consumer, seen[c] # NotSubscribed
  PROVE  /\ reply[c] \subseteq visible
         /\ F!Prefix(seen[c] \union reply[c], visible)
<1>1. /\ reply[c] \subseteq visible /\ visible \subseteq Nat /\ cursor[c] \in Nat
      /\ seen[c] \subseteq visible
      /\ \A e \in visible : e <= cursor[c] => e \in seen[c]
      /\ \A e \in visible, d \in reply[c] : cursor[c] < e /\ e <= d => e \in reply[c]
  BY DEF LogInvariant, LogTypeOK, DrawnIdsAreNew, NothingSkipped, RepliesAreGapless, SeenIsPrefix
<1>2. ASSUME NEW e \in seen[c] \union reply[c], NEW d \in visible, d < e
      PROVE  d \in seen[c] \union reply[c]
  <2>1. CASE e \in seen[c]
    BY <1>2, <2>1 DEF SeenIsPrefix, F!Prefix
  <2>2. CASE e \in reply[c]
    <3>1. d \in Nat /\ e \in Nat /\ cursor[c] \in Nat
      BY <1>1, <2>2
    <3>2. d <= cursor[c] \/ cursor[c] < d
      BY <3>1
    <3>3. d <= e
      BY <1>2, <3>1
    <3>. QED
      BY <1>1, <2>2, <3>2, <3>3
  <2>. QED
    BY <2>1, <2>2
<1>. QED
  BY <1>1, <1>2 DEF F!Prefix

\* Every step of a writer or a consumer is a step of the feed or changes nothing
\* that the feed speaks of.
LEMMA FeedStep ==
  ASSUME LogInvariant, SeenIsPrefix, [LogNext]_logVars
  PROVE  [F!FeedNext]_(F!feedVars) /\ SeenIsPrefix'
<1>. USE DEF F!feedVars
<1>1. CASE UNCHANGED <<visible, seen>>
  BY <1>1 DEF SeenIsPrefix, F!Prefix
<1>2. ASSUME NEW w \in Writer, Commit(w)
      PROVE  [F!FeedNext]_(F!feedVars) /\ SeenIsPrefix'
  <2>1. visible' = visible \union staged[w] /\ UNCHANGED seen
    BY <1>2 DEF Commit
  <2>2. /\ \A e \in staged[w], d \in visible : d < e
        /\ visible \subseteq Nat /\ staged[w] \subseteq Nat
    BY DEF LogInvariant, LogTypeOK, DrawnIdsAreNew
  <2>3. F!Publish
    BY <2>1, <2>2 DEF F!Publish
  <2>4. SeenIsPrefix'
    <3>1. SUFFICES ASSUME NEW c \in Consumer, seen[c] # NotSubscribed,
                          NEW e \in seen[c], NEW d \in visible', d < e
                   PROVE  d \in seen[c]
      BY <2>1 DEF SeenIsPrefix, F!Prefix
    <3>2. e \in visible /\ e \in Nat
      BY <2>2, <3>1 DEF SeenIsPrefix
    <3>3. d \notin staged[w]
      BY <2>2, <3>1, <3>2
    <3>. QED
      BY <2>1, <3>1, <3>3 DEF SeenIsPrefix, F!Prefix
  <2>. QED
    BY <2>3, <2>4 DEF F!FeedNext
<1>3. ASSUME NEW c \in Consumer, LatestIdentityInvalidationID(c)
      PROVE  [F!FeedNext]_(F!feedVars) /\ SeenIsPrefix'
  <2>1. F!Subscribe(c)
    BY <1>3 DEF LatestIdentityInvalidationID, F!Subscribe
  <2>2. \A d \in Consumer : seen'[d] = IF d = c THEN visible ELSE seen[d]
    BY <1>3 DEF LatestIdentityInvalidationID, LogInvariant, LogTypeOK
  <2>3. visible' = visible
    BY <1>3 DEF LatestIdentityInvalidationID
  <2>. QED
    BY <2>1, <2>2, <2>3 DEF SeenIsPrefix, F!Prefix, F!FeedNext
<1>4. ASSUME NEW c \in Consumer, NEW stored \in BOOLEAN, Receive(c, stored)
      PROVE  [F!FeedNext]_(F!feedVars) /\ SeenIsPrefix'
  <2>1. /\ seen' = [seen EXCEPT ![c] = seen[c] \union reply[c]] /\ visible' = visible
        /\ seen[c] # NotSubscribed
    BY <1>4 DEF Receive, LogInvariant
  <2>2. reply[c] \subseteq visible /\ F!Prefix(seen[c] \union reply[c], visible)
    BY <2>1, ReplyContinues
  <2>3. F!Deliver(c, reply[c])
    BY <2>1, <2>2 DEF F!Deliver
  <2>4. \A d \in Consumer : seen'[d] = IF d = c THEN seen[c] \union reply[c] ELSE seen[d]
    BY <2>1 DEF LogInvariant, LogTypeOK
  <2>5. SeenIsPrefix'
    BY <2>1, <2>2, <2>4 DEF SeenIsPrefix, F!Prefix
  <2>. QED
    BY <2>2, <2>3, <2>5 DEF F!FeedNext
<1>. QED
  BY <1>1, <1>2, <1>3, <1>4
     DEF LogNext, logVars, beginIdentityWrite, appendIdentityInvalidation, Rollback, Poll, Lose

\* Polling by cursor delivers the events in order and without a gap, whatever
\* responses are lost or answered twice.
THEOREM FeedRefinement == LogSpec => ImplementsFeed
<1>1. LogInit => F!FeedInit /\ SeenIsPrefix
  <2>. SUFFICES ASSUME LogInit PROVE F!FeedInit /\ SeenIsPrefix
    OBVIOUS
  <2>1. LogTypeOK
    BY LogStart DEF LogInvariant
  <2>2. ASSUME NEW c \in Consumer, seen[c] # NotSubscribed
        PROVE  seen[c] \subseteq visible /\ F!Prefix(seen[c], visible)
    <3>1. seen[c] = {e \in visible : e <= cursor[c]}
      BY <2>2 DEF LogInit
    <3>2. visible \subseteq Nat /\ cursor[c] \in Nat
      BY <2>1 DEF LogTypeOK
    <3>. QED
      BY <3>1, <3>2 DEF F!Prefix
  <2>. QED
    BY <2>1, <2>2 DEF F!FeedInit, SeenIsPrefix, LogTypeOK
<1>. QED
  BY <1>1, FeedStep, LogHolds, PTL DEF LogSpec, ImplementsFeed, F!FeedSpec
=============================================================================
