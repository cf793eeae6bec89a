---------------------------- MODULE ProcessProofs ----------------------------
(****************************************************************************)
(* Proofs about Startup for any sets of servers and imports, any number of  *)
(* migrations and any environments of the deployment, and about RollingLog  *)
(* for any options of the log and any bounds of its clock.                  *)
(****************************************************************************)
EXTENDS Startup, RollingLog, FiniteSetTheorems, TLAPS

StageTypes ==
  /\ pc \in [Proc -> Stage]
  /\ mem \in [Proc -> [token : Nat, key : Nat, version : Nat]]
  /\ file \in [{"token", "key", "pub"} -> Nat]
  /\ schema \in Nat /\ drawn \in Nat /\ drawn >= Given

\* Stages that follow the migration, the key and the owner.
Migrated == {"key", "newKey", "keyOpen", "pub", "pubOpen", "command", "setup",
             "listen", "serving"}
Keyed == {"pub", "pubOpen", "command", "setup", "listen", "serving"}
Published == {"command", "setup", "listen", "serving"}
Coming == Stage \ {"off", "serving", "stopping", "overdue"}

\* A process counts on no more migrations than there are, and goes past the last
\* one only when all are applied.
SchemaOK ==
  /\ schema <= Latest
  /\ \A p \in Proc :
       /\ mem[p].version <= schema
       /\ pc[p] = "apply" => mem[p].version < Latest
       /\ pc[p] \in Migrated => schema = Latest

\* Only a server gets as far as the owner.
OwnerOK ==
  \A p \in Proc : pc[p] \in {"listen", "serving"} /\ env.initOwner => setUp

\* What the processes of a deployment sign with.
TheKey == IF env.keyFromEnv THEN Given ELSE file["key"]

\* One process comes up at a time, so nobody writes a key after another has read or
\* written one; whoever is past that stage has the key of the deployment.
KeyOK ==
  ~env.overlap =>
    /\ \A p, q \in Proc : pc[p] \in Coming /\ pc[q] \in Coming => p = q
    /\ \A p \in Proc :
         /\ pc[p] \in {"newKey", "keyOpen"} =>
              ~env.keyFromEnv /\ file["key"] \in {Absent, Empty}
         /\ pc[p] = "keyOpen" => mem[p].key >= Given
         /\ pc[p] \in Keyed => mem[p].key = TheKey /\ TheKey >= Given
         /\ pc[p] \in Published => file["pub"] \in {Empty, TheKey}

StartupInvariant == StageTypes /\ SchemaOK /\ OwnerOK /\ KeyOK

-----------------------------------------------------------------------------
\* A process ends: it counts for nothing, and nothing it wrote changes.
LEMMA ExitStep ==
  ASSUME StartupInvariant, NEW p \in Proc, Exit(p), UNCHANGED <<file, schema, drawn, env>>,
         setUp => setUp'
  PROVE  StartupInvariant'
<1>1. /\ \A q \in Proc : q # p => pc'[q] = pc[q] /\ mem'[q] = mem[q]
      /\ pc'[p] = "off" /\ mem'[p] = Fresh
  BY DEF StartupInvariant, StageTypes, Exit, Goto
<1>2. StageTypes'
  BY DEF StartupInvariant, StageTypes, Exit, Goto, Stage, Fresh, Absent
<1>3. SchemaOK'
  BY <1>1 DEF StartupInvariant, StageTypes, SchemaOK, Migrated, Fresh
<1>4. OwnerOK'
  BY <1>1 DEF StartupInvariant, OwnerOK
<1>5. KeyOK'
  BY <1>1 DEF StartupInvariant, KeyOK, TheKey, Coming, Keyed, Published
<1>. QED
  BY <1>2, <1>3, <1>4, <1>5 DEF StartupInvariant

\* A step to another stage that writes no file, and of its memory at most the token.
LEMMA MoveStep ==
  ASSUME StartupInvariant, NEW p \in Proc, NEW stage \in Stage, Goto(p, stage),
         UNCHANGED <<file, schema, drawn, env>>, setUp => setUp',
         \/ UNCHANGED mem
         \/ \E v \in Nat : Keep(p, "token", v),
         stage \notin {"apply", "newKey", "keyOpen"},
         stage \in Migrated => pc[p] \in Migrated,
         stage \in {"listen", "serving"} /\ env.initOwner => setUp',
         stage \in Coming => pc[p] \in Coming \/ \A q \in Proc : pc[q] \notin Coming,
         stage \in Keyed => pc[p] \in Keyed,
         stage \in Published => pc[p] \in Published
  PROVE  StartupInvariant'
<1>1. /\ \A q \in Proc : q # p => pc'[q] = pc[q] /\ mem'[q] = mem[q]
      /\ pc'[p] = stage /\ mem'[p].key = mem[p].key /\ mem'[p].version = mem[p].version
  BY DEF StartupInvariant, StageTypes, Goto, Keep
<1>2. StageTypes'
  <2>1. pc' \in [Proc -> Stage]
    BY DEF StartupInvariant, StageTypes, Goto
  <2>2. mem' \in [Proc -> [token : Nat, key : Nat, version : Nat]]
    BY DEF StartupInvariant, StageTypes, Keep
  <2>. QED
    BY <2>1, <2>2 DEF StartupInvariant, StageTypes
<1>3. SchemaOK'
  BY <1>1 DEF StartupInvariant, SchemaOK
<1>4. OwnerOK'
  BY <1>1 DEF StartupInvariant, OwnerOK
<1>5. KeyOK'
  BY <1>1 DEF StartupInvariant, KeyOK, TheKey
<1>. QED
  BY <1>2, <1>3, <1>4, <1>5 DEF StartupInvariant

\* The other processes and files, as a step of p leaves them.
OnlyMoves(p, stage) ==
  /\ \A q \in Proc : q # p => pc'[q] = pc[q] /\ mem'[q] = mem[q]
  /\ pc'[p] = stage

\* GenerateToken and WriteToken: the token file and the token are nobody else's.
LEMMA TokenStep ==
  ASSUME StartupInvariant, NEW p \in Proc, GenerateToken(p) \/ WriteToken(p)
  PROVE  StartupInvariant'
<1>1. /\ \E stage \in {"tokenOpen", "migrate"} : OnlyMoves(p, stage)
      /\ pc[p] \in {"newToken", "tokenOpen"} /\ mem'[p].version = mem[p].version
      /\ file'["key"] = file["key"] /\ file'["pub"] = file["pub"]
  BY DEF StartupInvariant, StageTypes, GenerateToken, WriteToken, Generate, Truncate, Fill,
         Goto, Keep, OnlyMoves
<1>2. UNCHANGED <<schema, setUp, env>>
  BY DEF GenerateToken, WriteToken, others
<1>3. StageTypes'
  <2>1. CASE GenerateToken(p)
    <3>1. /\ pc' = [pc EXCEPT ![p] = "tokenOpen"] /\ schema' = schema
          /\ mem' = [mem EXCEPT ![p]["token"] = drawn + 1]
          /\ file' = [file EXCEPT !["token"] = 1] /\ drawn' = drawn + 1
      BY <2>1 DEF GenerateToken, Generate, Truncate, Goto, Keep, Empty
    <3>. QED
      BY <3>1 DEF StartupInvariant, StageTypes, Stage, Given
  <2>2. CASE WriteToken(p)
    BY <2>2 DEF StartupInvariant, StageTypes, Stage, WriteToken, Fill, Goto
  <2>. QED
    BY <2>1, <2>2
<1>4. SchemaOK'
  BY <1>1, <1>2 DEF StartupInvariant, SchemaOK, OnlyMoves, Migrated
<1>5. OwnerOK'
  BY <1>1, <1>2 DEF StartupInvariant, OwnerOK, OnlyMoves
<1>6. KeyOK'
  BY <1>1, <1>2 DEF StartupInvariant, KeyOK, OnlyMoves, TheKey, Coming, Keyed, Published, Stage
<1>. QED
  BY <1>3, <1>4, <1>5, <1>6 DEF StartupInvariant

\* Migrations are listed and applied; nothing that concerns the keys happens.
LEMMA MigrationStep ==
  ASSUME StartupInvariant, NEW p \in Proc, ReadSchema(p) \/ Apply(p)
  PROVE  StartupInvariant'
<1>0. Latest \in Nat
  BY StartupAssumption
<1>1. CASE Exit(p) /\ Apply(p) /\ UNCHANGED schema
  BY <1>1, ExitStep DEF Apply, others
<1>2. CASE ~(Exit(p) /\ Apply(p) /\ UNCHANGED schema)
  <2>1. PICK version \in Nat, stage \in {"apply", "key"} :
          /\ OnlyMoves(p, stage) /\ Keep(p, "version", version) /\ Goto(p, stage)
          /\ version = schema' /\ schema' \in Nat /\ schema <= schema' /\ schema' <= Latest
          /\ stage = "apply" <=> schema' # Latest
          /\ schema # Latest \/ schema' = Latest
    <3>1. CASE ReadSchema(p)
      <4>1. /\ schema' = schema /\ schema \in Nat /\ schema <= Latest
            /\ Keep(p, "version", schema)
            /\ Goto(p, IF schema = Latest THEN "key" ELSE "apply")
        BY <3>1 DEF StartupInvariant, StageTypes, SchemaOK, ReadSchema, data
      <4>2. OnlyMoves(p, IF schema = Latest THEN "key" ELSE "apply")
        BY <4>1 DEF StartupInvariant, StageTypes, Goto, Keep, OnlyMoves
      <4>3. CASE schema = Latest
        BY <4>1, <4>2, <4>3
      <4>4. CASE schema # Latest
        BY <4>1, <4>2, <4>4
      <4>. QED
        BY <4>3, <4>4
    <3>2. CASE Apply(p)
      BY <1>0, <1>2, <3>2 DEF StartupInvariant, StageTypes, SchemaOK, Apply, Goto, Keep, OnlyMoves
    <3>. QED
      BY <3>1, <3>2
  <2>2. /\ UNCHANGED <<file, setUp, env, drawn>>
        /\ pc[p] \in {"migrate", "apply"} /\ mem'[p].version = version
    BY <1>2, <2>1 DEF StartupInvariant, StageTypes, ReadSchema, Apply, data, others, Keep
  <2>3. StageTypes'
    BY <2>1, <2>2 DEF StartupInvariant, StageTypes, Stage, Goto, Keep
  <2>4. SchemaOK'
    BY <1>0, <2>1, <2>2 DEF StartupInvariant, StageTypes, SchemaOK, OnlyMoves, Migrated
  <2>5. OwnerOK'
    BY <2>1, <2>2 DEF StartupInvariant, OwnerOK, OnlyMoves
  <2>6. KeyOK'
    BY <2>1, <2>2 DEF StartupInvariant, KeyOK, OnlyMoves, TheKey, Coming, Keyed, Published, Stage
  <2>. QED
    BY <2>3, <2>4, <2>5, <2>6 DEF StartupInvariant
<1>. QED
  BY <1>1, <1>2

\* The key is read, or generated and written: by one process at a time.
LEMMA KeyStep ==
  ASSUME StartupInvariant, NEW p \in Proc, ReadKey(p) \/ GenerateKey(p) \/ WriteKey(p)
  PROVE  StartupInvariant'
<1>. USE DEF Absent, Empty, Given
<1>1. /\ \E stage \in {"newKey", "keyOpen", "pub"} : OnlyMoves(p, stage)
      /\ pc[p] \in {"key", "newKey", "keyOpen"} /\ mem'[p].version = mem[p].version
      /\ file'["pub"] = file["pub"]
  BY DEF StartupInvariant, StageTypes, ReadKey, GenerateKey, WriteKey, Generate, Truncate, Fill,
         Goto, Keep, OnlyMoves, data
<1>2. UNCHANGED <<schema, setUp, env>>
  BY DEF ReadKey, GenerateKey, WriteKey, others, data
<1>3. StageTypes'
  <2>1. CASE ReadKey(p)
    BY <2>1 DEF StartupInvariant, StageTypes, Stage, ReadKey, Goto, Keep, data, Secret
  <2>2. CASE GenerateKey(p)
    BY <2>2 DEF StartupInvariant, StageTypes, Stage, GenerateKey, Generate, Truncate, Goto, Keep
  <2>3. CASE WriteKey(p)
    BY <2>3 DEF StartupInvariant, StageTypes, Stage, WriteKey, Fill, Goto
  <2>. QED
    BY <2>1, <2>2, <2>3
<1>4. SchemaOK'
  BY <1>1, <1>2 DEF StartupInvariant, SchemaOK, OnlyMoves, Migrated
<1>5. OwnerOK'
  BY <1>1, <1>2 DEF StartupInvariant, OwnerOK, OnlyMoves
<1>6. KeyOK'
  <2>. SUFFICES ASSUME ~env.overlap
                PROVE  KeyOK'
    BY <1>2 DEF KeyOK
  <2>1. \A q, r \in Proc : pc'[q] \in Coming /\ pc'[r] \in Coming => q = r
    BY <1>1 DEF StartupInvariant, KeyOK, OnlyMoves, Coming, Stage
  <2>2. \A q \in Proc : q # p => pc[q] \notin Coming
    BY <1>1 DEF StartupInvariant, KeyOK, Coming, Stage
  <2>3. CASE ReadKey(p)
    <3>1. /\ UNCHANGED file
          /\ pc'[p] = "newKey" => ~env.keyFromEnv /\ file["key"] \in {Absent, Empty}
          /\ pc'[p] # "keyOpen"
          /\ pc'[p] \in Keyed => mem'[p].key = TheKey /\ TheKey >= Given
          /\ pc'[p] \notin Published
      BY <2>3 DEF StartupInvariant, StageTypes, ReadKey, Goto, Keep, data, TheKey, Keyed,
                  Published, Secret
    <3>. QED
      BY <1>1, <1>2, <2>1, <3>1 DEF StartupInvariant, KeyOK, OnlyMoves, TheKey
  <2>4. CASE GenerateKey(p)
    <3>1. /\ ~env.keyFromEnv /\ file["key"] \in {Absent, Empty}
          /\ file'["key"] = Empty /\ pc'[p] = "keyOpen" /\ mem'[p].key >= Given
      BY <2>4 DEF StartupInvariant, StageTypes, KeyOK, GenerateKey, Generate, Truncate, Goto, Keep
    <3>2. \A q \in Proc : q # p => pc[q] \notin Keyed
      BY <3>1 DEF StartupInvariant, KeyOK, TheKey
    <3>. QED
      BY <1>1, <1>2, <2>1, <2>2, <3>1, <3>2
         DEF StartupInvariant, KeyOK, OnlyMoves, TheKey, Keyed, Published, Coming, Stage
  <2>5. CASE WriteKey(p)
    <3>1. /\ ~env.keyFromEnv /\ file["key"] \in {Absent, Empty} /\ mem[p].key >= Given
          /\ file'["key"] = mem[p].key /\ pc'[p] = "pub" /\ mem' = mem
      BY <2>5 DEF StartupInvariant, StageTypes, KeyOK, WriteKey, Fill, Goto
    <3>2. \A q \in Proc : q # p => pc[q] \notin Keyed
      BY <3>1 DEF StartupInvariant, KeyOK, TheKey
    <3>. QED
      BY <1>1, <1>2, <2>1, <2>2, <3>1, <3>2
         DEF StartupInvariant, KeyOK, OnlyMoves, TheKey, Keyed, Published, Coming, Stage
  <2>. QED
    BY <2>3, <2>4, <2>5
<1>. QED
  BY <1>3, <1>4, <1>5, <1>6 DEF StartupInvariant

\* The public key is truncated and filled, with the key of the deployment.
LEMMA PublicStep ==
  ASSUME StartupInvariant, NEW p \in Proc, OpenPublic(p) \/ WritePublic(p)
  PROVE  StartupInvariant'
<1>. USE DEF Absent, Empty, Given
<1>1. /\ \E stage \in {"pubOpen", "command"} : OnlyMoves(p, stage)
      /\ pc[p] \in {"pub", "pubOpen"} /\ mem' = mem
      /\ file'["key"] = file["key"]
      /\ pc[p] = "pub" => pc'[p] = "pubOpen" /\ file'["pub"] = Empty
      /\ pc[p] = "pubOpen" => file'["pub"] = mem[p].key
  BY DEF StartupInvariant, StageTypes, OpenPublic, WritePublic, Truncate, Fill, Goto, OnlyMoves
<1>2. UNCHANGED <<schema, setUp, env>>
  BY DEF OpenPublic, WritePublic, others
<1>3. StageTypes'
  BY DEF StartupInvariant, StageTypes, Stage, OpenPublic, WritePublic, Truncate, Fill, Goto
<1>4. SchemaOK'
  BY <1>1, <1>2 DEF StartupInvariant, SchemaOK, OnlyMoves, Migrated
<1>5. OwnerOK'
  BY <1>1, <1>2 DEF StartupInvariant, OwnerOK, OnlyMoves
<1>6. KeyOK'
  <2>1. ~env.overlap /\ pc[p] = "pubOpen" => file'["pub"] = TheKey
    BY <1>1 DEF StartupInvariant, KeyOK, Keyed
  <2>. QED
    BY <1>1, <1>2, <2>1 DEF StartupInvariant, KeyOK, OnlyMoves, TheKey, Coming, Keyed, Published, Stage
<1>. QED
  BY <1>3, <1>4, <1>5, <1>6 DEF StartupInvariant

\* What a Control process does by itself.
LEMMA ProcessStep ==
  ASSUME StartupInvariant, NEW p \in Proc, Step(p)
  PROVE  StartupInvariant'
<1>1. CASE ReadToken(p)
  <2>1. UNCHANGED <<file, schema, drawn, env, setUp>> /\ pc[p] = "token"
    BY <1>1 DEF ReadToken, data, others
  <2>2. CASE Exit(p)
    BY <2>1, <2>2, ExitStep
  <2>3. CASE Goto(p, "newToken") /\ UNCHANGED mem
    BY <2>1, <2>3, MoveStep DEF Stage, Migrated, Coming, Keyed, Published
  <2>4. ASSUME NEW v \in Nat, Goto(p, "migrate"), Keep(p, "token", v)
        PROVE  StartupInvariant'
    BY <2>1, <2>4, MoveStep DEF Stage, Migrated, Coming, Keyed, Published
  <2>5. (IF env.tokenFromEnv THEN Given ELSE file.token) \in Nat
    BY DEF StartupInvariant, StageTypes, Given
  <2>. QED
    BY <1>1, <2>2, <2>3, <2>4, <2>5 DEF ReadToken
<1>2. CASE Import(p)
  <2>1. setUp => setUp'
    BY <1>2 DEF Import
  <2>2. UNCHANGED <<file, schema, drawn, env>> /\ Exit(p)
    BY <1>2 DEF Import, others
  <2>. QED
    BY <2>1, <2>2, ExitStep
<1>3. CASE InitializeOwner(p)
  <2>1. UNCHANGED <<file, schema, drawn, env, setUp, mem>> /\ pc[p] = "command"
    BY <1>3 DEF InitializeOwner, data, others
  <2>2. CASE env.initOwner /\ ~setUp
    <3>1. Goto(p, "setup")
      BY <1>3, <2>2 DEF InitializeOwner
    <3>. QED
      BY <2>1, <3>1, MoveStep DEF Stage, Migrated, Coming, Keyed, Published
  <2>3. CASE ~(env.initOwner /\ ~setUp)
    <3>1. Goto(p, "listen")
      BY <1>3, <2>3 DEF InitializeOwner
    <3>. QED
      BY <2>1, <2>3, <3>1, MoveStep DEF Stage, Migrated, Coming, Keyed, Published
  <2>. QED
    BY <2>2, <2>3
<1>4. CASE SetupOwner(p)
  <2>1. UNCHANGED <<file, schema, drawn, env>> /\ pc[p] = "setup" /\ setUp'
    BY <1>4 DEF SetupOwner, others
  <2>2. CASE Exit(p)
    BY <2>1, <2>2, ExitStep
  <2>3. CASE Goto(p, "listen") /\ UNCHANGED mem
    BY <2>1, <2>3, MoveStep DEF Stage, Migrated, Coming, Keyed, Published
  <2>. QED
    BY <1>4, <2>2, <2>3 DEF SetupOwner
<1>5. CASE Listen(p)
  <2>1. UNCHANGED <<file, schema, drawn, env, setUp>> /\ pc[p] = "listen"
    BY <1>5 DEF Listen, data, others
  <2>2. CASE Exit(p)
    BY <2>1, <2>2, ExitStep
  <2>3. CASE Goto(p, "serving") /\ UNCHANGED mem
    <3>1. env.initOwner => setUp
      BY <2>1 DEF StartupInvariant, OwnerOK
    <3>. QED
      BY <2>1, <2>3, <3>1, MoveStep DEF Stage, Migrated, Coming, Keyed, Published
  <2>. QED
    BY <1>5, <2>2, <2>3 DEF Listen
<1>6. CASE Leave(p)
  BY <1>6, ExitStep DEF Leave, data
<1>. QED
  BY <1>1, <1>2, <1>3, <1>4, <1>5, <1>6, TokenStep, MigrationStep, KeyStep, PublicStep DEF Step

\* Starts, requests, signals and crashes.
LEMMA StartupStep == StartupInvariant /\ [StartupNext]_startVars => StartupInvariant'
<1>. SUFFICES ASSUME StartupInvariant, [StartupNext]_startVars
              PROVE  StartupInvariant'
  OBVIOUS
<1>1. ASSUME NEW p \in Proc, Start(p)
      PROVE  StartupInvariant'
  <2>1. UNCHANGED <<file, schema, drawn, env, setUp, mem>> /\ pc[p] = "off" /\ Goto(p, "token")
    BY <1>1 DEF Start, data, others
  <2>2. CASE env.overlap
    <3>1. StageTypes'
      BY <2>1 DEF StartupInvariant, StageTypes, Goto, Stage
    <3>2. SchemaOK' /\ OwnerOK'
      BY <2>1 DEF StartupInvariant, StageTypes, SchemaOK, OwnerOK, Goto, Migrated
    <3>3. KeyOK'
      BY <2>1, <2>2 DEF KeyOK
    <3>. QED
      BY <3>1, <3>2, <3>3 DEF StartupInvariant
  <2>3. CASE Starting = {}
    <3>1. \A q \in Proc : pc[q] \notin Coming
      BY <2>3 DEF Starting, Coming
    <3>. QED
      BY <2>1, <3>1, MoveStep DEF Stage, Migrated, Coming, Keyed, Published
  <2>. QED
    BY <1>1, <2>2, <2>3 DEF Start
<1>2. ASSUME NEW p \in Proc, SetupForm(p)
      PROVE  StartupInvariant'
  <2>1. UNCHANGED <<pc, mem, file, schema, drawn, env>> /\ setUp'
    BY <1>2 DEF SetupForm, others
  <2>. QED
    BY <2>1 DEF StartupInvariant, StageTypes, SchemaOK, OwnerOK, KeyOK, TheKey
<1>3. ASSUME NEW p \in Proc, Crash(p)
      PROVE  StartupInvariant'
  BY <1>3, ExitStep DEF Crash, data
<1>4. ASSUME NEW p \in Server, Signal(p) \/ Deadline(p)
      PROVE  StartupInvariant'
  <2>1. PICK stage \in {"stopping", "overdue"} : Goto(p, stage)
    BY <1>4 DEF Signal, Deadline
  <2>2. UNCHANGED <<file, schema, drawn, env, setUp, mem>> /\ p \in Proc
    BY <1>4 DEF Signal, Deadline, data, others, Proc
  <2>. QED
    BY <2>1, <2>2, MoveStep DEF Stage, Migrated, Coming, Keyed, Published
<1>5. CASE UNCHANGED <<pc, mem, file, schema, drawn, setUp, env>>
  BY <1>5 DEF StartupInvariant, StageTypes, SchemaOK, OwnerOK, KeyOK, TheKey
<1>. QED
  BY <1>1, <1>2, <1>3, <1>4, <1>5, ProcessStep
     DEF StartupNext, startVars, data, Accept, Answer

\* Nothing is there yet.
LEMMA StartupStart == StartupInit => StartupInvariant
<1>1. Latest \in Nat
  BY StartupAssumption
<1>. QED
  BY <1>1 DEF StartupInit, StartupInvariant, StageTypes, Stage, SchemaOK, OwnerOK, KeyOK, Coming,
       Migrated, Keyed, Published, Fresh, Absent, Given

\* The inductive invariant of processes that come up, serve and die.
THEOREM StartupHolds == StartupSpec => []StartupInvariant
BY StartupStart, StartupStep, PTL DEF StartupSpec

\* A server that serves has the whole schema and the owner its environment asks for
\* (storage.Open, initializeOwner).
THEOREM ServingAlwaysReady == StartupSpec => []ServingIsReady
<1>1. StartupInvariant => ServingIsReady
  BY DEF StartupInvariant, SchemaOK, OwnerOK, ServingIsReady, Migrated, Proc
<1>. QED
  BY <1>1, StartupHolds, PTL

\* As long as no two processes start at the same time, servers sign with the key in
\* the data directory and the public key is theirs (LoadSigner).
THEOREM SigningKeyStays == StartupSpec => []SigningKeyIsPersisted
<1>1. StartupInvariant => SigningKeyIsPersisted
  BY DEF StartupInvariant, KeyOK, SigningKeyIsPersisted, SharedSigningKey, Keyed, Published,
         TheKey, Proc
<1>. QED
  BY <1>1, StartupHolds, PTL

-----------------------------------------------------------------------------
(****************************************************************************)
(* RollingLog: files are counted in three kinds, those of other days, the   *)
(* active one of today and its parts.                                       *)
(****************************************************************************)

\* The files of other days among some.
Elsewhere(names, d) == {f \in names : f[1] # d}

\* The parts of a day among some.
PartsOf(names, d) == {f \in names : f[1] = d /\ f[2] > 0}

\* RollingTypeOK, finitely many files, and each file last written on its day.
RollingTyped ==
  /\ time \in 0 .. MaxTime /\ back \in 0 .. MaxBack
  /\ DOMAIN files \subseteq Day \X Nat /\ IsFiniteSet(DOMAIN files)
  /\ \A f \in DOMAIN files : files[f] \in 0 .. MaxTime /\ files[f] \div DayLength = f[1]
  /\ writer \in Day \union {NoDay} /\ cleaned \in Day \union {NoDay}
  /\ writer # NoDay => cleaned = writer

\* What a day may have if there is a limit: few files of other days, and no more
\* parts than lumberjack keeps or than the cleanup has left.
Roomy(names, d) ==
  MaxBackups > 0 =>
    /\ Cardinality(Elsewhere(names, d)) <= MaxBackups + 1
    /\ \/ Cardinality(PartsOf(names, d)) <= MaxBackups
       \/ Cardinality(Elsewhere(names, d)) + Cardinality(PartsOf(names, d)) <= MaxBackups + 1

\* Inductive: while the day of the last cleanup lasts, its files leave room for
\* the active file and MaxBackups parts.
RollingInvariant ==
  /\ RollingTyped
  /\ FilesAreBounded
  /\ cleaned # NoDay => Roomy(DOMAIN files, cleaned)

\* Every time lies in a day, and NoDay is none of them.
LEMMA Days == (0 .. MaxTime) \subseteq Nat /\ NoDay \notin Day /\ \A n \in 0 .. MaxTime : n \div DayLength \in Day
  <1>1. MaxTime \in Nat /\ DayLength \in Nat \ {0}
    BY RollingAssumption
  <1>2. \A n \in 0 .. MaxTime : n \div DayLength \in 0 .. (MaxTime \div DayLength)
    BY <1>1
  <1>3. MaxTime \div DayLength <= MaxTime
    BY <1>1
  <1> QED
    BY <1>1, <1>2, <1>3 DEF Day, NoDay

\* The minimum of two numbers is the lesser of them.
LEMMA LesserOfTwo ==
  ASSUME NEW a \in Nat, NEW b \in Nat
  PROVE  /\ Min({a, b}) \in Nat /\ Min({a, b}) <= a /\ Min({a, b}) <= b
         /\ Min({a, b}) = a \/ Min({a, b}) = b
  <1>1. \E x \in {a, b} : \A y \in {a, b} : x <= y
    OBVIOUS
  <1>2. Min({a, b}) \in {a, b} /\ \A y \in {a, b} : Min({a, b}) <= y
    BY <1>1 DEF Min
  <1> QED
    BY <1>2

\* Files are of other days, parts of this day, or the active file.
LEMMA ThreeKinds ==
  ASSUME NEW names, IsFiniteSet(names), names \subseteq Day \X Nat, NEW d
  PROVE  /\ IsFiniteSet(Elsewhere(names, d)) /\ IsFiniteSet(PartsOf(names, d))
         /\ Cardinality(Elsewhere(names, d)) \in Nat /\ Cardinality(PartsOf(names, d)) \in Nat
         /\ Cardinality(names) \in Nat
         /\ Cardinality(names) <= Cardinality(Elsewhere(names, d)) + Cardinality(PartsOf(names, d)) + 1
         /\ Cardinality(Elsewhere(names, d)) + Cardinality(PartsOf(names, d)) <= Cardinality(names)
  <1> DEFINE E == Elsewhere(names, d)
             P == PartsOf(names, d)
  <1>1. E \in SUBSET names /\ P \in SUBSET names /\ E \cap P = {}
    BY DEF Elsewhere, PartsOf
  <1>2. names \subseteq (E \union P) \union {<<d, 0>>}
    BY DEF Elsewhere, PartsOf
  <1> HIDE DEF E, P
  <1>3. IsFiniteSet(E) /\ IsFiniteSet(P)
    BY <1>1, FS_Subset
  <1>4. /\ Cardinality(E) \in Nat /\ Cardinality(P) \in Nat /\ Cardinality(names) \in Nat
    BY <1>3, FS_CardinalityType
  <1>5. IsFiniteSet(E \union P) /\ Cardinality(E \union P) = Cardinality(E) + Cardinality(P)
    <2>1. /\ IsFiniteSet(E \union P)
          /\ Cardinality(E \union P) = Cardinality(E) + Cardinality(P) - Cardinality(E \cap P)
      BY <1>3, FS_Union
    <2>2. Cardinality(E \cap P) = 0
      BY <1>1, FS_EmptySet
    <2> QED
      BY <1>4, <2>1, <2>2
  <1>6. /\ IsFiniteSet((E \union P) \union {<<d, 0>>})
        /\ Cardinality((E \union P) \union {<<d, 0>>}) <= Cardinality(E \union P) + 1
        /\ Cardinality((E \union P) \union {<<d, 0>>}) \in Nat
    <2>1. PICK S : S = E \union P
      OBVIOUS
    <2>2. PICK x : x = <<d, 0>>
      OBVIOUS
    <2>3. IsFiniteSet(S) /\ Cardinality(S) \in Nat
      BY <1>5, <2>1, FS_CardinalityType
    <2>4. /\ IsFiniteSet(S \union {x}) /\ Cardinality(S \union {x}) \in Nat
          /\ Cardinality(S \union {x}) = IF x \in S THEN Cardinality(S) ELSE Cardinality(S) + 1
      BY <2>3, FS_AddElement, FS_CardinalityType
    <2> QED
      BY <2>1, <2>2, <2>3, <2>4
  <1>7. Cardinality(names) <= Cardinality((E \union P) \union {<<d, 0>>})
    BY <1>2, <1>6, FS_Subset
  <1>8. Cardinality(E \union P) <= Cardinality(names)
    BY <1>1, FS_Subset
  <1> QED
    BY <1>3, <1>4, <1>5, <1>6, <1>7, <1>8 DEF E, P

\* Where there is room the files are as few as FilesAreBounded wants.
LEMMA RoomIsBounded ==
  ASSUME NEW names, IsFiniteSet(names), names \subseteq Day \X Nat, NEW d, Roomy(names, d)
  PROVE  MaxBackups > 0 => Cardinality(names) <= 2 * MaxBackups + 2
  BY ThreeKinds, RollingAssumption DEF Roomy

\* What a cleanup keeps leaves room for any day.
LEMMA FewAreRoomy ==
  ASSUME NEW names, IsFiniteSet(names), names \subseteq Day \X Nat, NEW d,
         MaxBackups > 0 => Cardinality(names) <= MaxBackups + 1
  PROVE  Roomy(names, d)
  BY ThreeKinds, RollingAssumption DEF Roomy

\* Those that lumberjack removes: MaxBackups others are later.
Surplus(parts) == {f \in parts : /\ MaxBackups > 0
                                 /\ Cardinality({g \in parts : g[2] > f[2]}) >= MaxBackups}

\* Of the parts of a day, no more than MaxBackups have fewer than MaxBackups
\* after them: the number of later ones tells them apart.
LEMMA LatestParts ==
  ASSUME NEW parts, IsFiniteSet(parts), NEW d, parts \subseteq {d} \X Nat,
         NEW kept, kept = parts \ Surplus(parts), MaxBackups > 0
  PROVE  Cardinality(kept) <= MaxBackups
  <1> DEFINE later(f) == {g \in parts : g[2] > f[2]}
             rank == [f \in kept |-> Cardinality(later(f))]
  <1>0. MaxBackups \in Nat
    BY RollingAssumption
  <1>1. ASSUME NEW f \in parts
        PROVE  IsFiniteSet(later(f)) /\ Cardinality(later(f)) \in Nat
    <2>1. later(f) \in SUBSET parts
      OBVIOUS
    <2> QED
      BY <2>1, FS_Subset, FS_CardinalityType
  <1>2. ASSUME NEW f \in kept
        PROVE  Cardinality(later(f)) \in 0 .. MaxBackups - 1
    BY <1>0, <1>1 DEF Surplus
  <1>3. ASSUME NEW f \in kept, NEW g \in kept, f[2] < g[2]
        PROVE  Cardinality(later(g)) < Cardinality(later(f))
    <2>1. f[2] \in Nat /\ g[2] \in Nat /\ g \notin later(g)
      OBVIOUS
    <2>2. \A h \in parts : h[2] \in Nat
      OBVIOUS
    <2>3. later(g) \union {g} \in SUBSET later(f)
      BY <1>3, <2>1, <2>2
    <2> HIDE DEF later
    <2>4. /\ IsFiniteSet(later(f)) /\ IsFiniteSet(later(g))
          /\ Cardinality(later(f)) \in Nat /\ Cardinality(later(g)) \in Nat
      BY <1>1
    <2>5. Cardinality(later(g) \union {g}) = Cardinality(later(g)) + 1
      BY <2>1, <2>4, FS_AddElement
    <2>6. Cardinality(later(g) \union {g}) <= Cardinality(later(f))
      BY <2>3, <2>4, FS_Subset
    <2> QED
      BY <2>4, <2>5, <2>6
  <1>4. ASSUME NEW f \in kept, NEW g \in kept, rank[f] = rank[g]
        PROVE  f = g
    <2>1. f[2] \in Nat /\ g[2] \in Nat /\ f[1] = d /\ g[1] = d /\ f = <<f[1], f[2]>> /\ g = <<g[1], g[2]>>
      OBVIOUS
    <2>2. Cardinality(later(f)) = Cardinality(later(g))
      BY <1>4
    <2>3. Cardinality(later(f)) \in Nat /\ Cardinality(later(g)) \in Nat
      BY <1>1
    <2> HIDE DEF later
    <2>4. ~(f[2] < g[2]) /\ ~(g[2] < f[2])
      BY <1>3, <2>2, <2>3
    <2> QED
      BY <2>1, <2>4
  <1>5. rank \in Injection(kept, 0 .. MaxBackups - 1)
    <2>1. rank \in [kept -> 0 .. MaxBackups - 1]
      BY <1>2
    <2> QED
      BY <1>4, <2>1 DEF Injection, IsInjective
  <1>6. IsFiniteSet(0 .. MaxBackups - 1) /\ Cardinality(0 .. MaxBackups - 1) = MaxBackups
    <2>1. PICK n \in Int : n = MaxBackups - 1 /\ n >= 0
      BY RollingAssumption
    <2>2. IsFiniteSet(0 .. n) /\ Cardinality(0 .. n) = n + 1
      BY <2>1, FS_Interval
    <2> QED
      BY <1>0, <2>1, <2>2
  <1> QED
    BY <1>5, <1>6, FS_Injection

-----------------------------------------------------------------------------
(* The cleanup. *)

\* Today is a day.
LEMMA TodayIsADay == RollingTyped => Today \in Day /\ Today # NoDay
  BY Days DEF RollingTyped, Today

\* What rotateIfNeeded leaves.
Rotated(r) ==
  /\ DOMAIN r.left \subseteq DOMAIN files /\ \A f \in DOMAIN r.left : r.left[f] = files[f]
  /\ r.on = Today
  /\ Roomy(DOMAIN r.left, Today)
  /\ \A f \in DOMAIN files \ DOMAIN r.left :
       \/ TooOld(f)
       \/ \E g \in DOMAIN r.left : files[g] >= files[f]

\* With or without a cleanup, rotateIfNeeded removes nothing but files that are
\* too old or have others that are as young beside them, and leaves room.
LEMMA RotatedKeeps ==
  ASSUME RollingInvariant, NEW r \in rotateIfNeeded
  PROVE  Rotated(r)
  <1>1. /\ RollingTyped /\ DOMAIN files \subseteq Day \X Nat /\ IsFiniteSet(DOMAIN files)
        /\ \A f \in DOMAIN files : files[f] \in Nat
        /\ time \in Nat /\ MaxBackups \in Nat
    BY RollingAssumption DEF RollingInvariant, RollingTyped
  <1>3. CASE writer = Today \/ cleaned = Today
    <2>1. r = [left |-> files, on |-> cleaned]
      BY <1>3 DEF rotateIfNeeded, cleanupOldFiles
    <2>2. cleaned = Today /\ cleaned # NoDay
      BY <1>1, <1>3, TodayIsADay DEF RollingTyped
    <2> QED
      BY <2>1, <2>2 DEF Rotated, RollingInvariant
  <1>4. CASE writer # Today /\ cleaned # Today
    <2>1. PICK kept \in SUBSET Young :
            Cardinality(kept) = KeptCount /\ Kept(kept) /\ r = [left |-> Only(kept), on |-> CleanedOn(kept)]
      BY <1>4 DEF rotateIfNeeded, cleanupOldFiles
    <2>2. DOMAIN r.left = kept /\ r.on = Today /\ \A f \in kept : r.left[f] = files[f]
      BY <2>1 DEF Only, CleanedOn
    <2>3. Young \in SUBSET DOMAIN files
      BY DEF Young
    <2>4. IsFiniteSet(Young) /\ IsFiniteSet(kept) /\ Cardinality(Young) \in Nat /\ Cardinality(kept) \in Nat
      BY <1>1, <2>1, <2>3, FS_Subset, FS_CardinalityType
    <2>5. /\ MaxBackups > 0 => Cardinality(kept) <= MaxBackups + 1
          /\ Cardinality(kept) = Cardinality(Young) \/ Cardinality(kept) = MaxBackups + 1
      <3>1. PICK many \in Nat : many = Cardinality(Young)
        BY <2>4
      <3>2. PICK most \in Nat : most = MaxBackups + 1
        BY <1>1
      <3>3. Cardinality(kept) = IF MaxBackups = 0 THEN many ELSE Min({many, most})
        BY <2>1, <3>1, <3>2 DEF KeptCount
      <3> QED
        BY <1>1, <3>1, <3>2, <3>3, LesserOfTwo
    <2>6. Roomy(kept, Today)
      <3>1. kept \subseteq Day \X Nat
        BY <1>1, <2>3
      <3>2. PICK d : d = Today
        OBVIOUS
      <3> QED
        BY <2>4, <2>5, <3>1, <3>2, FewAreRoomy
    <2>7. ASSUME NEW f \in DOMAIN files, f \notin kept, ~TooOld(f)
          PROVE  \E g \in kept : files[g] >= files[f]
      <3>1. f \in Young
        BY <2>7 DEF Young
      <3>2. kept # Young
        BY <2>7, <3>1
      <3>3. Cardinality(kept) = MaxBackups + 1
        BY <2>1, <2>4, <2>5, <3>2, FS_Subset
      <3>4. kept # {}
        BY <1>1, <2>4, <3>3, FS_EmptySet
      <3> QED
        BY <2>1, <2>7, <3>1, <3>4 DEF Kept
    <2> QED
      BY <2>2, <2>1, <2>3, <2>6, <2>7 DEF Rotated
  <1> QED
    BY <1>3, <1>4

-----------------------------------------------------------------------------
(* The steps. *)

\* Files that leave room for today, written by the writer of today.
LEMMA NewFilesKeep ==
  ASSUME RollingInvariant, NEW names, DOMAIN files' = names, IsFiniteSet(names), names \subseteq Day \X Nat,
         \A f \in names : files'[f] \in 0 .. MaxTime /\ files'[f] \div DayLength = f[1],
         Roomy(names, Today), cleaned' = Today, writer' = Today, time' = time, back' = back
  PROVE  RollingInvariant'
  <1>1. Today \in Day /\ Today # NoDay
    BY TodayIsADay DEF RollingInvariant
  <1>2. RollingTyped'
    BY <1>1 DEF RollingInvariant, RollingTyped
  <1>3. PICK d : d = Today
    OBVIOUS
  <1>4. MaxBackups > 0 => Cardinality(names) <= 2 * MaxBackups + 2
    BY <1>3, RoomIsBounded
  <1> QED
    BY <1>2, <1>4 DEF RollingInvariant, FilesAreBounded

\* A line that is appended adds at most the active file.
LEMMA AppendKeeps ==
  ASSUME RollingInvariant, NEW r \in rotateIfNeeded, Append(r.left),
         cleaned' = r.on, writer' = Today, time' = time, back' = back
  PROVE  RollingInvariant'
  <1>1. Rotated(r)
    BY RotatedKeeps
  <1>2. PICK d, active, old : d = Today /\ active = <<d, 0>> /\ old = DOMAIN r.left
    OBVIOUS
  <1>3. d \in Day /\ time \in 0 .. MaxTime /\ d = time \div DayLength
    BY <1>2, TodayIsADay DEF RollingInvariant, RollingTyped, Today
  <1>4. PICK names : names = old \union {active}
    OBVIOUS
  <1>5. DOMAIN files' = names /\ \A f \in names : files'[f] = IF f = active THEN time ELSE r.left[f]
    BY <1>2, <1>4 DEF Append
  <1>6. IsFiniteSet(DOMAIN files) /\ old \in SUBSET DOMAIN files /\ DOMAIN files \subseteq Day \X Nat
    BY <1>1, <1>2 DEF Rotated, RollingInvariant, RollingTyped
  <1>7. IsFiniteSet(names)
    BY <1>4, <1>6, FS_Subset, FS_AddElement
  <1>8. names \subseteq Day \X Nat
    <2>1. active \in Day \X Nat
      BY <1>2, <1>3
    <2> QED
      BY <1>4, <1>6, <2>1
  <1>9. \A f \in names : files'[f] \in 0 .. MaxTime /\ files'[f] \div DayLength = f[1]
    <2> SUFFICES ASSUME NEW f \in names
                 PROVE  files'[f] \in 0 .. MaxTime /\ files'[f] \div DayLength = f[1]
      OBVIOUS
    <2>1. CASE f = active
      BY <1>2, <1>3, <1>5, <2>1
    <2>2. CASE f # active
      <3>1. f \in DOMAIN files /\ files'[f] = files[f]
        BY <1>1, <1>2, <1>4, <1>5, <1>6, <2>2 DEF Rotated
      <3> QED
        BY <3>1 DEF RollingInvariant, RollingTyped
    <2> QED
      BY <2>1, <2>2
  <1>10. Roomy(names, Today)
    <2>1. Elsewhere(names, d) = Elsewhere(old, d) /\ PartsOf(names, d) = PartsOf(old, d)
      BY <1>2, <1>4 DEF Elsewhere, PartsOf
    <2> QED
      BY <1>1, <1>2, <2>1 DEF Rotated, Roomy
  <1> QED
    BY <1>1, <1>5, <1>7, <1>8, <1>9, <1>10, NewFilesKeep DEF Rotated

\* What a split does to what the cleanup has left, each part of it by its name.
SplitOf(old, left, d, active, part, parts, names) ==
  /\ d = Today /\ active = <<d, 0>> /\ part = <<d, time + 1>> /\ old = DOMAIN left
  /\ active \in old /\ part \notin old
  /\ parts = PartsOf(old, d) \union {part}
  /\ names = (old \union {part}) \ Surplus(parts)
  /\ DOMAIN files' = names
  /\ \A f \in names : files'[f] = IF f = active THEN time
                                  ELSE IF f = part THEN left[active] ELSE left[f]

\* A split is one.
LEMMA SplitIs ==
  ASSUME NEW left, Split(left)
  PROVE  \E old, d, active, part, parts, names : SplitOf(old, left, d, active, part, parts, names)
  <1>1. PICK old, d, active, part :
          d = Today /\ active = <<d, 0>> /\ part = <<d, time + 1>> /\ old = DOMAIN left
    OBVIOUS
  <1>2. PICK parts : parts = PartsOf(old, d) \union {part}
    OBVIOUS
  <1>3. PICK names : names = (old \union {part}) \ Surplus(parts)
    OBVIOUS
  <1>4. parts = Parts(left) \union {part}
    BY <1>1, <1>2 DEF Parts, PartsOf
  <1>5. SplitOf(old, left, d, active, part, parts, names)
    BY <1>1, <1>2, <1>3, <1>4 DEF Split, Surplus, SplitOf
  <1> QED
    BY <1>5

\* A line that splits the full file adds a part, and lumberjack removes the
\* surplus.
LEMMA SplitKeeps ==
  ASSUME RollingInvariant, NEW r \in rotateIfNeeded, Split(r.left),
         cleaned' = r.on, writer' = Today, time' = time, back' = back
  PROVE  RollingInvariant'
  <1>1. Rotated(r)
    BY RotatedKeeps
  <1>2. PICK old, d, active, part, parts, names : SplitOf(old, r.left, d, active, part, parts, names)
    BY SplitIs
  <1>3. parts = PartsOf(old, d) \union {part}
    BY <1>2 DEF SplitOf
  <1>4. d = Today /\ active = <<d, 0>> /\ part = <<d, time + 1>> /\ old = DOMAIN r.left
    BY <1>2 DEF SplitOf
  <1>5. names = (old \union {part}) \ Surplus(parts)
    BY <1>2 DEF SplitOf
  <1>6. /\ active \in old /\ part \notin old
        /\ DOMAIN files' = names
        /\ \A f \in names : files'[f] = IF f = active THEN time
                                        ELSE IF f = part THEN r.left[active] ELSE r.left[f]
    BY <1>2 DEF SplitOf
  <1>7. d \in Day /\ time \in 0 .. MaxTime /\ d = time \div DayLength /\ time + 1 \in Nat /\ time + 1 > 0
    BY <1>4, TodayIsADay, Days DEF RollingInvariant, RollingTyped, Today
  <1>8. IsFiniteSet(DOMAIN files) /\ old \in SUBSET DOMAIN files /\ DOMAIN files \subseteq Day \X Nat
    BY <1>1, <1>4 DEF Rotated, RollingInvariant, RollingTyped
  <1>9. IsFiniteSet(old) /\ IsFiniteSet(old \union {part})
    BY <1>8, FS_Subset, FS_AddElement
  <1>10. names \in SUBSET (old \union {part}) /\ IsFiniteSet(names)
    BY <1>5, <1>9, FS_Subset
  <1>11. names \subseteq Day \X Nat
    BY <1>4, <1>7, <1>8, <1>10
  <1>12. \A f \in names : files'[f] \in 0 .. MaxTime /\ files'[f] \div DayLength = f[1]
    <2> SUFFICES ASSUME NEW f \in names
                 PROVE  files'[f] \in 0 .. MaxTime /\ files'[f] \div DayLength = f[1]
      OBVIOUS
    <2>1. \A g \in old : r.left[g] \in 0 .. MaxTime /\ r.left[g] \div DayLength = g[1]
      BY <1>1, <1>4, <1>8 DEF Rotated, RollingInvariant, RollingTyped
    <2>2. CASE f = active
      BY <1>4, <1>6, <1>7, <2>2
    <2>3. CASE f # active /\ f = part
      BY <1>4, <1>6, <2>1, <2>3
    <2>4. CASE f # active /\ f # part
      BY <1>6, <1>10, <2>1, <2>4
    <2> QED
      BY <2>2, <2>3, <2>4
  <1>13. Roomy(names, Today)
    <2>1. parts \subseteq {d} \X Nat /\ parts \in SUBSET (old \union {part})
      BY <1>4, <1>3, <1>7, <1>8 DEF PartsOf
    <2>2. PICK kept : kept = parts \ Surplus(parts)
      OBVIOUS
    <2>3. MaxBackups > 0 => Cardinality(kept) <= MaxBackups
      BY <1>9, <2>1, <2>2, LatestParts, FS_Subset
    <2>4. Surplus(parts) \subseteq parts
      BY <2>2 DEF Surplus
    <2>5. \A f \in parts : f[1] = d /\ f[2] > 0
      BY <1>4, <1>3, <1>7 DEF PartsOf
    <2>6. PartsOf(names, d) = kept
      BY <1>3, <1>5, <2>2, <2>4, <2>5 DEF PartsOf
    <2>7. Elsewhere(names, d) = Elsewhere(old, d)
      BY <1>4, <1>5, <2>4, <2>5 DEF Elsewhere
    <2> QED
      BY <1>1, <1>4, <2>3, <2>6, <2>7 DEF Rotated, Roomy
  <1> QED
    BY <1>1, <1>6, <1>10, <1>11, <1>12, <1>13, NewFilesKeep DEF Rotated

\* A step that leaves the files alone, and forgets at most the writer and the
\* cleanup.
LEMMA SameFiles ==
  ASSUME RollingInvariant, files' = files, time' \in 0 .. MaxTime, back' \in 0 .. MaxBack,
         writer' \in {writer, NoDay}, cleaned' \in {cleaned, NoDay},
         writer' # NoDay => cleaned' = cleaned
  PROVE  RollingInvariant'
  <1>1. RollingTyped'
    BY DEF RollingInvariant, RollingTyped
  <1> QED
    BY <1>1 DEF RollingInvariant, FilesAreBounded

\* A process starts: a cleanup and no line.
LEMMA NewWriterKeeps ==
  ASSUME RollingInvariant, NewWriter
  PROVE  RollingInvariant'
  <1>1. PICK r \in rotateIfNeeded : cleaned' = r.on /\ files' = r.left
    BY DEF NewWriter
  <1>2. Rotated(r)
    BY RotatedKeeps
  <1>3. PICK names : names = DOMAIN r.left
    OBVIOUS
  <1>4. /\ names \in SUBSET DOMAIN files /\ IsFiniteSet(names) /\ names \subseteq Day \X Nat
        /\ DOMAIN files' = names /\ Roomy(names, Today)
    BY <1>1, <1>2, <1>3, FS_Subset DEF Rotated, RollingInvariant, RollingTyped
  <1>5. \A f \in names : files'[f] \in 0 .. MaxTime /\ files'[f] \div DayLength = f[1]
    BY <1>1, <1>2, <1>3 DEF Rotated, RollingInvariant, RollingTyped
  <1>6. cleaned' = Today /\ writer' = Today /\ time' = time /\ back' = back
    BY <1>1, <1>2 DEF Rotated, NewWriter
  <1> QED
    BY <1>4, <1>5, <1>6, NewFilesKeep

\* All steps keep the invariant.
LEMMA RollingNextKeeps == RollingInvariant /\ [RollingNext]_logVars => RollingInvariant'
  <1> SUFFICES ASSUME RollingInvariant, [RollingNext]_logVars
               PROVE  RollingInvariant'
    OBVIOUS
  <1>1. /\ time \in 0 .. MaxTime /\ back \in 0 .. MaxBack /\ MaxTime \in Nat /\ MaxBack \in Nat
        /\ writer # NoDay => cleaned = writer
    BY RollingAssumption DEF RollingInvariant, RollingTyped
  <1>2. CASE Write
    <2>1. PICK r \in rotateIfNeeded : cleaned' = r.on /\ (Append(r.left) \/ Split(r.left))
      BY <1>2 DEF Write
    <2>2. writer' = Today /\ time' = time /\ back' = back
      BY <1>2 DEF Write
    <2> QED
      BY <2>1, <2>2, AppendKeeps, SplitKeeps
  <1>3. CASE NewWriter
    BY <1>3, NewWriterKeeps
  <1>4. CASE Close
    BY <1>1, <1>4, SameFiles DEF Close
  <1>5. CASE Killed
    BY <1>1, <1>5, SameFiles DEF Killed
  <1>6. CASE Tick
    BY <1>1, <1>6, SameFiles DEF Tick
  <1>7. CASE SetBack
    BY <1>1, <1>7, SameFiles DEF SetBack
  <1>8. CASE UNCHANGED logVars
    BY <1>1, <1>8, SameFiles DEF logVars
  <1> QED
    BY <1>2, <1>3, <1>4, <1>5, <1>6, <1>7, <1>8 DEF RollingNext

\* An empty directory.
LEMMA RollingInitHolds == RollingInit => RollingInvariant
  <1> SUFFICES ASSUME RollingInit
               PROVE  RollingInvariant
    OBVIOUS
  <1>1. DOMAIN files = {}
    BY DEF RollingInit
  <1>2. IsFiniteSet(DOMAIN files) /\ Cardinality(DOMAIN files) = 0
    BY <1>1, FS_EmptySet
  <1>3. MaxTime \in Nat /\ MaxBack \in Nat /\ MaxBackups \in Nat
    BY RollingAssumption
  <1> QED
    BY <1>1, <1>2, <1>3 DEF RollingInit, RollingInvariant, RollingTyped, FilesAreBounded

\* For any options and any clock that is set back any number of times, every
\* cleanup (cleanupOldFiles) leaves room for what lumberjack may add before the
\* next one.
THEOREM RollingHolds == RollingSpec => []RollingInvariant
  BY RollingInitHolds, RollingNextKeeps, PTL DEF RollingSpec

\* Every file belongs to a day, and a process that writes has cleaned up on the
\* day it opened (rotateIfNeeded).
THEOREM RollingTypesHold == RollingSpec => []RollingTypeOK
  <1>1. RollingInvariant => RollingTypeOK
    BY DEF RollingInvariant, RollingTyped, RollingTypeOK
  <1> QED
    BY <1>1, RollingHolds, PTL

\* The directory never holds more than what a cleanup keeps, the active file and
\* its parts (cleanupOldFiles), for any limit MaxBackups, restarts and clocks.
THEOREM FilesStayBounded == RollingSpec => []FilesAreBounded
  <1>1. RollingInvariant => FilesAreBounded
    BY DEF RollingInvariant
  <1> QED
    BY <1>1, RollingHolds, PTL

-----------------------------------------------------------------------------

\* When the cleanup removes an active file and keeps another one of its age, the
\* write that follows leaves that one as it is.
LEMMA KeptAsItWas ==
  ASSUME RollingInvariant, NEW r \in rotateIfNeeded, Append(r.left) \/ Split(r.left),
         NEW f \in DOMAIN files, f \notin DOMAIN r.left, f[2] = 0,
         NEW g \in DOMAIN r.left, files[g] = files[f]
  PROVE  g \in DOMAIN files' /\ files'[g] = files[f]
  <1>1. Rotated(r)
    BY RotatedKeeps
  <1>3. g \in DOMAIN files /\ r.left[g] = files[f] /\ g # f /\ g \in Day \X Nat /\ f \in Day \X Nat
    BY <1>1 DEF Rotated, RollingInvariant, RollingTyped
  <1>4. f[1] = g[1]
    BY <1>3 DEF RollingInvariant, RollingTyped
  <1>5. g # <<Today, 0>>
    <2>1. f = <<f[1], f[2]>> /\ g = <<g[1], g[2]>>
      BY <1>3
    <2> QED
      BY <1>3, <1>4, <2>1
  <1>6. CASE Append(r.left)
    BY <1>3, <1>5, <1>6 DEF Append
  <1>7. CASE Split(r.left)
    <2>1. PICK old, d, active, part, parts, names : SplitOf(old, r.left, d, active, part, parts, names)
      BY <1>7, SplitIs
    <2>2. g # active
      BY <1>5, <2>1 DEF SplitOf
    <2>3. g[1] # d
      BY <1>3, <1>4, <2>1 DEF SplitOf
    <2>4. g \notin parts
      BY <2>1, <2>3 DEF SplitOf, PartsOf
    <2>5. g \in names /\ g # part
      BY <2>1, <2>4 DEF SplitOf, Surplus
    <2> QED
      BY <1>3, <2>1, <2>2, <2>5 DEF SplitOf
  <1> QED
    BY <1>6, <1>7

\* A step that drops an active file does it in the cleanup.
LEMMA DroppedByCleanup ==
  ASSUME RollingInvariant, NEW r \in rotateIfNeeded, Append(r.left) \/ Split(r.left),
         NEW f \in DOMAIN files, f \notin DOMAIN files', f[2] = 0
  PROVE  f \notin DOMAIN r.left
  <1> SUFFICES ASSUME f \in DOMAIN r.left
               PROVE  FALSE
    OBVIOUS
  <1>1. CASE Append(r.left)
    BY <1>1 DEF Append
  <1>2. CASE Split(r.left)
    <2>1. PICK old, d, active, part, parts, names : SplitOf(old, r.left, d, active, part, parts, names)
      BY <1>2, SplitIs
    <2>2. f \notin parts
      BY <2>1, Days DEF SplitOf, PartsOf, RollingInvariant, RollingTyped
    <2> QED
      BY <2>1, <2>2 DEF SplitOf, Surplus
  <1> QED
    BY <1>1, <1>2

\* No cleanup (cleanupOldFiles) and no split takes the file that was written
\* last unless it is too old or another one is as young.
THEOREM LatestLinesStay == RollingSpec => LatestLinesAreKept
  <1>1. ASSUME RollingInvariant, [RollingNext]_logVars, NEW f \in DOMAIN files, f \notin DOMAIN files',
               f[2] = 0, \A g \in DOMAIN files : files[g] <= files[f]
        PROVE  \/ TooOld(f)
               \/ \E g \in DOMAIN files' : files'[g] >= files[f]
    <2>1. \A g \in DOMAIN files : files[g] \in Nat
      BY <1>1 DEF RollingInvariant, RollingTyped
    <2>2. CASE Write
      <3>1. PICK r \in rotateIfNeeded : Append(r.left) \/ Split(r.left)
        BY <2>2 DEF Write
      <3>2. Rotated(r) /\ f \notin DOMAIN r.left
        BY <1>1, <3>1, RotatedKeeps, DroppedByCleanup
      <3>3. ASSUME NEW g \in DOMAIN r.left, files[g] >= files[f]
            PROVE  \E h \in DOMAIN files' : files'[h] >= files[f]
        <4>1. files[g] = files[f]
          BY <1>1, <2>1, <3>2, <3>3 DEF Rotated
        <4>2. g \in DOMAIN files' /\ files'[g] = files[f]
          BY <1>1, <3>1, <3>2, <4>1, KeptAsItWas
        <4> QED
          BY <1>1, <2>1, <4>2
      <3> QED
        BY <1>1, <3>2, <3>3 DEF Rotated
    <2>3. CASE NewWriter
      <3>1. PICK r \in rotateIfNeeded : files' = r.left
        BY <2>3 DEF NewWriter
      <3>2. Rotated(r)
        BY <1>1, RotatedKeeps
      <3> QED
        BY <1>1, <3>1, <3>2 DEF Rotated
    <2>4. CASE UNCHANGED files
      BY <1>1, <2>4
    <2> QED
      BY <1>1, <2>2, <2>3, <2>4 DEF RollingNext, logVars, Close, Killed, Tick, SetBack
  <1>2. RollingInvariant /\ [RollingNext]_logVars =>
          [\A f \in DOMAIN files \ DOMAIN files' :
             f[2] = 0 /\ (\A g \in DOMAIN files : files[g] <= files[f]) =>
               \/ TooOld(f)
               \/ \E g \in DOMAIN files' : files'[g] >= files[f]]_logVars
    BY <1>1
  <1> QED
    BY <1>2, RollingHolds, PTL DEF RollingSpec, LatestLinesAreKept
===============================================================================
