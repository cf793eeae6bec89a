------------------------------- MODULE Startup -------------------------------
(****************************************************************************)
(* How a Control process comes up: run in cmd/nexus-control.  Every         *)
(* process, a server or an import command, prepares the service token,      *)
(* opens and migrates the database, loads the signing key and writes the    *)
(* public key; a server then initialises the owner and binds its port.      *)
(* Processes share the data directory and the database, may be killed or    *)
(* fail at any step, and servers are started again by their supervisor.  A  *)
(* server that serves may also be told to stop (internal/app/server).       *)
(*                                                                          *)
(* A file is written with os.WriteFile: it is opened and truncated first    *)
(* and filled by a second call, so a process that dies in between (or finds *)
(* the disk full) leaves an empty file.  Secrets are random: every          *)
(* generated one is new.                                                    *)
(****************************************************************************)
EXTENDS Naturals

CONSTANTS Server, Importer,   \* processes that serve, that run an import
          Environments,       \* the deployments looked at
          Latest,             \* number of the last migration
          MaxSecret, MaxCrash \* bounds: secrets generated, processes killed or stopped

\* How the processes of a deployment are configured and started.
Environment ==
  [tokenFromEnv : BOOLEAN,  \* CONTROL_SERVICE_TOKEN is set
   keyFromEnv : BOOLEAN,    \* CONTROL_SIGNING_PRIVATE_KEY is set
   initOwner : BOOLEAN,     \* AUTH_INIT_OWNER_PASSWORD is set
   sharedPort : BOOLEAN,    \* the servers have one CONTROL_ADDRESS
   processes : SUBSET (Server \union Importer),  \* those that are ever started
   overlap : BOOLEAN]       \* they may start at the same time

ASSUME StartupAssumption ==
  /\ Server \intersect Importer = {}
  /\ Environments \subseteq Environment
  /\ {Latest, MaxSecret, MaxCrash} \subseteq Nat

VARIABLES env,     \* the environment of this deployment
          pc,      \* where a process is in run, "off" when it does not run
          mem,     \* what it has read: token, key and schema version
          file,    \* the data directory
          schema,  \* migrations applied
          setUp,   \* there is an active member (State.SetupRequired is false)
          open,    \* servers with a request that is not answered yet
          drawn,   \* secrets generated so far; Given is the configured one
          crashes  \* processes killed or stopped so far

others == <<env, open, crashes>>
data == <<file, schema, setUp, drawn>>
startVars == <<env, pc, mem, data, open, crashes>>

Proc == Server \union Importer

Absent == 0
Empty == 1
Given == 2
Secret == Given .. MaxSecret

Stage == {"off", "token", "newToken", "tokenOpen", "migrate", "apply", "key",
          "newKey", "keyOpen", "pub", "pubOpen", "command", "setup", "listen",
          "serving", "stopping", "overdue"}

StartupTypeOK ==
  /\ pc \in [Proc -> Stage]
  /\ mem \in [Proc -> [token : Secret \union {Absent}, key : Secret \union {Absent},
                       version : 0 .. Latest]]
  /\ file \in [{"token", "key", "pub"} -> Secret \union {Absent, Empty}]
  /\ schema \in 0 .. Latest
  /\ setUp \in BOOLEAN
  /\ open \subseteq Server
  /\ drawn \in Secret
  /\ crashes \in 0 .. MaxCrash

Fresh == [token |-> Absent, key |-> Absent, version |-> 0]

StartupInit ==
  /\ env \in Environments
  /\ pc = [p \in Proc |-> "off"]
  /\ mem = [p \in Proc |-> Fresh]
  /\ file = [f \in {"token", "key", "pub"} |-> Absent]
  /\ schema = 0
  /\ setUp = FALSE
  /\ open = {}
  /\ drawn = Given
  /\ crashes = 0

-----------------------------------------------------------------------------
(* Steps of a process. *)

Goto(p, stage) == pc' = [pc EXCEPT ![p] = stage]

\* run returned an error, or the command is done: the memory is gone.
Exit(p) == Goto(p, "off") /\ mem' = [mem EXCEPT ![p] = Fresh]

Keep(p, field, value) == mem' = [mem EXCEPT ![p][field] = value]

\* os.WriteFile, first half and second half.
Truncate(f) == file' = [file EXCEPT ![f] = Empty]
Fill(f, value) == file' = [file EXCEPT ![f] = value]

Generate(p, field) ==
  /\ drawn < MaxSecret
  /\ drawn' = drawn + 1
  /\ Keep(p, field, drawn + 1)

Starting == {p \in Proc : pc[p] \notin {"off", "serving"}}

Start(p) ==
  /\ pc[p] = "off" /\ p \in env.processes
  /\ env.overlap \/ Starting = {}
  /\ Goto(p, "token")
  /\ UNCHANGED <<mem, data, others>>

-----------------------------------------------------------------------------
(* PrepareServiceToken and Validate. *)

\* At least 32 characters.
Validate(token) == token # Empty

\* A file that is there is taken as it is; Validate then looks at the token.
ReadToken(p) ==
  /\ pc[p] = "token"
  /\ LET token == IF env.tokenFromEnv THEN Given ELSE file.token
     IN \/ token = Absent /\ Goto(p, "newToken") /\ UNCHANGED mem
        \/ token # Absent /\ Validate(token) /\ Goto(p, "migrate") /\ Keep(p, "token", token)
        \/ ~Validate(token) /\ Exit(p)
  /\ UNCHANGED <<data, others>>

GenerateToken(p) ==
  /\ pc[p] = "newToken"
  /\ Generate(p, "token")
  /\ Truncate("token")
  /\ Goto(p, "tokenOpen")
  /\ UNCHANGED <<schema, setUp, others>>

WriteToken(p) ==
  /\ pc[p] = "tokenOpen"
  /\ Fill("token", mem[p].token)
  /\ Goto(p, "migrate")
  /\ UNCHANGED <<mem, schema, setUp, drawn, others>>

-----------------------------------------------------------------------------
(* storage.Open. *)

\* The pending migrations are listed once.
ReadSchema(p) ==
  /\ pc[p] = "migrate"
  /\ Keep(p, "version", schema)
  /\ Goto(p, IF schema = Latest THEN "key" ELSE "apply")
  /\ UNCHANGED <<data, others>>

\* Seeded fault: a migration that somebody else has applied is applied again.
Apply_again(p) ==
  /\ pc[p] = "apply"
  /\ schema' = schema + 1
  /\ Keep(p, "version", mem[p].version + 1)
  /\ Goto(p, IF mem[p].version + 1 = Latest THEN "key" ELSE "apply")
  /\ UNCHANGED <<file, setUp, drawn, others>>

\* Each is a transaction of its own; there is no lock around them, and one that
\* another process has applied meanwhile fails on the tables it finds.
Apply(p) ==
  /\ pc[p] = "apply"
  /\ \/ /\ mem[p].version = schema
        /\ schema' = schema + 1
        /\ Keep(p, "version", schema + 1)
        /\ Goto(p, IF schema + 1 = Latest THEN "key" ELSE "apply")
     \/ /\ mem[p].version # schema
        /\ Exit(p)
        /\ UNCHANGED schema
  /\ UNCHANGED <<file, setUp, drawn, others>>

-----------------------------------------------------------------------------
(* LoadSigner. *)

\* Seeded fault: only a missing file is generated, an empty one is refused.
ReadKey_strict(p) ==
  /\ pc[p] = "key"
  /\ LET key == IF env.keyFromEnv THEN Given ELSE file.key
     IN \/ key = Empty /\ Exit(p)
        \/ key = Absent /\ Goto(p, "newKey") /\ UNCHANGED mem
        \/ key \in Secret /\ Goto(p, "pub") /\ Keep(p, "key", key)
  /\ UNCHANGED <<data, others>>

\* Seeded fault: an incomplete pair is generated again.
ReadKey_pair(p) ==
  /\ pc[p] = "key"
  /\ LET key == IF env.keyFromEnv THEN Given ELSE file.key
     IN \/ /\ key \in {Absent, Empty} \/ file.pub = Empty
           /\ Goto(p, "newKey") /\ UNCHANGED mem
        \/ key \in Secret /\ file.pub # Empty /\ Goto(p, "pub") /\ Keep(p, "key", key)
  /\ UNCHANGED <<data, others>>

\* A missing and an empty file are the same.
ReadKey(p) ==
  /\ pc[p] = "key"
  /\ LET key == IF env.keyFromEnv THEN Given ELSE file.key
     IN \/ key \in {Absent, Empty} /\ Goto(p, "newKey") /\ UNCHANGED mem
        \/ key \in Secret /\ Goto(p, "pub") /\ Keep(p, "key", key)
  /\ UNCHANGED <<data, others>>

GenerateKey(p) ==
  /\ pc[p] = "newKey"
  /\ Generate(p, "key")
  /\ Truncate("key")
  /\ Goto(p, "keyOpen")
  /\ UNCHANGED <<schema, setUp, others>>

\* writeSecret
WriteKey(p) ==
  /\ pc[p] = "keyOpen"
  /\ Fill("key", mem[p].key)
  /\ Goto(p, "pub")
  /\ UNCHANGED <<mem, schema, setUp, drawn, others>>

\* writePublic: at every start.
OpenPublic(p) ==
  /\ pc[p] = "pub"
  /\ Truncate("pub")
  /\ Goto(p, "pubOpen")
  /\ UNCHANGED <<mem, schema, setUp, drawn, others>>

WritePublic(p) ==
  /\ pc[p] = "pubOpen"
  /\ Fill("pub", mem[p].key)
  /\ Goto(p, "command")
  /\ UNCHANGED <<mem, schema, setUp, drawn, others>>

-----------------------------------------------------------------------------
(* The command. *)

\* An import that succeeds leaves accounts, one that fails leaves nothing.
Import(p) ==
  /\ pc[p] = "command" /\ p \in Importer
  /\ setUp' \in {setUp, TRUE}
  /\ Exit(p)
  /\ UNCHANGED <<file, schema, drawn, others>>

\* initializeOwner reads the state first ...
InitializeOwner(p) ==
  /\ pc[p] = "command" /\ p \in Server
  /\ Goto(p, IF env.initOwner /\ ~setUp THEN "setup" ELSE "listen")
  /\ UNCHANGED <<mem, data, others>>

\* ... and gives up with the process when somebody was faster.
SetupOwner(p) ==
  /\ pc[p] = "setup"
  /\ IF setUp THEN Exit(p) ELSE Goto(p, "listen") /\ UNCHANGED mem
  /\ setUp' = TRUE
  /\ UNCHANGED <<file, schema, drawn, others>>

\* ListenAndServe fails on an address in use.
Listen(p) ==
  /\ pc[p] = "listen"
  /\ IF env.sharedPort /\ \E q \in Server : pc[q] = "serving"
     THEN Exit(p)
     ELSE Goto(p, "serving") /\ UNCHANGED mem
  /\ UNCHANGED <<data, others>>

\* The setup form, through a server that runs.
SetupForm(p) ==
  /\ pc[p] = "serving" /\ ~setUp
  /\ setUp' = TRUE
  /\ UNCHANGED <<pc, mem, file, schema, drawn, others>>

-----------------------------------------------------------------------------
(* Requests and the end of a server. *)

Accept(p) ==
  /\ pc[p] = "serving" /\ p \notin open
  /\ open' = open \union {p}
  /\ UNCHANGED <<env, pc, mem, data, crashes>>

Answer(p) ==
  /\ p \in open
  /\ open' = open \ {p}
  /\ UNCHANGED <<env, pc, mem, data, crashes>>

\* SIGTERM ends the context: Shutdown closes the listener, and waits for open
\* requests, in a goroutine of its own.
Signal(p) ==
  /\ pc[p] = "serving" /\ crashes < MaxCrash
  /\ crashes' = crashes + 1
  /\ Goto(p, "stopping")
  /\ UNCHANGED <<env, mem, data, open>>

\* The ten seconds are over.
Deadline(p) ==
  /\ pc[p] = "stopping"
  /\ Goto(p, "overdue")
  /\ UNCHANGED <<mem, data, others>>

\* The closed listener ends http.ListenAndServe, and with it ListenAndServe, run
\* and main, without a look at the goroutine: what is open is cut off.
Leave(p) ==
  /\ pc[p] \in {"stopping", "overdue"}
  /\ Exit(p)
  /\ open' = open \ {p}
  /\ UNCHANGED <<env, data, crashes>>

\* The process is killed, or a system call of its fails.
Crash(p) ==
  /\ pc[p] # "off" /\ crashes < MaxCrash
  /\ crashes' = crashes + 1
  /\ Exit(p)
  /\ open' = open \ {p}
  /\ UNCHANGED <<env, data>>

Step(p) ==
  \/ ReadToken(p) \/ GenerateToken(p) \/ WriteToken(p)
  \/ ReadSchema(p) \/ Apply(p)
  \/ ReadKey(p) \/ GenerateKey(p) \/ WriteKey(p)
  \/ OpenPublic(p) \/ WritePublic(p)
  \/ Import(p) \/ InitializeOwner(p) \/ SetupOwner(p) \/ Listen(p)
  \/ Leave(p)

StartupNext ==
  \/ \E p \in Proc : Start(p) \/ Step(p) \/ SetupForm(p) \/ Crash(p)
  \/ \E p \in Server : Accept(p) \/ Answer(p) \/ Signal(p) \/ Deadline(p)

\* A process goes on by itself, and the supervisor starts servers again; where
\* starts do not overlap, it gives each its turn.
StartupSpec ==
  /\ StartupInit /\ [][StartupNext]_startVars
  /\ \A p \in Proc : WF_startVars(Step(p))
  /\ \A p \in Server : SF_startVars(Start(p))

-----------------------------------------------------------------------------
(* Properties. *)

\* A server signs with the key in the data directory, so the tokens it has
\* signed stay valid over every restart, and the services that load the public
\* key never find the key of another pair (LoadSigner).
SharedSigningKey ==
  /\ \A p \in Server : pc[p] = "serving" /\ ~env.keyFromEnv => mem[p].key = file.key
  /\ \A p \in Server : pc[p] = "serving" => file.pub \in {Empty, mem[p].key}

\* So it is whatever is killed half way and started again next to servers that
\* serve, as long as no two processes start at the same time.
SigningKeyIsPersisted == ~env.overlap => SharedSigningKey

\* A process that serves has the whole schema under it, however many processes
\* migrated or died half way, and the owner that the environment asks for
\* (storage.Open, initializeOwner).
ServingIsReady ==
  \A p \in Server : pc[p] = "serving" =>
    schema = Latest /\ (env.initOwner => setUp)

\* Whatever was interrupted or stopped, a server that is started again comes up
\* in the end (run): losing the race for a migration or for the owner costs one
\* start, and what a killed process left in the data directory is no obstacle,
\* an empty token file excepted; so is a port that another server has.
EveryServerComesUp ==
  \A p \in Server :
    <>[](\/ p \notin env.processes
         \/ pc[p] = "serving"
         \/ file.token = Empty
         \/ env.sharedPort /\ \E q \in Server \ {p} : pc[q] = "serving")

\* The same without the exception.
EmptyTokenIsNoObstacle ==
  \A p \in Server : <>(p \notin env.processes \/ pc[p] = "serving")

\* A server that is told to stop leaves no request unanswered within the ten
\* seconds that it gives itself (ListenAndServe).
StopIsGraceful ==
  [][\A p \in Server : pc[p] = "stopping" /\ p \in open =>
       \/ pc'[p] # "off"
       \/ crashes' # crashes]_startVars
=============================================================================
