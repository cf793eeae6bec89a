------------------------------ MODULE MCStartup ------------------------------
(* Small sets of servers and imports over one data directory. *)
EXTENDS Startup

\* Secrets from files, one process starting at a time, one port for all.
Files ==
  [tokenFromEnv |-> FALSE, keyFromEnv |-> FALSE, initOwner |-> TRUE,
   sharedPort |-> TRUE, processes |-> Proc, overlap |-> FALSE]
\* The token from the environment, processes that start together.
Together(processes) ==
  [tokenFromEnv |-> TRUE, keyFromEnv |-> FALSE, initOwner |-> TRUE,
   sharedPort |-> FALSE, processes |-> processes, overlap |-> TRUE]

OnlyFiles == {Files}
OnlyTogether == {Together(Proc)}

CONSTANT s1
Mixed == {Files, [Files EXCEPT !.keyFromEnv = TRUE, !.initOwner = FALSE],
          Together(Server), Together({s1} \union Importer)}
=============================================================================
