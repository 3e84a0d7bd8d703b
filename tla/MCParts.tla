------------------------------- MODULE MCParts -------------------------------
(***************************************************************************)
(* Instances for TLC of five parts that share no state: on an Agent's      *)
(* host its terminals, what its producers report, and its enrollment by    *)
(* the Manager beside it; on the Manager's the import of the configuration *)
(* file and the credential directory.  A behaviour is one of one part,     *)
(* which it keeps in `focus`, while the others rest in an initial state.   *)
(***************************************************************************)
EXTENDS AgentTerminals, AgentIngest, LocalBootstrap, ConfigImport, CredentialFiles

CONSTANT Parts  \* the parts that are run

VARIABLE focus

hostVars == <<terminalVars, ingestVars, bootstrapVars>>
partsVars == <<focus, hostVars, importVars, filesVars>>

PartsTypeOK ==
  /\ TerminalsTypeOK /\ IngestTypeOK /\ BootstrapTypeOK /\ ImportTypeOK /\ FilesTypeOK
  /\ focus \in Parts

\* Two reports for one time, an older one, and two more series; the last key
\* is a log source, which does not count as one.
Reports ==
  {[key |-> 1, observed |-> 1, ttl |-> 1, value |-> 0],
   [key |-> 1, observed |-> 2, ttl |-> 1, value |-> 0],
   [key |-> 1, observed |-> 2, ttl |-> 1, value |-> 1],
   [key |-> 2, observed |-> 1, ttl |-> 2, value |-> 0],
   [key |-> 3, observed |-> 1, ttl |-> 2, value |-> 0],
   [key |-> 4, observed |-> 1, ttl |-> 2, value |-> 0]}

Weight(i) == 4 * i.key + 2 * i.observed + i.value

\* Requests, connections and credentials are numbered, and used in their order.
PartsInit ==
  /\ focus \in Parts
  /\ TerminalsInit /\ IngestInit /\ BootstrapInit /\ ImportInit /\ FilesInit
  /\ \A r, q \in Reqs : r < q => Weight(req[r].input) <= Weight(req[q].input)
  /\ focus # "ingest" => \A r \in Reqs : req[r].input.key = 2
  /\ focus # "files" => \A w \in Writes : write[w].op = "put"

ConnsInOrder ==
  \A c, d \in Conns : c < d /\ conn[d].ticket # "none" => conn[c].ticket # "none"
CredsInOrder == used \in {{}, {"k1"}, {"k1", "k2"}, {"k1", "k2", "k3"}}

PartsNext ==
  \/ /\ focus = "terminals" /\ TerminalsNext /\ ConnsInOrder'
     /\ UNCHANGED <<focus, ingestVars, bootstrapVars, importVars, filesVars>>
  \/ /\ focus = "ingest" /\ IngestNext
     /\ UNCHANGED <<focus, terminalVars, bootstrapVars, importVars, filesVars>>
  \/ /\ focus = "bootstrap" /\ BootstrapNext /\ CredsInOrder'
     /\ UNCHANGED <<focus, terminalVars, ingestVars, importVars, filesVars>>
  \/ focus = "import" /\ ImportNext /\ UNCHANGED <<focus, hostVars, filesVars>>
  \/ focus = "files" /\ FilesNext /\ UNCHANGED <<focus, hostVars, importVars>>

PartsSpec == PartsInit /\ [][PartsNext]_partsVars
=============================================================================
