------------------------------ MODULE MCManager ------------------------------
(***************************************************************************)
(* Instances for TLC of three parts of the Manager that share no state:     *)
(* a behaviour is one of one part, which it keeps in `focus`, while the    *)
(* others rest in an initial state.                                        *)
(***************************************************************************)
EXTENDS TerminalGateway, Discovery, FleetProbes

CONSTANTS
  Parts,    \* the parts that are run
  MaxLoad   \* bound: events of the gateway

VARIABLE focus

managerVars ==
  <<focus, gatewayVars, discoveryVars, fleetVars>>

ManagerTypeOK ==
  /\ GatewayTypeOK /\ DiscoveryTypeOK /\ FleetTypeOK
  /\ focus \in Parts

\* Bound: all calls but the first ask for a connect token, and the enrolled Agent
\* has the first instance.
First(S) == CHOOSE x \in S : TRUE
ManagerInit ==
  /\ focus \in Parts
  /\ GatewayInit /\ DiscoveryInit /\ FleetInit
  /\ \A c \in Calls :
       c # 1 \/ focus # "gateway" => call[c].route = TokenRoute
  /\ focus # "gateway" => \A a \in Agents : record[a].enabled
  /\ \A a \in FleetAgents : fleet[a].inst \in {NoInstance, First(Instances)}

\* Bound: so many requests, new revisions, removals and restarts in all, where a
\* call that asks for no token counts twice; calls and sessions, which are
\* numbers, begin in their order, and only the request of the first call and of
\* the first session may fail before it leaves.
GatewayLoad ==
  /\ \A c, d \in Calls : c < d /\ call[d].pc # "new" => call[c].pc # "new"
  /\ \A s, t \in Socks : s < t /\ sock[t].pc # "new" => sock[s].pc # "new"
  /\ Cardinality({c \in Calls : call[c].pc # "new"})
     + Cardinality({c \in Calls : call[c].pc # "new" /\ call[c].route # TokenRoute})
     + Cardinality({s \in Socks : sock[s].pc # "new"})
     + Cardinality({a \in Agents : record[a].rev > 1})
     + Cardinality({a \in Agents : removal[a] # "none"})
     + restarts <= MaxLoad
  /\ \A c \in Calls : c > 1 /\ call[c].pc = "send" => "op" \in sent[c]
  /\ \A s \in Socks : s > 11 /\ sock[s].pc = "connect" => "op" \in sent[s]
  /\ \A c \in Calls : c > 2 /\ call[c].pc # "new" =>
       /\ call[1].route = TokenRoute /\ \E s \in Socks : sock[s].pc # "new"
       /\ restarts = 0 /\ \A a \in Agents : record[a].rev = 1 /\ removal[a] = "none"

GatewayPart(A) ==
  focus = "gateway" /\ A /\ GatewayLoad'
    /\ UNCHANGED <<focus, discoveryVars, fleetVars>>
DiscoveryPart(A) ==
  focus = "discovery" /\ A
    /\ UNCHANGED <<focus, gatewayVars, fleetVars>>

ManagerNext ==
  \/ GatewayPart(GatewayNext)
  \/ DiscoveryPart(DiscoveryNext)
  \/ /\ focus = "fleet" /\ FleetNext
     /\ UNCHANGED <<focus, gatewayVars, discoveryVars>>

\* The poll of a session's Agent record, and the progress of discovery jobs.
ManagerSpec ==
  /\ ManagerInit /\ [][ManagerNext]_managerVars
  /\ \A s \in Socks : WF_managerVars(GatewayPart(Watch(s)))
  /\ WF_managerVars(DiscoveryPart(DiscoveryProgress))
=============================================================================
