------------------------------ MODULE Producers ------------------------------
(***************************************************************************)
(* The three producers of this repository, one after the other: `part`     *)
(* says which of them a behaviour is of.  The command line and the MCP     *)
(* server share the bundle of schemas; the SDK has its own.                *)
(***************************************************************************)
EXTENDS PublishCommand

CONSTANTS
  Calls, DedupeKeys,  \* of McpServer
  Docs, Dir, MaxFiles, MaxEdits  \* of SdkCore

VARIABLES
  part,
  mcpConfig, mcpRegistry, mcpChanges, mcpStored, mcpPc, mcpArgs, mcpResponse, mcpResult,
  mcpLacked,
  sdkFiles, sdkEdits, sdkStep, sdkUnlisted, sdkUnread, sdkGot, sdkParsed, sdkSnapshot,
  sdkReplica

mcpVars == <<mcpConfig, mcpRegistry, mcpChanges, mcpStored, mcpPc, mcpArgs, mcpResponse,
             mcpResult, mcpLacked>>

sdkVars == <<sdkFiles, sdkEdits, sdkStep, sdkUnlisted, sdkUnread, sdkGot, sdkParsed,
             sdkSnapshot, sdkReplica>>

Mcp == INSTANCE McpServer WITH
  config <- mcpConfig, registry <- mcpRegistry, changes <- mcpChanges, stored <- mcpStored,
  pc <- mcpPc, args <- mcpArgs, response <- mcpResponse, result <- mcpResult, lacked <- mcpLacked

Sdk == INSTANCE SdkCore WITH
  files <- sdkFiles, edits <- sdkEdits, step <- sdkStep, unlisted <- sdkUnlisted,
  unread <- sdkUnread, got <- sdkGot, parsed <- sdkParsed, snapshot <- sdkSnapshot,
  replica <- sdkReplica

(* No call and no key is taken for none.                                   *)
ASSUME CallsAssumption == "none" \notin Calls \cup DedupeKeys

(* readNoTicketsDir returns the files of the top directory first, and then *)
(* those of each sub-directory.                                            *)
ASSUME DocsAssumption ==
  /\ MaxFiles \in Nat /\ MaxEdits \in Nat
  /\ \A n \in 1..MaxFiles : Docs[n] \subseteq Sdk!Doc
  /\ Dir \in [1..MaxFiles -> Nat]
  /\ \A m, n \in 1..MaxFiles : m < n => Dir[m] <= Dir[n]

allVars == <<part, vars, mcpVars, sdkVars>>

AllInit ==
  /\ part \in {"cli", "mcp", "sdk"}
  /\ Init /\ Mcp!Init /\ Sdk!Init

Cli(A) == part = "cli" /\ A /\ UNCHANGED <<part, mcpVars, sdkVars>>

McpOnly(A) == part = "mcp" /\ A /\ UNCHANGED <<part, vars, sdkVars>>

SdkOnly(A) == part = "sdk" /\ A /\ UNCHANGED <<part, vars, mcpVars>>

AllNext ==
  \/ Cli(Dispatch)
  \/ Cli(ReadInput)
  \/ Cli(InputFails)
  \/ Cli(MachineHash)
  \/ Cli(MachineHashFails)
  \/ Cli(BuildSource)
  \/ Cli(BuildEnvelopes)
  \/ Cli(ResolveUrls)
  \/ Cli(ResolvePublishToken)
  \/ Cli(ResolveActor)
  \/ Cli(ClientFails)
  \/ Cli(Post)
  \/ \E p \in Projects, t \in Tokens \cup {"none"} : Cli(TokenChanges(p, t))
  \/ \E s \in {"none", "live", "expired"} : Cli(SessionChanges(s))
  \/ Cli(AlternateExpires)
  \/ \E h \in {"none", "prod", "staging"} : Cli(LoginChanges(h))
  \/ \E c \in Calls, a \in Mcp!Args : McpOnly(Mcp!Call(c, a))
  \/ \E c \in Calls : McpOnly(Mcp!Return(c))
  \/ \E c \in Calls : McpOnly(Mcp!TransportFails(c))
  \/ \E c \in Calls : McpOnly(Mcp!Ingest(c))
  \/ \E c \in Calls : McpOnly(Mcp!Describe(c))
  \/ \E c \in Calls : McpOnly(Mcp!Fails(c))
  \/ \E t \in Types, spec \in Mcp!Specs : McpOnly(Mcp!RegistryChanges(t, spec))
  \/ \E n \in Sdk!Names : \E d \in Docs[n] \cup {Sdk!NoFile} : SdkOnly(Sdk!Edit(n, d))
  \/ SdkOnly(Sdk!List)
  \/ \E dir \in Sdk!SubDirs : SdkOnly(Sdk!ListSub(dir))
  \/ \E n \in Sdk!Names : SdkOnly(Sdk!ReadFile(n))
  \/ \E n \in Sdk!Names : SdkOnly(Sdk!ReadFileFails(n))
  \/ SdkOnly(Sdk!Push)
  \/ SdkOnly(Sdk!PushFails)

AllSpec == AllInit /\ [][AllNext]_allVars

-----------------------------------------------------------------------------

(* The type invariants of the three.                                       *)
TypesOK == TypeOK /\ Mcp!TypeOK /\ Sdk!TypeOK

(* The MCP server: what it reports as published is stored, with the        *)
(* payload of the call unless an earlier call had its key.                 *)
PublishedIsStored == Mcp!PublishedIsStored

(* The MCP server: a call that ends in invalid_params leaves no event, and *)
(* a configured server blames nothing but the arguments.                   *)
InvalidParamsIsTheAgents == Mcp!InvalidParamsIsTheAgents

(* The SDK: what the validator accepts, the snapshot holds completely.     *)
ValidIsComplete == Sdk!ValidIsComplete

(* The SDK: the deltas add up to the last snapshot, but for epics.         *)
DeltasAddUp == Sdk!DeltasAddUp

(* The SDK: a task is completed by its own section only.                   *)
TasksAreOwn == Sdk!TasksAreOwn

(* The SDK: progress does not fall back.                                   *)
ProgressAdvances == Sdk!ProgressAdvances
==============================================================================
