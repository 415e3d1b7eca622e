--------------------------- MODULE PublishCommand ---------------------------
(***************************************************************************)
(* `no-tickets publish` up to its request, for one event (publish.rs) and  *)
(* for a batch (publish_batch.rs): where each part of the request is taken *)
(* from, in which order, and which of the failures comes first.  Other     *)
(* commands change the files it reads meanwhile.  The request itself, with *)
(* its retries, is PublishDelivery's.                                      *)
(***************************************************************************)
EXTENDS Naturals, SequencesExt, BundledSchemas

CONSTANTS
  Projects,    \* names in the registry
  Tokens,      \* push tokens
  Argvs,       \* command lines: see Argv
  Envs,        \* environments: see Env
  Inputs,      \* contents of the JSONL file: sequences of lines, see Line
  MaxChanges   \* bound: how often another command changes a file

Keys == {"project", "machine", "team"}
Values == Projects \cup {"hash", "flag", "flag2", "line"}
Hosts == {"prod", "staging", "local", "custom"}

(* `key` is "" for a --source-attribute without a key or without a `=`.    *)
Argv ==
  [file : BOOLEAN, project : Projects, name : {"default", "flag"},
   flags : Seq([key : Keys \cup {""}, value : Values]), ids : BOOLEAN,
   type : Types, data : Payloads, json : BOOLEAN,
   actorType : {"any", "agent", "human"}, agentId : BOOLEAN, sessionFile : BOOLEAN]

(* `api` and `auth` are the explicit pair, `token` is NO_TICKETS_TOKEN.    *)
Env ==
  [api : BOOLEAN, auth : BOOLEAN, preset : {"unset", "prod", "staging", "local", "other"},
   token : {"unset", "blank", "token"}, machine : BOOLEAN]

(* `text` says how far a line gets; `source` is its override, if it is an  *)
(* object, and `attributes` the ones in it; `actor` says whether the line  *)
(* has a metadata.actor of its own.                                        *)
Line ==
  [text : {"blank", "notJson", "notObject", "noType", "event"}, type : Types, data : Payloads,
   source : {"absent", "odd", "object"}, name : {"none", "line"},
   attributes : UNION {[ks -> Values] : ks \in SUBSET Keys}, actor : {"none", "line"}]

(* Push tokens are told apart from the environment's and from none.        *)
ASSUME TokensAssumption == Tokens \cap {"env", "none"} = {}
ASSUME InputsAssumption ==
  Argvs \subseteq Argv /\ Envs \subseteq Env /\ Inputs \subseteq Seq(Line) /\ MaxChanges \in Nat

VARIABLES
  argv, env, input,  \* what the command is given
  registry,   \* config.json: the token of each project
  legible,    \* it can be read and parsed
  session,    \* active-session.json: none, live or expired
  alternate,  \* the file of --session-file
  login,      \* the host the credentials were issued for, or "none"
  salt,       \* .machine-salt exists
  changes,    \* how often these have changed
  pc,         \* the step publish is at
  base,       \* the source it builds from argv
  events,     \* the envelopes
  host,       \* the API it resolves
  bearer,     \* the token it resolves
  hash,       \* the machine hash, or "none"
  exit,       \* its exit code; 99 while it runs
  request,    \* what it sends
  were        \* history: [registered, live, loggedIn], what it could have read

given == <<argv, env, input>>
world == <<registry, legible, session, alternate, login, changes>>
locals == <<base, events, host, bearer, hash>>
vars == <<given, world, salt, pc, locals, exit, request, were>>

NoSource == [name |-> "none", attrs |-> [k \in {} |-> "none"]]

NoRequest == [sent |-> FALSE, host |-> "none", bearer |-> "none", events |-> <<>>]

-----------------------------------------------------------------------------
(* The parts of the request                                                *)

(* BTreeMap::insert and Map::insert: the later entry wins.                 *)
Insert(attrs, flag) == (flag.key :> flag.value) @@ attrs

(* parse_source_attribute.                                                 *)
Malformed == \E i \in DOMAIN argv.flags : argv.flags[i].key = ""


(* The project, then the machine hash, then the flags.                     *)
BaseAttributes ==
  LET project == "project" :> argv.project
      machine == IF hash = "none" THEN project ELSE ("machine" :> hash) @@ project
  IN  FoldLeft(Insert, machine, argv.flags)

BaseSource == [name |-> argv.name, attrs |-> BaseAttributes]

(* merge_source: the line over the base; a source that is no object is     *)
(* ignored.                                                                *)
MergeSource(line) ==
  IF line.source # "object" THEN base
  ELSE [name |-> IF line.name = "none" THEN base.name ELSE line.name,
        attrs |-> line.attributes @@ base.attrs]

(* What each line is to be at least, and whether its payload is valid.     *)
Admits(line) == line.text = "event" /\ Validate(line.type, line.data) = "valid"

NonBlank(lines) == SelectSeq(lines, LAMBDA line : line.text # "blank")

Envelope(type, data, source, actor) ==
  [type |-> type, data |-> data, source |-> source, actor |-> actor]

(* resolve_urls: an incomplete pair, a pair and a preset, or an unknown    *)
(* preset is refused.                                                      *)
UrlsRefused ==
  \/ env.api # env.auth
  \/ env.api /\ env.preset # "unset"
  \/ ~env.api /\ env.preset = "other"

ResolvedHost ==
  IF env.api THEN "custom" ELSE IF env.preset = "unset" THEN "prod" ELSE env.preset

(* Slip: --actor-type is heeded by the flags only.                         *)
AgentOk_Flags == argv.actorType # "human" \/ ~argv.agentId

AgentOk == argv.actorType # "human"

HumanOk == argv.actorType # "agent"

(* The actor of a single event: of the agent flags, of the file that       *)
(* --session-file names, of the active session, the human who is logged    *)
(* in, or nobody.                                                          *)
Actors == {"flags", "alternate", "session", "human", "none"}

(* actor::resolve, with the five branches in their order.                  *)
ResolvedActor ==
  IF AgentOk /\ argv.agentId THEN "flags"
  ELSE IF AgentOk /\ argv.sessionFile /\ alternate = "live" THEN "alternate"
  ELSE IF AgentOk /\ session = "live" THEN "session"
  ELSE IF HumanOk /\ login = host THEN "human"
  ELSE "none"

-----------------------------------------------------------------------------
(* The command                                                             *)

Init ==
  /\ argv \in Argvs /\ env \in Envs
  /\ input \in IF argv.file THEN Inputs ELSE {<<>>}
  /\ registry \in [Projects -> Tokens \cup {"none"}]
  /\ legible \in BOOLEAN
  /\ session \in {"none", "live"} /\ alternate \in {"none", "live"}
  /\ login \in {"none", "prod", "staging"}
  /\ salt = FALSE /\ changes = 0
  /\ pc = "start" /\ exit = 99
  /\ base = NoSource /\ events = <<>> /\ host = "none" /\ bearer = "none" /\ hash = "none"
  /\ request = NoRequest
  /\ were = [registered |-> {registry[argv.project]}, live |-> session = "live",
             loggedIn |-> {login}]

At(step) == pc = step /\ exit = 99

Goes(step) == pc' = step /\ exit' = exit

(* The command ends; nothing has been sent.                                *)
Fails(code) == exit' = code /\ pc' = "over"

Quietly == UNCHANGED request

(* A batch reports its own mistakes with 1, a single publish with 7.       *)
Usage == IF argv.file THEN 1 ELSE 7

(* main: a batch takes no --parent, --trace or --dedupe-key.               *)
Dispatch ==
  /\ At("start")
  /\ IF argv.file /\ argv.ids THEN Fails(7) ELSE Goes(IF argv.file THEN "read" ELSE "hash")
  /\ Quietly /\ UNCHANGED <<given, world, salt, locals, were>>

(* read_batch_input, parse_jsonl, and the refusal of an empty batch.       *)
ReadInput ==
  /\ At("read")
  /\ IF (\E i \in DOMAIN input : input[i].text = "notJson") \/ NonBlank(input) = <<>>
       THEN Fails(1) ELSE Goes("hash")
  /\ Quietly /\ UNCHANGED <<given, world, salt, locals, were>>

InputFails ==
  /\ At("read") /\ Fails(1)
  /\ Quietly /\ UNCHANGED <<given, world, salt, locals, were>>

(* machine_hash_attribute creates the salt when it has to.                 *)
MachineHash ==
  /\ At("hash") /\ Goes("metadata")
  /\ hash' = IF env.machine THEN "hash" ELSE "none"
  /\ salt' = (salt \/ env.machine)
  /\ Quietly /\ UNCHANGED <<given, world, base, events, host, bearer, were>>

(* An error of the file system or of the host name is no error of publish. *)
MachineHashFails ==
  /\ At("hash") /\ Goes("metadata")
  /\ env.machine
  /\ salt' \in {salt, TRUE}
  /\ Quietly /\ UNCHANGED <<given, world, locals, were>>

(* build_metadata and build_cli_base_source.                               *)
BuildSource ==
  /\ At("metadata")
  /\ IF Malformed THEN Fails(Usage) /\ base' = base
     ELSE Goes(IF argv.file THEN "lines" ELSE "urls") /\ base' = BaseSource
  /\ Quietly /\ UNCHANGED <<given, world, salt, events, host, bearer, hash, were>>

(* Slip: a line that is not admitted is left out.                          *)
BuildEnvelopes_Skip ==
  /\ At("lines") /\ Goes("urls")
  /\ LET good == SelectSeq(NonBlank(input), Admits)
     IN  events' = [i \in DOMAIN good |->
                      Envelope(good[i].type, good[i].data, MergeSource(good[i]), good[i].actor)]
  /\ Quietly /\ UNCHANGED <<given, world, salt, base, host, bearer, hash, were>>

(* validate_and_build_envelope of each line, up to the first that fails:   *)
(* the line as it is, but for its source.                                  *)
BuildEnvelopes ==
  /\ At("lines")
  /\ LET lines == NonBlank(input)
     IN  IF \E i \in DOMAIN lines : ~Admits(lines[i])
           THEN Fails(1) /\ events' = events
           ELSE /\ Goes("urls")
                /\ events' = [i \in DOMAIN lines |->
                     Envelope(lines[i].type, lines[i].data, MergeSource(lines[i]),
                              lines[i].actor)]
  /\ Quietly /\ UNCHANGED <<given, world, salt, base, host, bearer, hash, were>>

ResolveUrls ==
  /\ At("urls")
  /\ IF UrlsRefused THEN Fails(Usage) /\ host' = host
     ELSE Goes("token") /\ host' = ResolvedHost
  /\ Quietly /\ UNCHANGED <<given, world, salt, base, events, bearer, hash, were>>

(* Slip: whoever has no push token publishes with the session's.           *)
ResolvePublishToken_Session ==
  /\ At("token") /\ Goes(IF argv.file THEN "client" ELSE "actor")
  /\ bearer' = IF env.token = "token" THEN "env"
               ELSE IF registry[argv.project] # "none" THEN registry[argv.project] ELSE "session"
  /\ Quietly /\ UNCHANGED <<given, world, salt, base, events, host, hash, were>>

(* resolve_publish_token: the environment unless it is blank, or the       *)
(* registry.  Its failures have the exit codes of NtError in a batch, too. *)
ResolvePublishToken ==
  /\ At("token")
  /\ LET found(t) == Goes(IF argv.file THEN "client" ELSE "actor") /\ bearer' = t
     IN  IF env.token = "token" THEN found("env")
         ELSE IF ~legible THEN Fails(7) /\ bearer' = bearer
         ELSE IF registry[argv.project] = "none" THEN Fails(6) /\ bearer' = bearer
         ELSE found(registry[argv.project])
  /\ Quietly /\ UNCHANGED <<given, world, salt, base, events, host, hash, were>>

(* actor::resolve, then --data: only its syntax is looked at.              *)
ResolveActor ==
  /\ At("actor")
  /\ IF ~argv.json THEN Fails(7) /\ events' = events
     ELSE /\ Goes("client")
          /\ events' = <<Envelope(argv.type, argv.data, base, ResolvedActor)>>
  /\ Quietly /\ UNCHANGED <<given, world, salt, base, host, bearer, hash, were>>

(* Client::new parses the URL, which only an explicit pair gets wrong.     *)
ClientFails ==
  /\ At("client") /\ Fails(Usage)
  /\ host = "custom"
  /\ Quietly /\ UNCHANGED <<given, world, salt, locals, were>>

(* What map_transport_error makes of the answers, see PublishDelivery:     *)
(* 7 is for an answer that cannot be read.                                 *)
Verdicts == {0, 3, 4, 7, 8}

(* publish_event and publish_envelopes: one array in one request, tried as *)
(* often as the retry loop does.                                           *)
Post ==
  /\ At("client")
  /\ request' = [sent |-> TRUE, host |-> host, bearer |-> bearer, events |-> events]
  /\ \E code \in Verdicts : exit' = code /\ pc' = "over"
  /\ UNCHANGED <<given, world, salt, locals, were>>

PublishStep ==
  \/ Dispatch \/ ReadInput \/ InputFails \/ MachineHash \/ MachineHashFails \/ BuildSource
  \/ BuildEnvelopes \/ ResolveUrls \/ ResolvePublishToken \/ ResolveActor \/ ClientFails \/ Post

-----------------------------------------------------------------------------
(* Other commands, and the clock                                           *)

Changes == exit = 99 /\ changes < MaxChanges /\ changes' = changes + 1

Elsewhere == UNCHANGED <<given, salt, pc, locals, exit, request>>

(* token add and token remove of another process.                          *)
TokenChanges(p, t) ==
  /\ Changes /\ legible
  /\ registry[p] # t
  /\ registry' = [registry EXCEPT ![p] = t]
  /\ were' = IF p = argv.project THEN [were EXCEPT !.registered = @ \cup {t}] ELSE were
  /\ Elsewhere /\ UNCHANGED <<legible, session, alternate, login>>

(* session start and end, and the expiry of a session.                     *)
SessionChanges(s) ==
  /\ Changes
  /\ session # s /\ (s = "expired" => session = "live")
  /\ session' = s
  /\ were' = [were EXCEPT !.live = @ \/ s = "live"]
  /\ Elsewhere /\ UNCHANGED <<registry, legible, alternate, login>>

AlternateExpires ==
  /\ Changes
  /\ alternate = "live" /\ alternate' = "expired"
  /\ Elsewhere /\ UNCHANGED <<registry, legible, session, login, were>>

(* init and logout.                                                        *)
LoginChanges(h) ==
  /\ Changes
  /\ login # h /\ login' = h
  /\ were' = [were EXCEPT !.loggedIn = @ \cup {h}]
  /\ Elsewhere /\ UNCHANGED <<registry, legible, session, alternate>>

Next ==
  \/ PublishStep
  \/ \E p \in Projects, t \in Tokens \cup {"none"} : TokenChanges(p, t)
  \/ \E s \in {"none", "live", "expired"} : SessionChanges(s)
  \/ AlternateExpires
  \/ \E h \in {"none", "prod", "staging"} : LoginChanges(h)

Spec == Init /\ [][Next]_vars

-----------------------------------------------------------------------------
Steps ==
  {"start", "read", "hash", "metadata", "lines", "urls", "token", "actor", "client", "over"}

ExitCodes == {0, 1, 3, 4, 6, 7, 8}

TypeOK ==
  /\ registry \in [Projects -> Tokens \cup {"none"}]
  /\ legible \in BOOLEAN /\ salt \in BOOLEAN
  /\ session \in {"none", "live", "expired"} /\ alternate \in {"none", "live", "expired"}
  /\ login \in {"none", "prod", "staging"}
  /\ changes \in 0..MaxChanges
  /\ pc \in Steps /\ exit \in ExitCodes \cup {99} /\ (pc = "over" <=> exit # 99)
  /\ host \in Hosts \cup {"none"}
  /\ bearer \in Tokens \cup {"env", "none"}
  /\ hash \in {"hash", "none"}
  /\ ~argv.file => \A i \in DOMAIN events : events[i].actor \in Actors
  /\ were \in [registered : SUBSET (Tokens \cup {"none"}), live : BOOLEAN,
               loggedIn : SUBSET {"none", "prod", "staging"}]

(* One line that is no valid event stops the whole batch: all of the lines *)
(* are sent, in their order, or none is; and a batch that ends with 1 has  *)
(* sent none, so that it can be mended and run again.                      *)
OneBadLineStopsAll ==
  argv.file =>
    /\ exit = 1 => ~request.sent
    /\ request.sent =>
         LET lines == NonBlank(input)
         IN  /\ lines # <<>> /\ DOMAIN request.events = DOMAIN lines
             /\ \A i \in DOMAIN lines :
                  /\ Admits(lines[i])
                  /\ request.events[i].type = lines[i].type
                  /\ request.events[i].data = lines[i].data


(* The bearer is the token of the environment or one the project was       *)
(* registered with while the command ran, never one of the session, and    *)
(* never that of another project: what was removed before is not used.     *)
BearerIsRegistered ==
  request.sent =>
    /\ request.bearer = bearer
    /\ bearer \in (were.registered \ {"none"}) \cup {"env"}
    /\ bearer = "env" <=> env.token = "token"

(* A single event says of its actor what --actor-type admits, and only who *)
(* was there: the session was live while the command ran, and a human was  *)
(* logged in to the API the event goes to.  An event of a batch says what  *)
(* its line says, whatever the flags, the session and the login are.       *)
ActorWasThere ==
  request.sent =>
    \A i \in DOMAIN request.events :
      LET actor == request.events[i].actor
      IN  IF argv.file THEN actor = NonBlank(input)[i].actor
          ELSE /\ actor \in Actors
               /\ actor \in {"flags", "alternate", "session"} => argv.actorType # "human"
               /\ actor = "human" => argv.actorType # "agent" /\ request.host \in were.loggedIn
               /\ actor = "session" => were.live
               /\ actor = "flags" => argv.agentId

-----------------------------------------------------------------------------
(* The inductive invariant behind the safety properties                    *)

(* The steps a command line takes it through.                              *)
GivenInv ==
  /\ argv \in Argvs /\ env \in Envs
  /\ pc \in {"read", "lines"} => argv.file
  /\ pc = "actor" => ~argv.file

(* What it can read now is among what it could have read.                  *)
WorldInv ==
  /\ registry[argv.project] \in were.registered
  /\ session = "live" => were.live
  /\ login \in were.loggedIn

(* A batch is not empty once it is read, and has all of its lines once     *)
(* they are validated.                                                     *)
BatchInv ==
  argv.file =>
    LET lines == NonBlank(input)
    IN  /\ pc \in {"hash", "metadata", "lines", "urls", "token", "client"} \/ request.sent
             => lines # <<>>
        /\ pc \in {"urls", "token", "client"} \/ request.sent =>
             /\ DOMAIN events = DOMAIN lines
             /\ \A i \in DOMAIN lines :
                  /\ Admits(lines[i])
                  /\ events[i].type = lines[i].type /\ events[i].data = lines[i].data
                  /\ events[i].actor = lines[i].actor

(* What the request will say of its bearer and its actor.                  *)
ReadyInv ==
  /\ pc \in {"actor", "client"} \/ request.sent =>
       /\ bearer \in (were.registered \ {"none"}) \cup {"env"}
       /\ bearer = "env" <=> env.token = "token"
  /\ ~argv.file => \A i \in DOMAIN events :
       LET actor == events[i].actor
       IN  /\ actor \in {"flags", "alternate", "session"} => argv.actorType # "human"
           /\ actor = "human" => /\ argv.actorType # "agent" /\ host \in were.loggedIn
                                 /\ pc \in {"client", "over"}
           /\ actor = "session" => were.live
           /\ actor = "flags" => argv.agentId

(* The request is sent by the last step, and decides the exit code.        *)
RequestInv ==
  /\ request.sent =>
       /\ pc = "over" /\ exit \in {0, 3, 4, 7, 8}
       /\ request.host = host /\ request.bearer = bearer /\ request.events = events
  /\ ~request.sent => exit \in {1, 6, 7, 99}

IInv == TypeOK /\ GivenInv /\ WorldInv /\ BatchInv /\ ReadyInv /\ RequestInv
=============================================================================
