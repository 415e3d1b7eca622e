------------------------------ MODULE McpServer ------------------------------
(***************************************************************************)
(* The tools publish_event and describe_event_type of the MCP server       *)
(* (nt-mcp) in front of the API: payloads are checked with the schemas     *)
(* compiled into the binary, while the API has schemas of its own, which   *)
(* change; requests are sent once, and their answers may be lost.  The     *)
(* third tool, list_event_types, is RegistryCache's.                       *)
(***************************************************************************)
EXTENDS Naturals, BundledSchemas

CONSTANTS
  Calls,       \* tool calls: what the agent repeats is a call of its own
  DedupeKeys,  \* values of dedupe_key
  MaxChanges   \* bound: how often the registry of the API changes

NoKey == "none"

(* build_source: an agent cannot name another.                             *)
Source == "no-tickets-mcp"

(* describe_event_type takes the type only.                                *)
Args ==
  [tool : {"publish"}, type : Types, data : Payloads, key : DedupeKeys \cup {NoKey}]
  \cup [tool : {"describe"}, type : Types, data : {"none"}, key : {NoKey}]

(* What the API has for a type: nothing, an entry without a schema, or one *)
(* whose schema admits these payloads.                                     *)
Specs ==
  {[known |-> k, schema |-> FALSE, payloads |-> {}] : k \in BOOLEAN}
  \cup [known : {TRUE}, schema : {TRUE}, payloads : SUBSET Payloads]

NoResponse == [status |-> 0, id |-> "none", counts |-> "none"]

NoResult == [kind |-> "none", id |-> "none", deduped |-> FALSE]

VARIABLES
  config,    \* NO_TICKETS_TOKEN and NO_TICKETS_API_URL: "missing", "rejected" or "ok"
  registry,  \* the API's schema of each type: external
  changes,   \* how often it has changed
  stored,    \* the events the API has stored, by the call that brought them
  pc,        \* of a call: idle, sent, answered, lost, over
  args,      \* its arguments
  response,  \* the response on its way to it
  result,    \* its CallToolResult or McpError
  lacked     \* history: the calls during which the API did not know their type

vars == <<config, registry, changes, stored, pc, args, response, result, lacked>>

NoArgs == [tool |-> "none", type |-> "none", data |-> "none", key |-> NoKey]

Init ==
  /\ config \in {"missing", "rejected", "ok"}
  /\ registry = [t \in Types |->
       IF t \in KnownTypeIds
         THEN [known |-> TRUE, schema |-> TRUE,
               payloads |-> (CHOOSE e \in Bundle : e.type = t).payloads]
         ELSE [known |-> FALSE, schema |-> FALSE, payloads |-> {}]]
  /\ changes = 0
  /\ stored = {}
  /\ pc = [c \in Calls |-> "idle"]
  /\ args = [c \in Calls |-> NoArgs]
  /\ response = [c \in Calls |-> NoResponse]
  /\ result = [c \in Calls |-> NoResult]
  /\ lacked = {}

-----------------------------------------------------------------------------
(* The server                                                              *)

Becomes(c, step) == pc' = [pc EXCEPT ![c] = step]

Error(kind) == [kind |-> kind, id |-> "none", deduped |-> FALSE]

Returns(c, r) == result' = [result EXCEPT ![c] = r] /\ Becomes(c, "over")

(* What publish_event and describe_event_type refuse without a request:    *)
(* calls of a server whose token or URL is not set, and invalid payloads.  *)
Refuses(a) ==
  \/ config = "missing"
  \/ a.tool = "publish" /\ Validate(a.type, a.data) # "valid"

(* The handler up to its request.  The configuration is read first, for    *)
(* every tool.                                                             *)
Call(c, a) ==
  /\ pc[c] = "idle"
  /\ args' = [args EXCEPT ![c] = a]
  /\ lacked' = IF registry[a.type].known THEN lacked ELSE lacked \cup {c}
  /\ IF Refuses(a) THEN Returns(c, Error("invalid_params"))
     ELSE Becomes(c, "sent") /\ result' = result
  /\ UNCHANGED <<config, registry, changes, stored, response>>

(* Slip: the envelope carries no dedupe key.                               *)
WireKey_None(c) == NoKey

(* build_envelope: the key goes out as it came.                            *)
WireKey(c) == args[c].key

(* ingested == 0 && deduped > 0, where a missing count is 0.               *)
Deduped(r) == r.counts = "deduped"

IsSuccess(r) == r.status = 200

(* Of the tail of publish_event::handle.                                   *)
PublishResult(r) ==
  IF ~IsSuccess(r) \/ r.id = "none" THEN Error("internal")
  ELSE [kind |-> "ok", id |-> r.id, deduped |-> Deduped(r)]

(* Slip: a rejected token is reported as the agent's mistake.              *)
DescribeResult_AuthIsParams(r) ==
  IF r.status \in {401, 404} THEN Error("invalid_params")
  ELSE IF ~IsSuccess(r) \/ r.id = "none" THEN Error("internal")
  ELSE [kind |-> "ok", id |-> r.id, deduped |-> FALSE]

(* Of the tail of describe_event_type::handle: a type that is not found is *)
(* the agent's mistake, a rejected token is not.                           *)
DescribeResult(r) ==
  IF r.status = 404 THEN Error("invalid_params")
  ELSE IF ~IsSuccess(r) \/ r.id = "none" THEN Error("internal")
  ELSE [kind |-> "ok", id |-> r.id, deduped |-> FALSE]

Return(c) ==
  /\ pc[c] = "answered"
  /\ Returns(c, IF args[c].tool = "publish" THEN PublishResult(response[c])
                ELSE DescribeResult(response[c]))
  /\ UNCHANGED <<config, registry, changes, stored, args, response, lacked>>

(* Slip: the timeout of the shared client ends a call without an answer.   *)
TransportFails_NoAnswer(c) ==
  /\ pc[c] \in {"sent", "answered", "lost"}
  /\ Becomes(c, "over")
  /\ UNCHANGED <<config, registry, changes, stored, args, response, result, lacked>>

(* Transport and body errors, the timeout of the shared client among them: *)
(* transport_to_mcp.  There is no second attempt.                          *)
TransportFails(c) ==
  /\ pc[c] \in {"sent", "answered", "lost"}
  /\ Returns(c, Error("internal"))
  /\ UNCHANGED <<config, registry, changes, stored, args, response, lacked>>

-----------------------------------------------------------------------------
(* The API (external)                                                      *)

Answers(c, status, id, counts) ==
  \/ /\ Becomes(c, "answered")
     /\ response' = [response EXCEPT ![c] = [status |-> status, id |-> id, counts |-> counts]]
  \/ Becomes(c, "lost") /\ response' = response

Earlier(c) == {e \in stored : WireKey(c) # NoKey /\ e.key = WireKey(c)}

(* POST /v1/events: the token, the API's own schema, then the key.  The    *)
(* counts may be missing from the answer, and so may the id.               *)
Ingest(c) ==
  /\ pc[c] = "sent" /\ args[c].tool = "publish"
  /\ IF config = "rejected" THEN Answers(c, 401, "none", "none") /\ stored' = stored
     ELSE IF args[c].data \notin registry[args[c].type].payloads
       THEN Answers(c, 422, "none", "none") /\ stored' = stored
     ELSE IF Earlier(c) # {}
       THEN /\ \E e \in Earlier(c), n \in {"deduped", "none"} : Answers(c, 200, e.id, n)
            /\ stored' = stored
     ELSE /\ \E i \in {c, "none"}, n \in {"ingested", "none"} : Answers(c, 200, i, n)
          /\ stored' = stored \cup {[id |-> c, key |-> WireKey(c), source |-> Source,
                                     type |-> args[c].type, data |-> args[c].data]}
  /\ UNCHANGED <<config, registry, changes, args, result, lacked>>

(* GET /v1/registry/event-types/{id}; an answer without the wrapper, the   *)
(* schema or the id has no `id` here.                                      *)
Describe(c) ==
  /\ pc[c] = "sent" /\ args[c].tool = "describe"
  /\ LET spec == registry[args[c].type]
     IN  IF config = "rejected" THEN Answers(c, 401, "none", "none")
         ELSE IF ~spec.known THEN Answers(c, 404, "none", "none")
         ELSE Answers(c, 200, IF spec.schema THEN args[c].type ELSE "none", "none")
  /\ UNCHANGED <<config, registry, changes, stored, args, result, lacked>>

Fails(c) ==
  /\ pc[c] = "sent"
  /\ Answers(c, 503, "none", "none")
  /\ UNCHANGED <<config, registry, changes, stored, args, result, lacked>>

RegistryChanges(t, spec) ==
  /\ changes < MaxChanges
  /\ registry[t] # spec
  /\ registry' = [registry EXCEPT ![t] = spec]
  /\ changes' = changes + 1
  /\ lacked' = IF spec.known THEN lacked
               ELSE lacked \cup {c \in Calls : pc[c] \notin {"idle", "over"} /\ args[c].type = t}
  /\ UNCHANGED <<config, stored, pc, args, response, result>>

Next ==
  \/ \E c \in Calls, a \in Args : Call(c, a)
  \/ \E c \in Calls : Return(c) \/ TransportFails(c) \/ Ingest(c) \/ Describe(c) \/ Fails(c)
  \/ \E t \in Types, spec \in Specs : RegistryChanges(t, spec)

Spec == Init /\ [][Next]_vars

-----------------------------------------------------------------------------
Ids == Calls \cup Types \cup {"none"}

Kinds == {"none", "ok", "invalid_params", "internal"}

TypeOK ==
  /\ config \in {"missing", "rejected", "ok"}
  /\ registry \in [Types -> Specs] /\ changes \in 0..MaxChanges
  /\ pc \in [Calls -> {"idle", "sent", "answered", "lost", "over"}]
  /\ args \in [Calls -> Args \cup {NoArgs}]
  /\ response \in [Calls -> [status : {0, 200, 401, 404, 422, 503}, id : Ids,
                            counts : {"none", "ingested", "deduped"}]]
  /\ result \in [Calls -> [kind : Kinds, id : Ids, deduped : BOOLEAN]]
  /\ lacked \subseteq Calls
  /\ \A c \in Calls : pc[c] = "over" <=> result[c].kind # "none"

(* What the agent is told was published is stored, under its key, as the   *)
(* fixed source's.  It is the event of this call, with its type and its    *)
(* payload, unless an earlier call had the key: then it is the earlier     *)
(* event, whatever that one's payload is.  `deduped` is said of such an    *)
(* event only, and calls with one key are told of one event.               *)
PublishedIsStored ==
  \A c \in Calls : args[c].tool = "publish" /\ result[c].kind = "ok" =>
    /\ \E e \in stored :
         /\ e.id = result[c].id /\ e.key = args[c].key /\ e.source = Source
         /\ e.id = c => e.type = args[c].type /\ e.data = args[c].data
    /\ args[c].key = NoKey => result[c].id = c
    /\ result[c].deduped => result[c].id # c
    /\ \A d \in Calls :
         /\ args[d].tool = "publish" /\ result[d].kind = "ok"
         /\ args[c].key = args[d].key /\ args[c].key # NoKey
         => result[c].id = result[d].id

(* invalid_params is the error for which an agent corrects its arguments   *)
(* and calls again.  It leaves nothing behind: no event of the call is or  *)
(* will be stored.  And from a server that has a token and a URL, it is    *)
(* never due to the network, a rejected token or a failure of the API.     *)
(* (A server without them says invalid_params of any arguments.)           *)
InvalidParamsIsTheAgents ==
  \A c \in Calls : result[c].kind = "invalid_params" =>
    /\ \A e \in stored : e.id # c
    /\ config # "missing" =>
         \/ args[c].tool = "publish" /\ Validate(args[c].type, args[c].data) # "valid"
         \/ args[c].tool = "describe" /\ c \in lacked /\ config = "ok"

-----------------------------------------------------------------------------
(* The inductive invariant behind the safety properties                    *)

Calling(c) == pc[c] \notin {"idle", "over"}

(* A call that got past Refuses has arguments it need not blame, and the   *)
(* history tells when the API does not know its type now.                  *)
CallInv ==
  \A c \in Calls :
    /\ pc[c] = "idle" => args[c] = NoArgs /\ result[c] = NoResult
    /\ pc[c] # "idle" => args[c] \in Args
    /\ Calling(c) => ~Refuses(args[c]) /\ (registry[args[c].type].known \/ c \in lacked)

(* A stored event is of a call that has sent it, and of one call per key.  *)
StoredInv ==
  /\ \A e \in stored :
       /\ e.id \in Calls /\ pc[e.id] \notin {"idle", "sent"}
       /\ e.key = args[e.id].key /\ e.source = Source /\ args[e.id].tool = "publish"
       /\ e.type = args[e.id].type /\ e.data = args[e.id].data /\ ~Refuses(args[e.id])
  /\ \A d, e \in stored : d.key = e.key /\ d.key # NoKey => d = e

(* The event of that id has the key of the call's arguments `a`, and is    *)
(* the call's own when there is no key.                                    *)
Holds(events, c, a, id) ==
  /\ \E e \in events : e.id = id /\ e.key = a.key /\ e.source = Source
  /\ a.key = NoKey => id = c

ResponseInv ==
  \A c \in Calls : pc[c] = "answered" =>
    /\ response[c].status = 404 =>
         args[c].tool = "describe" /\ c \in lacked /\ config = "ok"
    /\ args[c].tool = "publish" /\ response[c].status = 200 /\ response[c].id # "none" =>
         /\ Holds(stored, c, args[c], response[c].id)
         /\ response[c].counts = "deduped" => response[c].id # c

ResultInv ==
  \A c \in Calls :
    /\ args[c].tool = "publish" /\ result[c].kind = "ok" =>
         /\ Holds(stored, c, args[c], result[c].id)
         /\ result[c].deduped => result[c].id # c
    /\ result[c].kind = "invalid_params" =>
         \/ Refuses(args[c])
         \/ args[c].tool = "describe" /\ c \in lacked /\ config = "ok"

IInv == TypeOK /\ CallInv /\ StoredInv /\ ResponseInv /\ ResultInv
=============================================================================
