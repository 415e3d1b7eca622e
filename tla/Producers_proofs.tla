--------------------------- MODULE Producers_proofs ---------------------------
(***************************************************************************)
(* Proofs about the three producers: for any number of tool calls, keys,   *)
(* types and payloads of the MCP server, and any documents in any number   *)
(* of files of the SDK; the proofs about the command line are              *)
(* PublishCommand_proofs'.  Each part is proved about as a specification   *)
(* of its own; then the whole is shown to implement each of them.          *)
(***************************************************************************)
EXTENDS Producers, PublishCommand_proofs, FiniteSetTheorems

-----------------------------------------------------------------------------
(* The MCP server                                                          *)

(* No call has begun, and the API stores nothing.                          *)
LEMMA McpInit == Mcp!Init => Mcp!IInv
<1> SUFFICES ASSUME Mcp!Init PROVE Mcp!IInv
  OBVIOUS
<1> USE DEF Mcp!Init
<1>1. mcpRegistry \in [Types -> Mcp!Specs]
  <2> SUFFICES ASSUME NEW t \in Types PROVE mcpRegistry[t] \in Mcp!Specs
    OBVIOUS
  <2>1. CASE t \in Mcp!KnownTypeIds
    <3>1. \E e \in Bundle : e.type = t
      BY <2>1 DEF Mcp!KnownTypeIds
    <3>2. (CHOOSE e \in Bundle : e.type = t).payloads \in SUBSET Payloads
      BY <3>1, BundleAssumption
    <3> QED BY <2>1, <3>2 DEF Mcp!Specs
  <2>2. CASE t \notin Mcp!KnownTypeIds
    BY <2>2 DEF Mcp!Specs
  <2> QED BY <2>1, <2>2
<1>2. Mcp!TypeOK
  BY <1>1, InputsAssumption DEF Mcp!TypeOK, Mcp!NoArgs, Mcp!NoResult, Mcp!NoResponse, Mcp!Kinds,
              Mcp!Ids
<1>3. Mcp!CallInv /\ Mcp!StoredInv /\ Mcp!ResponseInv
  BY DEF Mcp!CallInv, Mcp!StoredInv, Mcp!ResponseInv, Mcp!Calling
<1>4. Mcp!ResultInv
  BY DEF Mcp!ResultInv, Mcp!NoResult
<1> QED BY <1>2, <1>3, <1>4 DEF Mcp!IInv

(* Whether a type is known is yes or no.                                   *)
LEMMA McpSpecs == \A spec \in Mcp!Specs : spec.known \in BOOLEAN
<1> SUFFICES ASSUME NEW spec \in Mcp!Specs PROVE spec.known \in BOOLEAN
  OBVIOUS
<1>1. CASE \E k \in BOOLEAN : spec = [known |-> k, schema |-> FALSE, payloads |-> {}]
  BY <1>1
<1>2. CASE spec \in [known : {TRUE}, schema : {TRUE}, payloads : SUBSET Payloads]
  BY <1>2
<1> QED BY <1>1, <1>2 DEF Mcp!Specs

(* A call is refused for its arguments, or goes out with good ones.        *)
LEMMA McpCall ==
  ASSUME Mcp!IInv, NEW c \in Calls, NEW a \in Mcp!Args, Mcp!Call(c, a)
  PROVE  Mcp!IInv'
<1> USE DEF Mcp!IInv, Mcp!Call, Mcp!Returns, Mcp!Becomes
<1>1. /\ mcpArgs'[c] = a /\ (mcpRegistry[a.type].known \/ c \in mcpLacked')
      /\ IF Mcp!Refuses(a) THEN mcpPc'[c] = "over" /\ mcpResult'[c] = Mcp!Error("invalid_params")
         ELSE mcpPc'[c] = "sent" /\ mcpResult'[c] = Mcp!NoResult
  BY DEF Mcp!TypeOK, Mcp!CallInv
<1>2. \A d \in Calls \ {c} :
        mcpArgs'[d] = mcpArgs[d] /\ (d \in mcpLacked' <=> d \in mcpLacked) /\ mcpPc'[d] = mcpPc[d]
          /\ mcpResult'[d] = mcpResult[d]
  BY DEF Mcp!TypeOK
<1>3. mcpRegistry[a.type].known \in BOOLEAN
  <2>1. a.type \in Types
    BY DEF Mcp!Args
  <2>2. mcpRegistry[a.type] \in Mcp!Specs
    BY <2>1 DEF Mcp!TypeOK
  <2> QED BY <2>2, McpSpecs
<1>4. Mcp!TypeOK'
  <2>1. mcpLacked' \subseteq Calls
    BY DEF Mcp!TypeOK
  <2>2. Mcp!Error("invalid_params") \in [kind : Mcp!Kinds, id : Mcp!Ids, deduped : BOOLEAN]
    BY DEF Mcp!Error, Mcp!Kinds, Mcp!Ids
  <2>3. mcpResult' \in [Calls -> [kind : Mcp!Kinds, id : Mcp!Ids, deduped : BOOLEAN]]
    BY <2>2 DEF Mcp!TypeOK
  <2>4. mcpPc' \in [Calls -> {"idle", "sent", "answered", "lost", "over"}]
    BY SMTT(30) DEF Mcp!TypeOK
  <2>6. mcpArgs' \in [Calls -> Mcp!Args \cup {Mcp!NoArgs}]
    BY DEF Mcp!TypeOK
  <2>5. \A d \in Calls : mcpPc'[d] = "over" <=> mcpResult'[d].kind # "none"
    BY <1>1, <1>2 DEF Mcp!TypeOK, Mcp!Error, Mcp!NoResult
  <2> QED BY <2>1, <2>3, <2>4, <2>5, <2>6 DEF Mcp!TypeOK
<1>5. Mcp!CallInv'
  BY <1>1, <1>2 DEF Mcp!CallInv, Mcp!Calling, Mcp!Refuses
<1>6. Mcp!StoredInv'
  BY <1>1, <1>2 DEF Mcp!StoredInv, Mcp!Refuses
<1>7. Mcp!ResponseInv'
  BY <1>1, <1>2 DEF Mcp!ResponseInv, Mcp!Holds
<1>8. Mcp!ResultInv'
  BY <1>1, <1>2 DEF Mcp!ResultInv, Mcp!Holds, Mcp!Error,
              Mcp!NoResult, Mcp!Refuses
<1> QED BY <1>4, <1>5, <1>6, <1>7, <1>8

(* What a call returns says what its response says.                        *)
LEMMA McpReturn ==
  ASSUME Mcp!IInv, NEW c \in Calls, Mcp!Return(c)
  PROVE  Mcp!IInv'
<1> DEFINE r == mcpResponse[c]
<1> USE DEF Mcp!IInv, Mcp!Return, Mcp!Returns, Mcp!Becomes
<1>1. /\ mcpPc'[c] = "over"
      /\ mcpResult'[c] = IF mcpArgs[c].tool = "publish" THEN Mcp!PublishResult(r)
         ELSE Mcp!DescribeResult(r)
  BY DEF Mcp!TypeOK
<1>2. \A d \in Calls \ {c} : mcpPc'[d] = mcpPc[d] /\ mcpResult'[d] = mcpResult[d]
  BY DEF Mcp!TypeOK
<1>3. r.id \in Mcp!Ids /\ Mcp!Deduped(r) \in BOOLEAN
  BY DEF Mcp!TypeOK, Mcp!Deduped
<1>4. mcpResult'[c] \in [kind : Mcp!Kinds \ {"none"}, id : Mcp!Ids, deduped : BOOLEAN]
  <2>1. \A k \in {"invalid_params", "internal"} :
          Mcp!Error(k) \in [kind : Mcp!Kinds \ {"none"}, id : Mcp!Ids, deduped : BOOLEAN]
    BY DEF Mcp!Error, Mcp!Kinds, Mcp!Ids
  <2>2. \A b \in BOOLEAN : [kind |-> "ok", id |-> r.id, deduped |-> b]
                           \in [kind : Mcp!Kinds \ {"none"}, id : Mcp!Ids, deduped : BOOLEAN]
    BY <1>3 DEF Mcp!Kinds
  <2>3. Mcp!PublishResult(r) \in [kind : Mcp!Kinds \ {"none"}, id : Mcp!Ids, deduped : BOOLEAN]
    BY <1>3, <2>1, <2>2 DEF Mcp!PublishResult
  <2>4. Mcp!DescribeResult(r) \in [kind : Mcp!Kinds \ {"none"}, id : Mcp!Ids, deduped : BOOLEAN]
    BY <2>1, <2>2 DEF Mcp!DescribeResult
  <2> QED BY <1>1, <2>3, <2>4
<1>5. Mcp!TypeOK'
  BY <1>1, <1>2, <1>4 DEF Mcp!TypeOK
<1>6. Mcp!CallInv'
  BY <1>1, <1>2 DEF Mcp!CallInv, Mcp!Calling, Mcp!Refuses
<1>7. Mcp!StoredInv'
  BY <1>1, <1>2 DEF Mcp!StoredInv, Mcp!Refuses
<1>8. Mcp!ResponseInv'
  BY <1>1, <1>2 DEF Mcp!ResponseInv, Mcp!Holds
<1>9. Mcp!ResultInv'
  <2>1. mcpArgs[c].tool = "publish" /\ mcpResult'[c].kind = "ok"
          => /\ Mcp!Holds(mcpStored, c, mcpArgs[c], mcpResult'[c].id)
             /\ mcpResult'[c].deduped => mcpResult'[c].id # c
    <3> SUFFICES ASSUME mcpArgs[c].tool = "publish", mcpResult'[c].kind = "ok"
        PROVE  /\ Mcp!Holds(mcpStored, c, mcpArgs[c], mcpResult'[c].id)
               /\ mcpResult'[c].deduped => mcpResult'[c].id # c
      OBVIOUS
    <3>1. /\ Mcp!IsSuccess(r) /\ r.id # "none"
          /\ mcpResult'[c] = [kind |-> "ok", id |-> r.id, deduped |-> Mcp!Deduped(r)]
      BY <1>1 DEF Mcp!PublishResult, Mcp!Error
    <3>2. CASE Mcp!Deduped(r)
      BY <3>1, <3>2 DEF Mcp!ResponseInv, Mcp!IsSuccess, Mcp!Deduped
    <3>3. CASE ~Mcp!Deduped(r)
      <4>1. Mcp!Deduped(r) = FALSE
        BY <3>3 DEF Mcp!Deduped
      <4>2. mcpResult'[c] = [kind |-> "ok", id |-> r.id, deduped |-> FALSE]
        BY <3>1, <4>1
      <4> QED BY <3>1, <4>2 DEF Mcp!ResponseInv, Mcp!IsSuccess
    <3> QED BY <3>2, <3>3
  <2>2. mcpArgs[c].tool = "publish" => mcpResult'[c].kind # "invalid_params"
    BY <1>1 DEF Mcp!PublishResult, Mcp!Error
  <2>3. mcpArgs[c].tool # "publish" /\ mcpResult'[c].kind = "invalid_params" => r.status = 404
    BY <1>1 DEF Mcp!DescribeResult, Mcp!Error
  <2>4. r.status = 404 => mcpArgs[c].tool = "describe" /\ c \in mcpLacked /\ mcpConfig = "ok"
    BY DEF Mcp!ResponseInv
  <2> QED BY <1>2, <2>1, <2>2, <2>3, <2>4 DEF Mcp!ResultInv, Mcp!Holds, Mcp!Refuses
<1> QED BY <1>5, <1>6, <1>7, <1>8, <1>9

(* A call whose answer fails says so, and blames nobody.                   *)
LEMMA McpTransportFails ==
  ASSUME Mcp!IInv, NEW c \in Calls, Mcp!TransportFails(c)
  PROVE  Mcp!IInv'
<1> USE DEF Mcp!IInv, Mcp!TransportFails, Mcp!Returns, Mcp!Becomes
<1>1. mcpPc'[c] = "over" /\ mcpResult'[c] = Mcp!Error("internal")
  BY DEF Mcp!TypeOK
<1>2. \A d \in Calls \ {c} : mcpPc'[d] = mcpPc[d] /\ mcpResult'[d] = mcpResult[d]
  BY DEF Mcp!TypeOK
<1>3. Mcp!TypeOK'
  BY <1>1, <1>2 DEF Mcp!TypeOK, Mcp!Error, Mcp!Kinds, Mcp!Ids
<1>4. Mcp!CallInv'
  BY <1>1, <1>2 DEF Mcp!CallInv, Mcp!Calling, Mcp!Refuses
<1>5. Mcp!StoredInv'
  BY <1>1, <1>2 DEF Mcp!StoredInv, Mcp!Refuses
<1>6. Mcp!ResponseInv'
  BY <1>1, <1>2 DEF Mcp!ResponseInv, Mcp!Holds
<1>7. Mcp!ResultInv'
  BY <1>1, <1>2 DEF Mcp!ResultInv, Mcp!Holds, Mcp!Error, Mcp!Refuses
<1> QED BY <1>3, <1>4, <1>5, <1>6, <1>7

(* What an answer of the API leaves as it was, if what is stored only      *)
(* grows and the answer says what is stored.                               *)
LEMMA McpAnswers ==
  ASSUME Mcp!IInv, NEW c \in Calls, mcpPc[c] = "sent",
         NEW s \in {200, 401, 404, 422, 503}, NEW i \in Mcp!Ids,
         NEW n \in {"none", "ingested", "deduped"},
         Mcp!Answers(c, s, i, n),
         UNCHANGED <<mcpConfig, mcpRegistry, mcpChanges, mcpArgs, mcpResult, mcpLacked>>,
         mcpStored \subseteq mcpStored', Mcp!StoredInv',
         s = 404 => mcpArgs[c].tool = "describe" /\ c \in mcpLacked /\ mcpConfig = "ok",
         mcpArgs[c].tool = "publish" /\ s = 200 /\ i # "none" =>
           Mcp!Holds(mcpStored', c, mcpArgs[c], i) /\ (n = "deduped" => i # c)
  PROVE  Mcp!IInv'
<1> USE DEF Mcp!IInv, Mcp!Answers, Mcp!Becomes
<1>1. /\ mcpPc'[c] \in {"answered", "lost"}
      /\ mcpPc'[c] = "answered" => mcpResponse'[c] = [status |-> s, id |-> i, counts |-> n]
  BY DEF Mcp!TypeOK
<1>2. \A d \in Calls \ {c} : mcpPc'[d] = mcpPc[d] /\ mcpResponse'[d] = mcpResponse[d]
  BY DEF Mcp!TypeOK
<1>3. /\ mcpPc' \in [Calls -> {"idle", "sent", "answered", "lost", "over"}]
      /\ mcpResponse' \in [Calls -> [status : {0, 200, 401, 404, 422, 503}, id : Mcp!Ids,
                                  counts : {"none", "ingested", "deduped"}]]
  <2>1. [status |-> s, id |-> i, counts |-> n]
          \in [status : {0, 200, 401, 404, 422, 503}, id : Mcp!Ids,
              counts : {"none", "ingested", "deduped"}]
    OBVIOUS
  <2>2. mcpPc' \in [Calls -> {"idle", "sent", "answered", "lost", "over"}]
    BY DEF Mcp!TypeOK
  <2>3. \/ mcpResponse' = mcpResponse
        \/ mcpResponse' = [mcpResponse EXCEPT ![c] = [status |-> s, id |-> i, counts |-> n]]
    OBVIOUS
  <2> DEFINE R == [status : {0, 200, 401, 404, 422, 503}, id : Mcp!Ids,
                   counts : {"none", "ingested", "deduped"}]
             a == [status |-> s, id |-> i, counts |-> n]
  <2>4. mcpResponse \in [Calls -> R]
    BY DEF Mcp!TypeOK
  <2>5. mcpResponse' \in [Calls -> R]
    <3>1. \A v \in R : [mcpResponse EXCEPT ![c] = v] \in [Calls -> R]
      <4> HIDE DEF R
      <4> QED BY <2>4
    <3> QED BY <2>1, <2>3, <2>4, <3>1
  <2> QED BY <2>2, <2>5
<1>4. Mcp!TypeOK'
  BY <1>1, <1>2, <1>3 DEF Mcp!TypeOK
<1>5. Mcp!CallInv'
  BY <1>1, <1>2 DEF Mcp!CallInv, Mcp!Calling, Mcp!Refuses
<1>6. \A d \in Calls, id \in Mcp!Ids : Mcp!Holds(mcpStored, d, mcpArgs[d], id)
        => Mcp!Holds(mcpStored', d, mcpArgs'[d], id)
  BY DEF Mcp!Holds
<1>7. Mcp!ResponseInv'
  <2> SUFFICES ASSUME NEW d \in Calls, mcpPc'[d] = "answered"
      PROVE  /\ mcpResponse'[d].status = 404 =>
                  mcpArgs'[d].tool = "describe" /\ d \in mcpLacked' /\ mcpConfig' = "ok"
             /\ mcpArgs'[d].tool = "publish" /\ mcpResponse'[d].status = 200
                /\ mcpResponse'[d].id # "none" =>
                  /\ Mcp!Holds(mcpStored', d, mcpArgs'[d], mcpResponse'[d].id)
                  /\ mcpResponse'[d].counts = "deduped" => mcpResponse'[d].id # d
    BY DEF Mcp!ResponseInv
  <2>1. CASE d = c
    BY <1>1, <2>1
  <2>2. CASE d # c
    BY <1>2, <1>6, <2>2 DEF Mcp!ResponseInv, Mcp!TypeOK
  <2> QED BY <2>1, <2>2
<1>8. Mcp!ResultInv'
  BY <1>6 DEF Mcp!ResultInv, Mcp!TypeOK, Mcp!Refuses
<1> QED BY <1>4, <1>5, <1>7, <1>8

(* The API stores an event once per key, and answers with one it has.      *)
LEMMA McpIngest ==
  ASSUME Mcp!IInv, NEW c \in Calls, Mcp!Ingest(c)
  PROVE  Mcp!IInv'
<1> USE DEF Mcp!IInv, Mcp!Ingest
<1>1. /\ mcpPc[c] = "sent" /\ mcpArgs[c].tool = "publish" /\ c \in Mcp!Ids /\ "none" \in Mcp!Ids
      /\ UNCHANGED <<mcpConfig, mcpRegistry, mcpChanges, mcpArgs, mcpResult, mcpLacked>>
  BY DEF Mcp!Ids
<1>2. \A d \in Calls \ {c} : mcpPc'[d] = mcpPc[d]
  BY DEF Mcp!TypeOK, Mcp!Answers, Mcp!Becomes
<1>3. \A e \in mcpStored : e.id # c
  BY <1>1 DEF Mcp!StoredInv, Mcp!Refuses
<1>4. CASE UNCHANGED mcpStored
  <2>1. Mcp!StoredInv'
    BY <1>1, <1>2, <1>3, <1>4 DEF Mcp!StoredInv, Mcp!Refuses
  <2>2. CASE mcpConfig = "rejected"
    BY <1>1, <1>4, <2>1, <2>2, McpAnswers
  <2>3. CASE Mcp!Answers(c, 422, "none", "none")
    BY <1>1, <1>4, <2>1, <2>3, McpAnswers
  <2>4. CASE \E e \in Mcp!Earlier(c), n \in {"deduped", "none"} : Mcp!Answers(c, 200, e.id, n)
    <3>1. PICK e \in Mcp!Earlier(c), n \in {"deduped", "none"} : Mcp!Answers(c, 200, e.id, n)
      BY <2>4
    <3>2. /\ e \in mcpStored /\ e.key = mcpArgs[c].key /\ e.id \in Mcp!Ids
          /\ e.key # Mcp!NoKey
      BY DEF Mcp!Earlier, Mcp!WireKey, Mcp!StoredInv, Mcp!Ids
    <3>3. Mcp!Holds(mcpStored', c, mcpArgs[c], e.id) /\ e.id # c
      BY <1>1, <1>3, <1>4, <3>2 DEF Mcp!Holds, Mcp!StoredInv
    <3> QED BY <1>1, <1>4, <2>1, <3>1, <3>2, <3>3, McpAnswers
  <2>5. CASE mcpStored' = mcpStored \cup {[id |-> c, key |-> Mcp!WireKey(c), source |-> Mcp!Source,
                                    type |-> mcpArgs[c].type, data |-> mcpArgs[c].data]}
    <3> DEFINE new == [id |-> c, key |-> Mcp!WireKey(c), source |-> Mcp!Source,
                       type |-> mcpArgs[c].type, data |-> mcpArgs[c].data]
    <3>a. new \in mcpStored /\ new.id = c
      BY <1>4, <2>5
    <3> HIDE DEF new
    <3>1. \E e \in mcpStored : e.id = c
      BY <3>a
    <3> QED BY <1>3, <3>1
  <2> QED BY <2>2, <2>3, <2>4, <2>5
<1>5. CASE mcpStored' # mcpStored
  <2> DEFINE new == [id |-> c, key |-> Mcp!WireKey(c), source |-> Mcp!Source,
                     type |-> mcpArgs[c].type, data |-> mcpArgs[c].data]
  <2>1. mcpStored' = mcpStored \cup {new} /\ Mcp!Earlier(c) = {}
    BY <1>5
  <2>2. PICK i \in {c, "none"}, n \in {"ingested", "none"} : Mcp!Answers(c, 200, i, n)
    BY <1>5
  <2>3. mcpPc'[c] \in {"answered", "lost"}
    BY <2>2 DEF Mcp!Answers, Mcp!Becomes, Mcp!TypeOK
  <2>4. /\ new.id = c /\ new.key = mcpArgs[c].key /\ new.source = Mcp!Source
        /\ new.type = mcpArgs[c].type /\ new.data = mcpArgs[c].data
    BY DEF Mcp!WireKey
  <2>5. \A d \in mcpStored : d.key = new.key => d.key = Mcp!NoKey
    BY <2>1, <2>4 DEF Mcp!Earlier, Mcp!WireKey
  <2>6. Mcp!StoredInv'
    <3> HIDE DEF new
    <3>1. ASSUME NEW e \in mcpStored'
          PROVE  /\ e.id \in Calls /\ mcpPc'[e.id] \notin {"idle", "sent"}
                 /\ e.key = mcpArgs[e.id].key /\ e.source = Mcp!Source
                 /\ mcpArgs[e.id].tool = "publish"
                 /\ e.type = mcpArgs[e.id].type /\ e.data = mcpArgs[e.id].data
                 /\ ~Mcp!Refuses(mcpArgs[e.id])
      <4>1. ~Mcp!Refuses(mcpArgs[c])
        BY <1>1 DEF Mcp!CallInv, Mcp!Calling
      <4>2. CASE e = new
        BY <1>1, <2>3, <2>4, <4>1, <4>2
      <4>3. CASE e \in mcpStored
        BY <1>2, <1>3, <4>3 DEF Mcp!StoredInv
      <4> QED BY <2>1, <4>2, <4>3
    <3>2. ASSUME NEW d \in mcpStored', NEW e \in mcpStored', d.key = e.key, d.key # Mcp!NoKey
          PROVE  d = e
      BY <2>1, <2>5, <3>2 DEF Mcp!StoredInv, Mcp!Refuses
    <3> QED BY <1>1, <3>1, <3>2 DEF Mcp!StoredInv, Mcp!Refuses
  <2>7. i # "none" => Mcp!Holds(mcpStored', c, mcpArgs[c], i)
    BY <1>1, <2>1, <2>4 DEF Mcp!Holds
  <2>8. i \in Mcp!Ids /\ n \in {"none", "ingested", "deduped"} /\ n # "deduped"
    BY <1>1
  <2>9. mcpStored \subseteq mcpStored'
    BY <2>1
  <2> HIDE DEF Mcp!Ingest, new
  <2> QED BY <1>1, <2>2, <2>6, <2>7, <2>8, <2>9, McpAnswers
<1> QED BY <1>4, <1>5

(* The API describes a type it knows.                                      *)
LEMMA McpDescribe ==
  ASSUME Mcp!IInv, NEW c \in Calls, Mcp!Describe(c)
  PROVE  Mcp!IInv'
<1> USE DEF Mcp!IInv, Mcp!Describe
<1>1. /\ mcpPc[c] = "sent" /\ mcpArgs[c].tool = "describe" /\ mcpArgs[c].type \in Types
      /\ UNCHANGED <<mcpConfig, mcpRegistry, mcpChanges, mcpArgs, mcpResult, mcpLacked, mcpStored>>
  BY DEF Mcp!CallInv, Mcp!Args
<1>2. \A d \in Calls \ {c} : mcpPc'[d] = mcpPc[d]
  BY DEF Mcp!TypeOK, Mcp!Answers, Mcp!Becomes
<1>3. Mcp!StoredInv'
  BY <1>1, <1>2 DEF Mcp!StoredInv, Mcp!Refuses
<1>4. mcpConfig # "missing" /\ (mcpRegistry[mcpArgs[c].type].known \/ c \in mcpLacked)
  BY <1>1 DEF Mcp!CallInv, Mcp!Calling, Mcp!Refuses
<1>5. mcpRegistry[mcpArgs[c].type] \in Mcp!Specs
  BY <1>1 DEF Mcp!TypeOK
<1>6. CASE mcpConfig = "rejected"
  BY <1>1, <1>3, <1>6, McpAnswers DEF Mcp!Ids
<1>7. CASE mcpConfig # "rejected" /\ ~mcpRegistry[mcpArgs[c].type].known
  <2>1. c \in mcpLacked /\ mcpConfig = "ok"
    BY <1>4, <1>5, <1>7 DEF Mcp!TypeOK, Mcp!Specs
  <2> QED BY <1>1, <1>3, <1>7, <2>1, McpAnswers DEF Mcp!Ids
<1>8. CASE mcpConfig # "rejected" /\ mcpRegistry[mcpArgs[c].type].known
  <2>1. PICK i \in Mcp!Ids : Mcp!Answers(c, 200, i, "none")
    BY <1>1, <1>8 DEF Mcp!Ids
  <2> QED BY <1>1, <1>3, <2>1, McpAnswers
<1> QED BY <1>6, <1>7, <1>8

(* The API fails.                                                          *)
LEMMA McpFails ==
  ASSUME Mcp!IInv, NEW c \in Calls, Mcp!Fails(c)
  PROVE  Mcp!IInv'
<1> USE DEF Mcp!IInv, Mcp!Fails
<1>1. \A d \in Calls \ {c} : mcpPc'[d] = mcpPc[d]
  BY DEF Mcp!TypeOK, Mcp!Answers, Mcp!Becomes
<1>2. Mcp!StoredInv'
  BY <1>1 DEF Mcp!StoredInv, Mcp!Refuses
<1> QED BY <1>2, McpAnswers DEF Mcp!Ids

(* What the API knows of a type changes for the calls that run.            *)
LEMMA McpRegistryChanges ==
  ASSUME Mcp!IInv, NEW t \in Types, NEW spec \in Mcp!Specs, Mcp!RegistryChanges(t, spec)
  PROVE  Mcp!IInv'
<1> USE DEF Mcp!IInv, Mcp!RegistryChanges
<1>1. /\ mcpRegistry' \in [Types -> Mcp!Specs] /\ mcpRegistry'[t] = spec
      /\ \A u \in Types \ {t} : mcpRegistry'[u] = mcpRegistry[u]
      /\ spec.known \in BOOLEAN
  BY McpSpecs DEF Mcp!TypeOK
<1>2. /\ mcpLacked' \subseteq Calls /\ mcpLacked \subseteq mcpLacked'
      /\ \A d \in Calls : Mcp!Calling(d) /\ mcpArgs[d].type = t => spec.known \/ d \in mcpLacked'
  BY <1>1 DEF Mcp!TypeOK, Mcp!Calling
<1>3. mcpChanges' \in 0 .. MaxChanges
  BY InputsAssumption DEF Mcp!TypeOK
<1>4. Mcp!TypeOK'
  BY <1>1, <1>2, <1>3 DEF Mcp!TypeOK
<1>5. Mcp!CallInv'
  <2>1. \A d \in Calls : mcpPc[d] # "idle" => mcpArgs[d].type \in Types
    BY DEF Mcp!CallInv, Mcp!Args
  <2>2. ASSUME NEW d \in Calls, Mcp!Calling(d)
        PROVE  mcpRegistry'[mcpArgs[d].type].known \/ d \in mcpLacked'
    BY <1>1, <1>2, <2>1, <2>2 DEF Mcp!CallInv, Mcp!Calling
  <2> QED BY <2>2 DEF Mcp!CallInv, Mcp!Calling, Mcp!Refuses
<1>6. Mcp!StoredInv'
  BY DEF Mcp!StoredInv, Mcp!Refuses
<1>7. Mcp!ResponseInv'
  BY <1>2 DEF Mcp!ResponseInv, Mcp!Holds
<1>8. Mcp!ResultInv'
  BY <1>2 DEF Mcp!ResultInv, Mcp!Holds, Mcp!Refuses
<1> QED BY <1>4, <1>5, <1>6, <1>7, <1>8

(* Every step of the MCP server and of the API keeps the invariant.        *)
LEMMA McpNext == Mcp!IInv /\ [Mcp!Next]_(Mcp!vars) => Mcp!IInv'
<1> SUFFICES ASSUME Mcp!IInv, [Mcp!Next]_(Mcp!vars) PROVE Mcp!IInv'
  OBVIOUS
<1>1. CASE UNCHANGED Mcp!vars
  BY <1>1 DEF Mcp!IInv, Mcp!vars, Mcp!TypeOK, Mcp!CallInv, Mcp!Calling, Mcp!Refuses, Mcp!StoredInv,
              Mcp!ResponseInv, Mcp!ResultInv,
              Mcp!Holds
<1> QED BY <1>1, McpCall, McpReturn, McpTransportFails, McpIngest, McpDescribe, McpFails,
           McpRegistryChanges DEF Mcp!Next

(* What is stored, and what every result says of it.                       *)
LEMMA McpPublished == Mcp!IInv => Mcp!PublishedIsStored
<1> SUFFICES ASSUME Mcp!IInv, NEW c \in Calls, mcpArgs[c].tool = "publish", mcpResult[c].kind = "ok"
    PROVE  /\ \E e \in mcpStored :
                /\ e.id = mcpResult[c].id /\ e.key = mcpArgs[c].key /\ e.source = Mcp!Source
                /\ e.id = c => e.type = mcpArgs[c].type /\ e.data = mcpArgs[c].data
           /\ mcpArgs[c].key = Mcp!NoKey => mcpResult[c].id = c
           /\ mcpResult[c].deduped => mcpResult[c].id # c
           /\ \A d \in Calls :
                /\ mcpArgs[d].tool = "publish" /\ mcpResult[d].kind = "ok"
                /\ mcpArgs[c].key = mcpArgs[d].key /\ mcpArgs[c].key # Mcp!NoKey
                => mcpResult[c].id = mcpResult[d].id
  BY DEF Mcp!PublishedIsStored
<1> QED BY DEF Mcp!IInv, Mcp!StoredInv, Mcp!ResultInv, Mcp!Holds

(* A call that was refused brought no event.                               *)
LEMMA McpBlame == Mcp!IInv => Mcp!InvalidParamsIsTheAgents
<1> SUFFICES ASSUME Mcp!IInv, NEW c \in Calls, mcpResult[c].kind = "invalid_params"
    PROVE  /\ \A e \in mcpStored : e.id # c
           /\ mcpConfig # "missing" =>
                \/ mcpArgs[c].tool = "publish"
                   /\ Mcp!Validate(mcpArgs[c].type, mcpArgs[c].data) # "valid"
                \/ mcpArgs[c].tool = "describe" /\ c \in mcpLacked /\ mcpConfig = "ok"
  BY DEF Mcp!InvalidParamsIsTheAgents
<1>1. Mcp!Refuses(mcpArgs[c]) \/ mcpArgs[c].tool = "describe"
  BY DEF Mcp!IInv, Mcp!ResultInv
<1>2. \A e \in mcpStored : ~Mcp!Refuses(mcpArgs[e.id]) /\ mcpArgs[e.id].tool = "publish"
  BY DEF Mcp!IInv, Mcp!StoredInv
<1> QED BY <1>1, <1>2 DEF Mcp!IInv, Mcp!ResultInv, Mcp!Refuses

-----------------------------------------------------------------------------
(* The SDK                                                                 *)

(* SdkCore counts as FiniteSets does.                                      *)
LEMMA SdkCardinality == \A S : Sdk!Cardinality(S) = Cardinality(S)
BY DEF Sdk!Cardinality, Cardinality

(* What a file may hold are documents.                                     *)
LEMMA SdkDocs == Sdk!AllDocs \subseteq Sdk!Doc
BY DocsAssumption DEF Sdk!AllDocs, Sdk!Names

(* A document's tasks are finitely many, and so are the completed ones.    *)
LEMMA SdkTasks ==
  ASSUME NEW d \in Sdk!AllDocs
  PROVE  /\ d.lines \in Seq([kind : {"heading", "status", "text", "blank"}, number : Nat,
                             status : Sdk!Statuses \cup {"other"}])
         /\ IsFiniteSet(Sdk!HeadingAt(d.lines))
            /\ DOMAIN Sdk!ParseTasks(d.lines) = Sdk!HeadingAt(d.lines)
         /\ Cardinality(Sdk!HeadingAt(d.lines)) \in Nat
         /\ Sdk!Completed(Sdk!ParseTasks(d.lines)) \in Nat
         /\ Sdk!Completed(Sdk!ParseTasks(d.lines)) <= Cardinality(Sdk!HeadingAt(d.lines))
<1> DEFINE lines == d.lines
           tasks == Sdk!ParseTasks(lines)
           done == {i \in DOMAIN tasks : tasks[i].status = "completed"}
<1>1. lines \in Seq([kind : {"heading", "status", "text", "blank"}, number : Nat,
                     status : Sdk!Statuses \cup {"other"}])
  BY SdkDocs DEF Sdk!Doc
<1>2. Len(lines) \in Nat /\ DOMAIN lines = 1..Len(lines)
  BY <1>1
<1>3. IsFiniteSet(Sdk!HeadingAt(lines))
  <2>1. IsFiniteSet(1..Len(lines)) /\ Sdk!HeadingAt(lines) \subseteq 1..Len(lines)
    BY <1>2, FS_Interval DEF Sdk!HeadingAt
  <2> QED BY <2>1, FS_Subset
<1>4. DOMAIN tasks = Sdk!HeadingAt(lines)
  BY DEF Sdk!ParseTasks
<1>5. /\ Cardinality(Sdk!HeadingAt(lines)) \in Nat
      /\ Cardinality(done) \in Nat /\ Cardinality(done) <= Cardinality(Sdk!HeadingAt(lines))
  <2>1. done \subseteq Sdk!HeadingAt(lines)
    BY <1>4
  <2> HIDE DEF done
  <2> QED BY <1>3, <2>1, FS_Subset, FS_CardinalityType
<1>6. Sdk!Completed(tasks) = Cardinality(done)
  BY SdkCardinality DEF Sdk!Completed
<1> QED BY <1>1, <1>3, <1>4, <1>5, <1>6

(* A heading is completed by a status line of its own section.             *)
LEMMA SdkOwn ==
  ASSUME NEW d \in Sdk!AllDocs
  PROVE  LET lines == d.lines
             says(i) == \E j \in (i + 1)..Len(lines) :
                          /\ lines[j].kind = "status" /\ lines[j].status = "completed"
                          /\ \A k \in (i + 1)..(j - 1) : lines[k].kind # "heading"
         IN  \A i \in Sdk!HeadingAt(lines) :
               Sdk!ParseTasks(lines)[i].status = "completed" => says(i)
<1> DEFINE lines == d.lines
           says(i) == \E j \in (i + 1)..Len(lines) :
                        /\ lines[j].kind = "status" /\ lines[j].status = "completed"
                        /\ \A k \in (i + 1)..(j - 1) : lines[k].kind # "heading"
           tasks == Sdk!ParseTasks(lines)
<1>1. ASSUME NEW i \in Sdk!HeadingAt(lines), Sdk!StatusAfter(lines, i) = "completed"
      PROVE  says(i)
  <2> DEFINE first == Sdk!FirstNonBlank(lines, i)
  <2>1. \E j \in first : lines[j].kind = "status"
    BY <1>1 DEF Sdk!StatusAfter
  <2>2. /\ (CHOOSE j \in first : TRUE) \in first
        /\ \A j, k \in first : j = k
    <3>1. \A j, k \in first : ~(j < k)
      BY DEF Sdk!FirstNonBlank
    <3>2. \A j \in first : j \in Int
      BY DEF Sdk!FirstNonBlank
    <3>3. \A j, k \in first : j = k
      BY <3>1, <3>2
    <3> QED BY <2>1, <3>3
  <2>3. PICK j \in first : lines[j].kind = "status"
          /\ Sdk!NormalizeStatus(lines[j].status) = "completed"
    BY <1>1, <2>1, <2>2 DEF Sdk!StatusAfter
  <2>4. lines[j].status = "completed"
    BY <2>3 DEF Sdk!NormalizeStatus
  <2>5. j \in (i + 1)..Len(lines) /\ \A k \in (i + 1)..(j - 1) : lines[k].kind = "blank"
    BY DEF Sdk!FirstNonBlank
  <2> QED BY <2>3, <2>4, <2>5
<1>2. \A i \in Sdk!HeadingAt(lines) : tasks[i].status = Sdk!StatusAfter(lines, i)
  BY DEF Sdk!ParseTasks
<1> HIDE DEF tasks, says
<1> QED BY <1>1, <1>2 DEF tasks, says

-----------------------------------------------------------------------------
(* What is parsed of some documents, by file: epics, or features with      *)
(* their tasks.                                                            *)
LEMMA SdkParsed ==
  ASSUME NEW docs, DOMAIN docs \subseteq Sdk!Names, \A n \in DOMAIN docs : docs[n] \in Sdk!AllDocs
  PROVE  LET all == Sdk!ParseFiles(docs)
         IN  /\ DOMAIN all.epics \subseteq Sdk!Names /\ DOMAIN all.features \subseteq Sdk!Names
             /\ DOMAIN all.epics \cap DOMAIN all.features = {}
             /\ \A n \in DOMAIN all.epics : all.epics[n].id \in Sdk!Ids
             /\ \A n \in DOMAIN all.features :
                  LET f == all.features[n]
                  IN  /\ f.id \in Sdk!Ids /\ f.epic \in Sdk!Ids /\ f.phase \in Sdk!Phases
                      /\ f.tasks = Sdk!ParseTasks(docs[n].lines)
<1> DEFINE all == Sdk!ParseFiles(docs)
<1>1. /\ DOMAIN all.epics = {n \in DOMAIN docs : docs[n].type = "epic"}
      /\ DOMAIN all.features = {n \in DOMAIN docs : docs[n].type \in {"feature", "fix"}}
      /\ \A n \in DOMAIN all.epics : all.epics[n] = docs[n]
      /\ \A n \in DOMAIN all.features : all.features[n] = Sdk!AssembleFeature(docs[n])
  BY DEF Sdk!ParseFiles
<1>2. \A n \in DOMAIN docs : docs[n] \in Sdk!Doc
  BY SdkDocs
<1>3. \A n \in DOMAIN docs :
        /\ docs[n].id \in Sdk!Ids
        /\ Sdk!AssembleFeature(docs[n]).id \in Sdk!Ids
           /\ Sdk!AssembleFeature(docs[n]).epic \in Sdk!Ids
        /\ Sdk!AssembleFeature(docs[n]).phase \in Sdk!Phases
        /\ Sdk!AssembleFeature(docs[n]).tasks = Sdk!ParseTasks(docs[n].lines)
  BY <1>2 DEF Sdk!Doc, Sdk!AssembleFeature, Sdk!NormalizePhase, Sdk!Phases
<1> HIDE DEF all
<1> QED BY <1>1, <1>3 DEF all

(* The features of a snapshot, each at its place.                          *)
LEMMA SdkFeatures ==
  ASSUME NEW docs, DOMAIN docs \subseteq Sdk!Names, \A n \in DOMAIN docs : docs[n] \in Sdk!AllDocs,
         NEW all, all = Sdk!ParseFiles(docs), NEW fs, fs = Sdk!Features(Sdk!ComputeState(all))
  PROVE  /\ DOMAIN fs \subseteq Sdk!Names \X Sdk!Names
         /\ \A e \in DOMAIN all.epics, n \in DOMAIN all.features :
              all.features[n].epic = all.epics[e].id => <<e, n>> \in DOMAIN fs
         /\ \A p \in DOMAIN fs :
              /\ p = <<p[1], p[2]>> /\ p[1] \in DOMAIN all.epics /\ p[2] \in DOMAIN all.features
              /\ all.features[p[2]].epic = all.epics[p[1]].id
              /\ fs[p] = Sdk!FeatureState(all.features[p[2]])
              /\ fs[p].id = all.features[p[2]].id
              /\ fs[p].id \in Sdk!Ids /\ fs[p].phase \in Sdk!Phases
              /\ fs[p].tasks.total \in Nat /\ fs[p].tasks.completed \in Nat
              /\ Sdk!Compared \subseteq DOMAIN fs[p]
<1> DEFINE own(e) == {n \in DOMAIN all.features : all.features[n].epic = all.epics[e].id}
           E == DOMAIN all.epics
           F == DOMAIN all.features
<1>1. /\ DOMAIN Sdk!ComputeState(all).epics = DOMAIN all.epics
      /\ \A e \in DOMAIN all.epics :
           /\ DOMAIN Sdk!ComputeState(all).epics[e] = own(e)
           /\ \A n \in own(e) :
              Sdk!ComputeState(all).epics[e][n] = Sdk!FeatureState(all.features[n])
  BY DEF Sdk!ComputeState
<1>2. /\ DOMAIN fs = UNION {{e} \X DOMAIN Sdk!ComputeState(all).epics[e] :
                             e \in DOMAIN Sdk!ComputeState(all).epics}
      /\ \A p \in DOMAIN fs : fs[p] = Sdk!ComputeState(all).epics[p[1]][p[2]]
  BY DEF Sdk!Features
<1>3. DOMAIN fs = UNION {{e} \X own(e) : e \in DOMAIN all.epics}
  BY <1>1, <1>2
<1>a. ASSUME NEW p \in DOMAIN fs
      PROVE  p = <<p[1], p[2]>> /\ p[1] \in E /\ p[2] \in own(p[1]) /\ p \in E \X F
  <2>1. PICK e \in E : p \in {e} \X own(e)
    BY <1>3
  <2>2. p = <<e, p[2]>> /\ p[2] \in own(e)
    BY <2>1
  <2> QED BY <2>2
<1>b. ASSUME NEW e \in E, NEW n \in own(e)
      PROVE  <<e, n>> \in DOMAIN fs
  <2>1. <<e, n>> \in {e} \X own(e)
    OBVIOUS
  <2> QED BY <1>3, <2>1
<1>4. \A p \in DOMAIN fs : p[1] \in E /\ p[2] \in own(p[1])
  <2> HIDE DEF E, own
  <2> QED BY <1>a
<1>5. \A p \in DOMAIN fs : fs[p] = Sdk!FeatureState(all.features[p[2]])
  BY <1>1, <1>2, <1>4
<1>6. \A p \in DOMAIN fs :
        /\ p[2] \in DOMAIN all.features /\ p[2] \in DOMAIN docs
        /\ all.features[p[2]].id \in Sdk!Ids /\ all.features[p[2]].phase \in Sdk!Phases
        /\ all.features[p[2]].tasks = Sdk!ParseTasks(docs[p[2]].lines)
  <2>1. DOMAIN all.features \subseteq DOMAIN docs
    BY DEF Sdk!ParseFiles
  <2> QED BY <1>4, <2>1, SdkParsed
<1>7. DOMAIN fs \subseteq Sdk!Names \X Sdk!Names
  <2>1. DOMAIN all.epics \subseteq Sdk!Names /\ DOMAIN all.features \subseteq Sdk!Names
    BY SdkParsed
  <2>2. DOMAIN fs \subseteq E \X F
    <3> HIDE DEF E, F, own
    <3> QED BY <1>a
  <2> HIDE DEF E, F
  <2>3. E \X F \subseteq Sdk!Names \X Sdk!Names
    BY <2>1 DEF E, F
  <2> QED BY <2>2, <2>3
<1>8. ASSUME NEW p \in DOMAIN fs
      PROVE  /\ fs[p].id = all.features[p[2]].id
             /\ fs[p].id \in Sdk!Ids /\ fs[p].phase \in Sdk!Phases
             /\ fs[p].tasks.total \in Nat /\ fs[p].tasks.completed \in Nat
             /\ Sdk!Compared \subseteq DOMAIN fs[p]
  <2> DEFINE f == all.features[p[2]]
  <2>1. fs[p] = Sdk!FeatureState(f)
    BY <1>5
  <2>2. /\ f.id \in Sdk!Ids /\ f.phase \in Sdk!Phases
        /\ f.tasks = Sdk!ParseTasks(docs[p[2]].lines) /\ docs[p[2]] \in Sdk!AllDocs
    BY <1>6
  <2> HIDE DEF f
  <2>3. /\ fs[p].id = f.id /\ fs[p].phase = f.phase
        /\ fs[p].tasks.total = Cardinality(DOMAIN f.tasks)
        /\ fs[p].tasks.completed = Sdk!Completed(f.tasks)
        /\ DOMAIN fs[p] = {"id", "epicId", "title", "type", "phase", "assignee", "assigneeType",
                           "tasks", "tests", "meta"}
    BY <2>1, SdkCardinality DEF Sdk!FeatureState
  <2>4. Cardinality(DOMAIN f.tasks) \in Nat /\ Sdk!Completed(f.tasks) \in Nat
    BY <2>2, SdkTasks
  <2> QED BY <2>2, <2>3, <2>4 DEF Sdk!Compared, f
<1>9. ASSUME NEW p \in DOMAIN fs
      PROVE  /\ p = <<p[1], p[2]>> /\ p[1] \in DOMAIN all.epics /\ p[2] \in DOMAIN all.features
             /\ all.features[p[2]].epic = all.epics[p[1]].id
  BY <1>a
<1> QED BY <1>b, <1>5, <1>7, <1>8, <1>9

-----------------------------------------------------------------------------
(* A map holds, under each id, the last of the features that have it.      *)
LEMMA SdkIndex ==
  ASSUME NEW fs, DOMAIN fs \subseteq Sdk!Names \X Sdk!Names
  PROVE  /\ \A p, q \in Sdk!Lasting(fs) : fs[p].id = fs[q].id => p = q
         /\ \A p \in Sdk!Lasting(fs) : fs[p].id \in DOMAIN Sdk!Index(fs)
            /\ Sdk!Index(fs)[fs[p].id] = fs[p]
         /\ \A i \in DOMAIN Sdk!Index(fs) : \E p \in Sdk!Lasting(fs) : fs[p].id = i
            /\ Sdk!Index(fs)[i] = fs[p]
<1>1. ASSUME NEW p \in DOMAIN fs, NEW q \in DOMAIN fs, p # q
      PROVE  Sdk!Before(p, q) \/ Sdk!Before(q, p)
  <2>1. PICK a \in Sdk!Names, b \in Sdk!Names : p = <<a, b>>
    OBVIOUS
  <2>2. PICK c \in Sdk!Names, d \in Sdk!Names : q = <<c, d>>
    OBVIOUS
  <2> QED BY <1>1, <2>1, <2>2, DocsAssumption DEF Sdk!Before, Sdk!Names
<1>2. \A p, q \in Sdk!Lasting(fs) : fs[p].id = fs[q].id => p = q
  BY <1>1 DEF Sdk!Lasting
<1>3. DOMAIN Sdk!Index(fs) = {fs[p].id : p \in Sdk!Lasting(fs)}
  BY DEF Sdk!Index
<1>4. ASSUME NEW p \in Sdk!Lasting(fs)
      PROVE  fs[p].id \in DOMAIN Sdk!Index(fs) /\ Sdk!Index(fs)[fs[p].id] = fs[p]
  <2>1. (CHOOSE q \in Sdk!Lasting(fs) : fs[q].id = fs[p].id) = p
    BY <1>2
  <2>2. Sdk!Index(fs)[fs[p].id] = fs[CHOOSE q \in Sdk!Lasting(fs) : fs[q].id = fs[p].id]
    BY DEF Sdk!Index
  <2> QED BY <1>3, <2>1, <2>2
<1> QED BY <1>2, <1>3, <1>4

(* The map of what is added holds the new ids of the snapshot.             *)
LEMMA SdkAdded ==
  ASSUME NEW prev, NEW state, DOMAIN Sdk!Features(state) \subseteq Sdk!Names \X Sdk!Names
  PROVE  /\ DOMAIN Sdk!Index(Sdk!Added(prev, state)) = DOMAIN Sdk!IndexFeatures(state) \ DOMAIN prev
         /\ \A i \in DOMAIN Sdk!Index(Sdk!Added(prev, state)) :
              Sdk!Index(Sdk!Added(prev, state))[i] = Sdk!IndexFeatures(state)[i]
<1> DEFINE fs == Sdk!Features(state)
           new == {p \in Sdk!Lasting(fs) : fs[p].id \notin DOMAIN prev}
           a == Sdk!Added(prev, state)
<1>1. DOMAIN a = new /\ (\A p \in new : a[p] = fs[p]) /\ new \subseteq DOMAIN fs
  BY DEF Sdk!Added, Sdk!Restrict, Sdk!Lasting
<1>2. DOMAIN a \subseteq Sdk!Names \X Sdk!Names
  BY <1>1
<1>3. /\ \A p, q \in Sdk!Lasting(fs) : fs[p].id = fs[q].id => p = q
      /\ \A p \in Sdk!Lasting(fs) : fs[p].id \in DOMAIN Sdk!Index(fs)
         /\ Sdk!Index(fs)[fs[p].id] = fs[p]
      /\ \A i \in DOMAIN Sdk!Index(fs) : \E p \in Sdk!Lasting(fs) : fs[p].id = i
         /\ Sdk!Index(fs)[i] = fs[p]
  BY SdkIndex
<1>4. /\ \A p \in Sdk!Lasting(a) : a[p].id \in DOMAIN Sdk!Index(a) /\ Sdk!Index(a)[a[p].id] = a[p]
      /\ \A i \in DOMAIN Sdk!Index(a) : \E p \in Sdk!Lasting(a) : a[p].id = i
         /\ Sdk!Index(a)[i] = a[p]
  BY <1>2, SdkIndex
<1>5. Sdk!Lasting(a) = new
  <2>1. \A p, q \in new : a[p].id = a[q].id => p = q
    BY <1>1, <1>3
  <2>2. \A p \in new : ~Sdk!Before(p, p)
    <3>1. ASSUME NEW p \in new PROVE ~Sdk!Before(p, p)
      <4>1. PICK b \in Sdk!Names, c \in Sdk!Names : p = <<b, c>>
        BY <1>1
      <4> QED BY <4>1, DocsAssumption DEF Sdk!Before, Sdk!Names
    <3> QED BY <3>1
  <2> HIDE DEF a, new
  <2> QED BY <1>1, <2>1, <2>2 DEF Sdk!Lasting
<1>6. Sdk!IndexFeatures(state) = Sdk!Index(fs)
  BY DEF Sdk!IndexFeatures
<1>7. ASSUME NEW i \in DOMAIN Sdk!Index(a)
      PROVE  i \in DOMAIN Sdk!Index(fs) \ DOMAIN prev /\ Sdk!Index(a)[i] = Sdk!Index(fs)[i]
  BY <1>1, <1>3, <1>4, <1>5
<1>8. ASSUME NEW i \in DOMAIN Sdk!Index(fs) \ DOMAIN prev
      PROVE  i \in DOMAIN Sdk!Index(a)
  BY <1>1, <1>3, <1>4, <1>5
<1> QED BY <1>6, <1>7, <1>8

-----------------------------------------------------------------------------
(* Division rounds down, and a larger dividend gives no less.              *)
LEMMA SdkDiv ==
  ASSUME NEW a \in Nat, NEW b \in Nat, a <= b, NEW d \in Nat \ {0}
  PROVE  a \div d \in Nat /\ a \div d <= b \div d
<1> DEFINE q == a \div d  r == b \div d
<1>1. q \in Int /\ r \in Int /\ d * q <= a /\ a < d * q + d /\ d * r <= b /\ b < d * r + d
  OBVIOUS
<1>2. q >= 0
  <2>1. CASE q < 0
    <3>1. d * q + d = d * (q + 1) /\ q + 1 <= 0
      BY <1>1, <2>1
    <3>2. d * (q + 1) <= 0
      BY <3>1, <1>1
    <3> QED BY <1>1, <3>1, <3>2
  <2> QED BY <1>1, <2>1
<1>3. q <= r
  <2>1. CASE r < q
    <3>1. d * r + d = d * (r + 1) /\ r + 1 <= q
      BY <1>1, <2>1
    <3>2. d * (r + 1) <= d * q
      BY <3>1, <1>1
    <3> QED BY <1>1, <3>1, <3>2
  <2> QED BY <1>1, <2>1
<1> QED BY <1>1, <1>2, <1>3

(* Products of naturals grow with their factors.                           *)
LEMMA SdkTimes ==
  ASSUME NEW a \in Nat, NEW b \in Nat, a <= b, NEW t \in Nat
  PROVE  a * t \in Nat /\ a * t <= b * t
OBVIOUS

(* The rounded quotient that a percentage is: never above 100 and never    *)
(* falling back when the dividend grows.                                   *)
LEMMA SdkPercent ==
  ASSUME NEW a \in Nat, NEW b \in Nat, a <= b, NEW d \in Nat \ {0}
  PROVE  Sdk!AtMost100(Sdk!Round(a, d)) \in 0..100 /\ Sdk!AtMost100(Sdk!Round(a, d))
           <= Sdk!AtMost100(Sdk!Round(b, d))
<1>1. 2 * a + d \in Nat /\ 2 * b + d \in Nat /\ 2 * a + d <= 2 * b + d /\ 2 * d \in Nat \ {0}
  OBVIOUS
<1>2. /\ Sdk!Round(a, d) \in Nat /\ Sdk!Round(b, d) \in Nat /\ Sdk!Round(a, d) <= Sdk!Round(b, d)
  BY <1>1, SdkDiv DEF Sdk!Round
<1> QED BY <1>2 DEF Sdk!AtMost100

(* A feature's progress grows with its phase, its completed tasks and its  *)
(* passing tests.                                                          *)
LEMMA SdkFeatureProgress ==
  ASSUME NEW f, NEW g, f.phase \in Sdk!Phases, g.phase \in Sdk!Phases,
         Sdk!PhasePercent[f.phase] <= Sdk!PhasePercent[g.phase],
         f.tasks.total \in Nat, g.tasks.total = f.tasks.total,
         f.tasks.completed \in Nat, g.tasks.completed \in Nat,
         f.tasks.completed <= g.tasks.completed,
         f.tests.total \in Nat, g.tests.total = f.tests.total,
         f.tests.passing \in Nat, g.tests.passing \in Nat, f.tests.passing <= g.tests.passing
  PROVE  Sdk!FeatureProgress(f) \in 0..100 /\ Sdk!FeatureProgress(f) <= Sdk!FeatureProgress(g)
<1> DEFINE p == Sdk!PhasePercent[f.phase]  q == Sdk!PhasePercent[g.phase]
           c == f.tasks.completed          k == g.tasks.completed
           r == f.tests.passing            s == g.tests.passing
           d == Sdk!AtLeast1(f.tasks.total)  e == Sdk!AtLeast1(f.tests.total)
<1>1. /\ p \in Nat /\ q \in Nat /\ p <= q /\ c \in Nat /\ k \in Nat /\ c <= k
      /\ r \in Nat /\ s \in Nat /\ r <= s /\ d \in Nat \ {0} /\ e \in Nat \ {0}
  BY DEF Sdk!PhasePercent, Sdk!Phases, Sdk!AtLeast1
<1>2. CASE f.tests.total = 0
  <2> DEFINE a == 40 * p * d + 6000 * c  b == 40 * q * d + 6000 * k  m == 100 * d
  <2>1. a \in Nat /\ b \in Nat /\ a <= b /\ m \in Nat \ {0}
    <3> HIDE DEF p, q, c, k, d
    <3>1. 40 * p \in Nat /\ 40 * q \in Nat /\ 40 * p <= 40 * q
      BY <1>1
    <3>2. 40 * p * d \in Nat /\ 40 * q * d \in Nat /\ 40 * p * d <= 40 * q * d
      BY <1>1, <3>1, SdkTimes
    <3> QED BY <1>1, <3>2
  <2>2. /\ Sdk!FeatureProgress(f) = Sdk!AtMost100(Sdk!Round(a, m))
        /\ Sdk!FeatureProgress(g) = Sdk!AtMost100(Sdk!Round(b, m))
    BY <1>2 DEF Sdk!FeatureProgress
  <2> HIDE DEF a, b, m
  <2> QED BY <2>1, <2>2, SdkPercent
<1>3. CASE f.tests.total # 0
  <2> DEFINE a == 30 * p * d * e + 3500 * c * e + 3500 * r * d
             b == 30 * q * d * e + 3500 * k * e + 3500 * s * d
             m == 100 * d * e
  <2>1. a \in Nat /\ b \in Nat /\ a <= b /\ m \in Nat \ {0}
    <3> HIDE DEF p, q, c, k, r, s, d, e
    <3>1. /\ 30 * p \in Nat /\ 30 * q \in Nat /\ 30 * p <= 30 * q
          /\ 3500 * c \in Nat /\ 3500 * k \in Nat /\ 3500 * c <= 3500 * k
          /\ 3500 * r \in Nat /\ 3500 * s \in Nat /\ 3500 * r <= 3500 * s
      BY <1>1
    <3>2. 30 * p * d \in Nat /\ 30 * q * d \in Nat /\ 30 * p * d <= 30 * q * d
      BY <1>1, <3>1, SdkTimes
    <3>3. 30 * p * d * e \in Nat /\ 30 * q * d * e \in Nat /\ 30 * p * d * e <= 30 * q * d * e
      BY <1>1, <3>2, SdkTimes
    <3>4. 3500 * c * e \in Nat /\ 3500 * k * e \in Nat /\ 3500 * c * e <= 3500 * k * e
      BY <1>1, <3>1, SdkTimes
    <3>5. 3500 * r * d \in Nat /\ 3500 * s * d \in Nat /\ 3500 * r * d <= 3500 * s * d
      BY <1>1, <3>1, SdkTimes
    <3>6. m \in Nat \ {0}
      <4>1. 100 * d \in Nat \ {0}
        BY <1>1
      <4> QED BY <1>1, <4>1
    <3> QED BY <3>3, <3>4, <3>5, <3>6
  <2>2. /\ Sdk!FeatureProgress(f) = Sdk!AtMost100(Sdk!Round(a, m))
        /\ Sdk!FeatureProgress(g) = Sdk!AtMost100(Sdk!Round(b, m))
    BY <1>3 DEF Sdk!FeatureProgress
  <2> HIDE DEF a, b, m
  <2> QED BY <2>1, <2>2, SdkPercent
<1> QED BY <1>2, <1>3

(* What is summed over the features of a snapshot is a number.             *)
LEMMA SdkTotal ==
  ASSUME NEW state, DOMAIN Sdk!Features(state) \subseteq Sdk!Names \X Sdk!Names,
         NEW count,
         \A p \in DOMAIN Sdk!Features(state) : Sdk!Features(state)[p].tasks[count] \in Nat
  PROVE  Sdk!Total(state, count) \in Nat
<1> DEFINE fs == Sdk!Features(state)
           S == DOMAIN fs
           pairs(p) == {p} \X (1..fs[p].tasks[count])
           T == {pairs(p) : p \in S}
           map == [p \in S |-> pairs(p)]
<1>1. IsFiniteSet(S)
  <2>1. IsFiniteSet(Sdk!Names)
    BY DocsAssumption, FS_Interval DEF Sdk!Names
  <2>2. IsFiniteSet(Sdk!Names \X Sdk!Names)
    BY <2>1, FS_Product
  <2> QED BY <2>2, FS_Subset
<1>2. IsFiniteSet(T)
  <2>1. map \in Surjection(S, T)
    BY DEF Surjection
  <2> QED BY <1>1, <2>1, FS_Surjection
<1>3. \A U \in T : IsFiniteSet(U)
  <2> SUFFICES ASSUME NEW p \in S PROVE IsFiniteSet(pairs(p))
    OBVIOUS
  <2> DEFINE top == fs[p].tasks[count]
  <2>1. top \in Int
    OBVIOUS
  <2> HIDE DEF top
  <2>2. IsFiniteSet(1..top)
    BY ONLY <2>1, FS_Interval
  <2>3. IsFiniteSet({p})
    BY FS_Singleton
  <2>4. IsFiniteSet({p} \X (1..top))
    BY <2>2, <2>3, FS_Product
  <2> QED BY <2>4 DEF top
<1>4. IsFiniteSet(UNION T)
  <2> HIDE DEF T
  <2> QED BY <1>2, <1>3, FS_UNION
<1> QED BY <1>4, FS_CardinalityType, SdkCardinality DEF Sdk!Total

-----------------------------------------------------------------------------
(* What a receiver holds after a delta are the features of the snapshot it *)
(* leads to, if before it held those of the snapshot it comes from.        *)
LEMMA SdkApplied ==
  ASSUME NEW prev, NEW curr,
         DOMAIN Sdk!Features(prev) \subseteq Sdk!Names \X Sdk!Names,
         DOMAIN Sdk!Features(curr) \subseteq Sdk!Names \X Sdk!Names,
         \A p \in DOMAIN Sdk!Features(curr) : Sdk!Compared \subseteq DOMAIN Sdk!Features(curr)[p],
         \A i \in DOMAIN sdkReplica : Sdk!Compared \subseteq DOMAIN sdkReplica[i],
         IF prev.known
           THEN /\ DOMAIN sdkReplica = DOMAIN Sdk!IndexFeatures(prev)
                /\ \A i \in DOMAIN sdkReplica, k \in Sdk!Compared :
                     sdkReplica[i][k] = Sdk!IndexFeatures(prev)[i][k]
           ELSE DOMAIN Sdk!Features(prev) = {} /\ DOMAIN sdkReplica = {},
         NEW next, next = Sdk!Applied(Sdk!ComputeDiff(prev, curr))
  PROVE  /\ DOMAIN next = DOMAIN Sdk!IndexFeatures(curr)
         /\ \A i \in DOMAIN next : Sdk!Compared \subseteq DOMAIN next[i]
         /\ \A i \in DOMAIN next, k \in Sdk!Compared : next[i][k] = Sdk!IndexFeatures(curr)[i][k]
<1> DEFINE p == Sdk!IndexFeatures(prev)
           c == Sdk!IndexFeatures(curr)
           delta == Sdk!ComputeDiff(prev, curr)
           added == Sdk!Index(delta.added)
           changed(i) == \E u \in delta.updated : u.id = i
           of(i) == CHOOSE u \in delta.updated : u.id = i
           patched(f, u) ==
             [k \in DOMAIN f |-> IF k \in DOMAIN u.changes /\ u.changes[k].from = f[k]
                                   THEN u.changes[k].to ELSE f[k]]
<1>1. \A i \in DOMAIN c : Sdk!Compared \subseteq DOMAIN c[i]
  BY SdkIndex DEF Sdk!IndexFeatures, Sdk!Lasting
<1>2. /\ DOMAIN added = DOMAIN c \ DOMAIN p
      /\ \A i \in DOMAIN added : added[i] = c[i]
  <2>1. CASE prev.known
    <3>1. delta.added = Sdk!Added(p, curr)
      BY <2>1 DEF Sdk!ComputeDiff
    <3>2. /\ DOMAIN Sdk!Index(Sdk!Added(p, curr)) = DOMAIN c \ DOMAIN p
          /\ \A i \in DOMAIN Sdk!Index(Sdk!Added(p, curr)) : Sdk!Index(Sdk!Added(p, curr))[i] = c[i]
      <4>0. DOMAIN Sdk!Features(curr) \subseteq Sdk!Names \X Sdk!Names
        OBVIOUS
      <4>1. ASSUME NEW q
            PROVE  /\ DOMAIN Sdk!Index(Sdk!Added(q, curr))
                        = DOMAIN Sdk!IndexFeatures(curr) \ DOMAIN q
                   /\ \A i \in DOMAIN Sdk!Index(Sdk!Added(q, curr)) :
                        Sdk!Index(Sdk!Added(q, curr))[i] = Sdk!IndexFeatures(curr)[i]
        BY ONLY <4>0, SdkAdded
      <4> QED BY <4>1
    <3> HIDE DEF p, c, delta
    <3> QED BY <3>1, <3>2
  <2>2. CASE ~prev.known
    <3>1. delta.added = Sdk!Features(curr)
      BY <2>2 DEF Sdk!ComputeDiff
    <3>2. DOMAIN p = {}
      BY <2>2 DEF Sdk!IndexFeatures, Sdk!Index, Sdk!Lasting
    <3> QED BY <3>1, <3>2 DEF Sdk!IndexFeatures
  <2> QED BY <2>1, <2>2
<1>3. delta.removed = DOMAIN p \ DOMAIN c /\ delta.updated = Sdk!Updated(p, c)
  BY DEF Sdk!ComputeDiff
<1>4. DOMAIN sdkReplica = DOMAIN p
  BY DEF Sdk!IndexFeatures, Sdk!Index, Sdk!Lasting
<1>5. /\ DOMAIN next = (DOMAIN sdkReplica \ delta.removed) \cup DOMAIN added
      /\ \A i \in DOMAIN next :
           next[i] = IF i \in DOMAIN added THEN added[i]
                     ELSE IF changed(i) THEN patched(sdkReplica[i], of(i)) ELSE sdkReplica[i]
  BY DEF Sdk!Applied
<1>6. DOMAIN next = DOMAIN c
  <2> HIDE DEF p, c, delta, added
  <2> QED BY <1>2, <1>3, <1>4, <1>5
<1>7. ASSUME NEW i \in DOMAIN p \cap DOMAIN c
      PROVE  IF Sdk!Differing(p[i], c[i]) # {}
               THEN changed(i) /\ of(i) = [id |-> i, changes |-> Sdk!DiffFeature(p[i], c[i])]
               ELSE ~changed(i)
  <2> DEFINE entry(j) == [id |-> j, changes |-> Sdk!DiffFeature(p[j], c[j])]
             some == {j \in DOMAIN p \cap DOMAIN c : Sdk!Differing(p[j], c[j]) # {}}
  <2>1. delta.updated = {entry(j) : j \in some}
    BY <1>3 DEF Sdk!Updated
  <2> HIDE DEF p, c, delta
  <2>2. \A j : entry(j).id = j
    OBVIOUS
  <2>3. CASE i \in some
    <3>1. entry(i) \in delta.updated /\ \A u \in delta.updated : u.id = i => u = entry(i)
      <4> HIDE DEF entry, some
      <4> QED BY <2>1, <2>2, <2>3
    <3> HIDE DEF entry
    <3> QED BY <2>2, <2>3, <3>1 DEF entry
  <2>4. CASE i \notin some
    <3>1. \A u \in delta.updated : u.id # i
      <4> HIDE DEF entry, some
      <4> QED BY <2>1, <2>2, <2>4
    <3> QED BY <2>4, <3>1
  <2> QED BY <2>3, <2>4
<1>8. ASSUME NEW i \in DOMAIN next
      PROVE  Sdk!Compared \subseteq DOMAIN next[i] /\ \A k \in Sdk!Compared : next[i][k] = c[i][k]
  <2>1. CASE i \in DOMAIN added
    <3> HIDE DEF p, c, delta, added
    <3> QED BY <1>1, <1>2, <1>5, <1>6, <2>1
  <2>2. CASE i \notin DOMAIN added
    <3>1. i \in DOMAIN p \cap DOMAIN c /\ i \in DOMAIN sdkReplica
      <4> HIDE DEF p, c, delta, added
      <4> QED BY <1>2, <1>4, <1>6, <2>2
    <3>2. prev.known /\ \A k \in Sdk!Compared : sdkReplica[i][k] = p[i][k]
      BY <3>1
    <3>3. CASE Sdk!Differing(p[i], c[i]) # {}
      <4>1. next[i] = patched(sdkReplica[i], of(i))
        <5> HIDE DEF p, c, delta, added, changed, of, patched
        <5> QED BY <1>5, <1>7, <2>2, <3>1, <3>3
      <4>2. of(i).changes = Sdk!DiffFeature(p[i], c[i])
        <5> HIDE DEF p, c, delta, changed, of
        <5> QED BY <1>7, <3>1, <3>3
      <4> HIDE DEF p, c, delta, added, changed, of
      <4> QED BY <3>1, <3>2, <4>1, <4>2 DEF Sdk!DiffFeature, Sdk!Differing
    <3>4. CASE Sdk!Differing(p[i], c[i]) = {}
      <4> HIDE DEF p, c, delta, added, changed, of, patched
      <4>1. next[i] = sdkReplica[i]
        BY <1>5, <1>7, <2>2, <3>1, <3>4
      <4> QED BY <3>1, <3>2, <3>4, <4>1 DEF Sdk!Differing
    <3> QED BY <3>3, <3>4
  <2> QED BY <2>1, <2>2
<1> QED BY <1>6, <1>8

(* A snapshot of valid documents has each of their features in one epic,   *)
(* and the map of its features has it, too.                                *)
LEMMA SdkComplete ==
  ASSUME NEW docs, DOMAIN docs \subseteq Sdk!Names, \A n \in DOMAIN docs : docs[n] \in Sdk!AllDocs,
         NEW all, all = Sdk!ParseFiles(docs), Sdk!Validate(all),
         NEW state, state = Sdk!ComputeState(all),
         NEW n \in DOMAIN all.features
  PROVE  LET f == all.features[n]
         IN  /\ \E e \in DOMAIN all.epics :
                  /\ all.epics[e].id = f.epic
                  /\ {p \in DOMAIN Sdk!Features(state) : p[2] = n} = {<<e, n>>}
             /\ f.id \in DOMAIN Sdk!IndexFeatures(state)
             /\ Sdk!IndexFeatures(state)[f.id] = Sdk!FeatureState(f)
<1> DEFINE f == all.features[n]
           fs == Sdk!Features(state)
           ids == [m \in DOMAIN all.epics \cup DOMAIN all.features |->
                     IF m \in DOMAIN all.epics THEN all.epics[m].id ELSE all.features[m].id]
<1>1. PICK e \in DOMAIN all.epics : all.epics[e].id = f.epic
  BY DEF Sdk!Validate, Sdk!ValidateFeature, Sdk!IdsOf
<1>2. /\ \A d, g \in DOMAIN all.epics : all.epics[d].id = all.epics[g].id => d = g
      /\ \A d, g \in DOMAIN all.features : all.features[d].id = all.features[g].id => d = g
  <2>1. \A d, g \in DOMAIN ids : ids[d] = ids[g] => d = g
    BY DEF Sdk!Validate, Sdk!ValidateUniqueIds, Sdk!IsInjective
  <2>2. DOMAIN all.epics \cap DOMAIN all.features = {}
    BY SdkParsed
  <2> QED BY <2>1, <2>2
<1>3. /\ DOMAIN fs \subseteq Sdk!Names \X Sdk!Names
      /\ <<e, n>> \in DOMAIN fs
      /\ \A p \in DOMAIN fs :
           /\ p = <<p[1], p[2]>> /\ p[1] \in DOMAIN all.epics /\ p[2] \in DOMAIN all.features
           /\ all.features[p[2]].epic = all.epics[p[1]].id
           /\ fs[p] = Sdk!FeatureState(all.features[p[2]]) /\ fs[p].id = all.features[p[2]].id
  BY <1>1, SdkFeatures
<1> HIDE DEF fs
<1>4. \A p \in DOMAIN fs : p[2] = n => p = <<e, n>>
  BY <1>1, <1>2, <1>3
<1>5. {p \in DOMAIN fs : p[2] = n} = {<<e, n>>}
  BY <1>3, <1>4
<1>6. <<e, n>> \in Sdk!Lasting(fs)
  <2>1. \A q \in DOMAIN fs : fs[q].id = fs[<<e, n>>].id => q = <<e, n>>
    BY <1>2, <1>3, <1>4
  <2>2. ~Sdk!Before(<<e, n>>, <<e, n>>)
    BY <1>3, DocsAssumption DEF Sdk!Before, Sdk!Names
  <2> QED BY <1>3, <2>1, <2>2 DEF Sdk!Lasting
<1>7. fs[<<e, n>>].id = f.id /\ fs[<<e, n>>] = Sdk!FeatureState(f)
  BY <1>3
<1>8. f.id \in DOMAIN Sdk!Index(fs) /\ Sdk!Index(fs)[f.id] = Sdk!FeatureState(f)
  BY <1>3, <1>6, <1>7, SdkIndex
<1> QED BY <1>1, <1>5, <1>8 DEF fs, Sdk!IndexFeatures

-----------------------------------------------------------------------------
(* What a push has read are documents, by file.                            *)
LEMMA SdkHeld ==
  ASSUME NEW names, NEW docs \in Sdk!Held(names)
  PROVE  DOMAIN docs \subseteq names /\ \A n \in DOMAIN docs : docs[n] \in Sdk!AllDocs
<1>1. PICK read \in SUBSET names : docs \in [read -> Sdk!AllDocs]
  BY DEF Sdk!Held
<1> QED BY <1>1

(* Fewer names or more: what is held for the former is for the latter.     *)
LEMMA SdkHeldMore ==
  ASSUME NEW names, NEW more, names \subseteq more, NEW docs \in Sdk!Held(names)
  PROVE  docs \in Sdk!Held(more)
<1>1. PICK read \in SUBSET names : docs \in [read -> Sdk!AllDocs]
  BY DEF Sdk!Held
<1>2. read \in SUBSET more
  BY <1>1
<1> QED BY <1>1, <1>2 DEF Sdk!Held

(* No document is held for any names.                                      *)
LEMMA SdkNothingHeld == \A names : Sdk!NoMap \in Sdk!Held(names)
<1>1. ASSUME NEW names PROVE {} \in SUBSET names /\ Sdk!NoMap \in [{} -> Sdk!AllDocs]
  BY DEF Sdk!NoMap
<1> QED BY <1>1 DEF Sdk!Held

(* Nothing is pushed, and a receiver holds nothing.                        *)
LEMMA SdkInit == Sdk!Init => Sdk!IInv
<1> SUFFICES ASSUME Sdk!Init PROVE Sdk!IInv
  OBVIOUS
<1>1. \A names : Sdk!NoMap \in Sdk!Held(names)
  BY SdkNothingHeld
<1>2. DOMAIN Sdk!NoMap = {}
  BY DEF Sdk!NoMap
<1>3. Sdk!TypeOK
  BY <1>1, <1>2, DocsAssumption DEF Sdk!Init, Sdk!TypeOK
<1>4. Sdk!ParsedInv
  BY <1>1 DEF Sdk!Init, Sdk!ParsedInv
<1>5. ~sdkSnapshot.known /\ Sdk!SnapshotInv
  BY DEF Sdk!Init, Sdk!SnapshotInv, Sdk!NoSnapshot
<1> QED BY <1>3, <1>4, <1>5 DEF Sdk!IInv, Sdk!DeltasAddUp

(* What was pushed, and what a receiver holds, changes with a push only.   *)
LEMMA SdkKeeps ==
  ASSUME Sdk!IInv, UNCHANGED <<sdkParsed, sdkSnapshot, sdkReplica>>, Sdk!TypeOK'
  PROVE  Sdk!IInv'
BY DEF Sdk!IInv, Sdk!ParsedInv, Sdk!SnapshotInv, Sdk!DeltasAddUp

(* A user edits a file.                                                    *)
LEMMA SdkEdit ==
  ASSUME Sdk!IInv, NEW n \in Sdk!Names, NEW d \in Docs[n] \cup {Sdk!NoFile}, Sdk!Edit(n, d)
  PROVE  Sdk!IInv'
<1>1. sdkFiles' \in Sdk!Disks
  <2>1. d \in Sdk!AllDocs \cup {Sdk!NoFile}
    BY DEF Sdk!AllDocs
  <2>2. /\ sdkFiles \in [Sdk!Names -> Sdk!AllDocs \cup {Sdk!NoFile}]
        /\ \A m \in Sdk!Names : sdkFiles[m] \in Docs[m] \cup {Sdk!NoFile}
        /\ sdkFiles' = [sdkFiles EXCEPT ![n] = d]
    BY DEF Sdk!IInv, Sdk!TypeOK, Sdk!Disks, Sdk!Edit
  <2>3. sdkFiles' \in [Sdk!Names -> Sdk!AllDocs \cup {Sdk!NoFile}]
    BY <2>1, <2>2
  <2>4. \A m \in Sdk!Names : sdkFiles'[m] \in Docs[m] \cup {Sdk!NoFile}
    BY <2>2
  <2> QED BY <2>3, <2>4 DEF Sdk!Disks
<1>2. sdkEdits' \in 0..MaxEdits
  BY DocsAssumption DEF Sdk!IInv, Sdk!TypeOK, Sdk!Edit
<1>3. Sdk!Settled' = Sdk!Settled
  BY DEF Sdk!Settled, Sdk!Edit
<1>4. Sdk!TypeOK'
  BY <1>1, <1>2, <1>3 DEF Sdk!IInv, Sdk!TypeOK, Sdk!Edit
<1> QED BY <1>4, SdkKeeps DEF Sdk!Edit

(* A push lists the files.                                                 *)
LEMMA SdkList ==
  ASSUME Sdk!IInv, Sdk!List
  PROVE  Sdk!IInv'
<1>1. \A names : Sdk!NoMap \in Sdk!Held(names)
  BY SdkNothingHeld
<1>2. /\ sdkUnread' \subseteq {n \in Sdk!Names : Dir[n] \notin sdkUnlisted'}
      /\ sdkUnlisted' \subseteq Sdk!SubDirs
  BY DEF Sdk!List, Sdk!FilesIn, Sdk!SubDirs
<1>3. Sdk!TypeOK'
  BY <1>1, <1>2 DEF Sdk!IInv, Sdk!TypeOK, Sdk!List
<1> QED BY <1>3, SdkKeeps DEF Sdk!List

(* It lists those of a sub-directory.                                      *)
LEMMA SdkListSub ==
  ASSUME Sdk!IInv, NEW dir \in Sdk!SubDirs, Sdk!ListSub(dir)
  PROVE  Sdk!IInv'
<1>1. /\ sdkUnread' \subseteq {n \in Sdk!Names : Dir[n] \notin sdkUnlisted'}
      /\ sdkUnlisted' \subseteq Sdk!SubDirs
  BY DEF Sdk!IInv, Sdk!TypeOK, Sdk!ListSub, Sdk!FilesIn
<1>2. Sdk!Settled \subseteq Sdk!Settled'
  BY DEF Sdk!Settled, Sdk!ListSub, Sdk!FilesIn
<1>3. sdkGot \in Sdk!Held(Sdk!Settled')
  BY <1>2, SdkHeldMore DEF Sdk!IInv, Sdk!TypeOK
<1>4. Sdk!TypeOK'
  BY <1>1, <1>3 DEF Sdk!IInv, Sdk!TypeOK, Sdk!ListSub
<1> QED BY <1>4, SdkKeeps DEF Sdk!ListSub

(* A push reads a file, if it is still there.                              *)
LEMMA SdkReadFile ==
  ASSUME Sdk!IInv, NEW n \in Sdk!Names, Sdk!ReadFile(n)
  PROVE  Sdk!IInv'
<1>1. sdkGot' \in Sdk!Held(Sdk!Settled')
  <2>1. sdkGot \in Sdk!Held(Sdk!Settled)
    BY DEF Sdk!IInv, Sdk!TypeOK
  <2>2. Sdk!Settled \cup {n} \subseteq Sdk!Settled'
    BY DEF Sdk!IInv, Sdk!TypeOK, Sdk!ReadFile, Sdk!Settled
  <2>3. CASE sdkGot' = sdkGot
    BY <2>1, <2>2, <2>3, SdkHeldMore
  <2>4. CASE sdkGot' = [m \in DOMAIN sdkGot \cup {n} |-> IF m = n THEN sdkFiles[n] ELSE sdkGot[m]]
             /\ sdkFiles[n] # Sdk!NoFile
    <3> DEFINE read == DOMAIN sdkGot \cup {n}
    <3>1. DOMAIN sdkGot \subseteq Sdk!Settled
            /\ \A m \in DOMAIN sdkGot : sdkGot[m] \in Sdk!AllDocs
      BY <2>1, SdkHeld
    <3>2. read \in SUBSET Sdk!Settled'
      BY <2>2, <3>1
    <3>3. sdkFiles[n] \in Sdk!AllDocs
      BY <2>4 DEF Sdk!IInv, Sdk!TypeOK, Sdk!Disks
    <3>4. sdkGot' \in [read -> Sdk!AllDocs]
      BY <2>4, <3>1, <3>3
    <3> QED BY <3>2, <3>4 DEF Sdk!Held
  <2> QED BY <2>3, <2>4 DEF Sdk!ReadFile
<1>2. Sdk!TypeOK'
  BY <1>1 DEF Sdk!IInv, Sdk!TypeOK, Sdk!ReadFile
<1> QED BY <1>2, SdkKeeps DEF Sdk!ReadFile

(* A push passes over a file.                                              *)
LEMMA SdkReadFileFails ==
  ASSUME Sdk!IInv, NEW n \in Sdk!Names, Sdk!ReadFileFails(n)
  PROVE  Sdk!IInv'
<1>1. sdkGot' \in Sdk!Held(Sdk!Settled')
  <2>1. Sdk!Settled \subseteq Sdk!Settled'
    BY DEF Sdk!ReadFileFails, Sdk!Settled
  <2> QED BY <2>1, SdkHeldMore DEF Sdk!IInv, Sdk!TypeOK, Sdk!ReadFileFails
<1>2. Sdk!TypeOK'
  BY <1>1 DEF Sdk!IInv, Sdk!TypeOK, Sdk!ReadFileFails
<1> QED BY <1>2, SdkKeeps DEF Sdk!ReadFileFails

(* What the last push parsed, and the features of its snapshot.            *)
LEMMA SdkPushed ==
  ASSUME Sdk!IInv
  PROVE  /\ \E docs : /\ DOMAIN docs \subseteq Sdk!Names /\ \A n \in DOMAIN docs : docs[n] \in Sdk!AllDocs
                      /\ sdkParsed = Sdk!ParseFiles(docs)
         /\ sdkSnapshot.known => sdkSnapshot = Sdk!ComputeState(sdkParsed)
         /\ ~sdkSnapshot.known => DOMAIN Sdk!Features(sdkSnapshot) = {} /\ DOMAIN sdkReplica = {}
         /\ DOMAIN Sdk!Features(sdkSnapshot) \subseteq Sdk!Names \X Sdk!Names
<1>1. PICK docs \in Sdk!Held(Sdk!Names) : sdkParsed = Sdk!ParseFiles(docs)
  BY DEF Sdk!IInv, Sdk!ParsedInv
<1>2. DOMAIN docs \subseteq Sdk!Names /\ \A n \in DOMAIN docs : docs[n] \in Sdk!AllDocs
  BY SdkHeld
<1>3. CASE sdkSnapshot.known
  <2>1. sdkSnapshot = Sdk!ComputeState(sdkParsed)
    BY <1>3 DEF Sdk!IInv, Sdk!SnapshotInv
  <2>2. DOMAIN Sdk!Features(Sdk!ComputeState(sdkParsed)) \subseteq Sdk!Names \X Sdk!Names
    BY <1>1, <1>2, SdkFeatures
  <2> QED BY <1>1, <1>2, <1>3, <2>1, <2>2
<1>4. CASE ~sdkSnapshot.known
  <2>1. sdkSnapshot = Sdk!NoSnapshot /\ sdkReplica = Sdk!NoMap
    BY <1>4 DEF Sdk!IInv, Sdk!SnapshotInv
  <2>2. Sdk!NoSnapshot.epics = Sdk!NoMap /\ DOMAIN Sdk!NoMap = {}
    BY DEF Sdk!NoSnapshot, Sdk!NoMap
  <2>3. DOMAIN Sdk!Features(Sdk!NoSnapshot) = {}
    BY <2>2 DEF Sdk!Features
  <2> QED BY <1>1, <1>2, <1>4, <2>1, <2>2, <2>3
<1> QED BY <1>3, <1>4

(* A push folds what it has read, and a receiver takes in the delta.       *)
LEMMA SdkPush ==
  ASSUME Sdk!IInv, Sdk!Push
  PROVE  Sdk!IInv'
<1>1. /\ sdkGot \in Sdk!Held(Sdk!Names) /\ DOMAIN sdkGot \subseteq Sdk!Names
      /\ \A n \in DOMAIN sdkGot : sdkGot[n] \in Sdk!AllDocs
  <2>1. sdkGot \in Sdk!Held(Sdk!Settled) /\ Sdk!Settled \subseteq Sdk!Names
    BY DEF Sdk!IInv, Sdk!TypeOK, Sdk!Settled
  <2>2. sdkGot \in Sdk!Held(Sdk!Names)
    BY <2>1, SdkHeldMore
  <2> QED BY <2>2, SdkHeld
<1>2. /\ sdkParsed' = Sdk!ParseFiles(sdkGot) /\ sdkSnapshot' = Sdk!ComputeState(sdkParsed')
      /\ sdkReplica' = Sdk!Applied(Sdk!ComputeDiff(sdkSnapshot, sdkSnapshot'))
  BY DEF Sdk!Push
<1>3. sdkSnapshot'.known
  BY <1>2 DEF Sdk!ComputeState
<1>4. /\ DOMAIN Sdk!Features(sdkSnapshot') \subseteq Sdk!Names \X Sdk!Names
      /\ \A p \in DOMAIN Sdk!Features(sdkSnapshot') :
           Sdk!Features(sdkSnapshot')[p].id \in Sdk!Ids
             /\ Sdk!Compared \subseteq DOMAIN Sdk!Features(sdkSnapshot')[p]
  BY <1>1, <1>2, SdkFeatures
<1>5. /\ DOMAIN sdkReplica' = DOMAIN Sdk!IndexFeatures(sdkSnapshot')
      /\ \A i \in DOMAIN sdkReplica' : Sdk!Compared \subseteq DOMAIN sdkReplica'[i]
      /\ \A i \in DOMAIN sdkReplica', k \in Sdk!Compared :
           sdkReplica'[i][k] = Sdk!IndexFeatures(sdkSnapshot')[i][k]
  <2>1. DOMAIN Sdk!Features(sdkSnapshot) \subseteq Sdk!Names \X Sdk!Names
    BY SdkPushed
  <2>2. \A i \in DOMAIN sdkReplica : Sdk!Compared \subseteq DOMAIN sdkReplica[i]
    BY DEF Sdk!IInv, Sdk!TypeOK
  <2>3. IF sdkSnapshot.known
          THEN /\ DOMAIN sdkReplica = DOMAIN Sdk!IndexFeatures(sdkSnapshot)
               /\ \A i \in DOMAIN sdkReplica, k \in Sdk!Compared :
                    sdkReplica[i][k] = Sdk!IndexFeatures(sdkSnapshot)[i][k]
          ELSE DOMAIN Sdk!Features(sdkSnapshot) = {} /\ DOMAIN sdkReplica = {}
    BY SdkPushed DEF Sdk!IInv, Sdk!DeltasAddUp
  <2> QED BY ONLY <1>2, <1>4, <2>1, <2>2, <2>3, SdkApplied
<1>6. DOMAIN Sdk!IndexFeatures(sdkSnapshot') \subseteq Sdk!Ids
  BY <1>4, SdkIndex DEF Sdk!IndexFeatures, Sdk!Lasting
<1>7. Sdk!TypeOK'
  <2>1. Sdk!NoMap \in Sdk!Held(Sdk!Settled')
    BY SdkNothingHeld
  <2> QED BY <1>5, <1>6, <2>1 DEF Sdk!IInv, Sdk!TypeOK, Sdk!Push
<1>8. Sdk!ParsedInv' /\ Sdk!SnapshotInv' /\ Sdk!DeltasAddUp'
  BY <1>1, <1>2, <1>3, <1>5 DEF Sdk!ParsedInv, Sdk!SnapshotInv, Sdk!DeltasAddUp
<1> QED BY <1>7, <1>8 DEF Sdk!IInv

(* A push that fails leaves what was pushed before.                        *)
LEMMA SdkPushFails ==
  ASSUME Sdk!IInv, Sdk!PushFails
  PROVE  Sdk!IInv'
<1>1. Sdk!NoMap \in Sdk!Held(Sdk!Settled')
  BY SdkNothingHeld
<1>2. Sdk!TypeOK'
  BY <1>1 DEF Sdk!IInv, Sdk!TypeOK, Sdk!PushFails
<1> QED BY <1>2, SdkKeeps DEF Sdk!PushFails

(* Every step of the SDK keeps the invariant.                              *)
LEMMA SdkNext == Sdk!IInv /\ [Sdk!Next]_(Sdk!vars) => Sdk!IInv'
<1> SUFFICES ASSUME Sdk!IInv, [Sdk!Next]_(Sdk!vars) PROVE Sdk!IInv'
  OBVIOUS
<1>1. CASE UNCHANGED Sdk!vars
  <2>1. Sdk!TypeOK'
    BY <1>1 DEF Sdk!IInv, Sdk!TypeOK, Sdk!Settled, Sdk!vars
  <2> QED BY <1>1, <2>1, SdkKeeps DEF Sdk!vars
<1> QED BY <1>1, SdkEdit, SdkList, SdkListSub, SdkReadFile, SdkReadFileFails, SdkPush,
           SdkPushFails DEF Sdk!Next

(* What the validator accepts is complete in the snapshot.                 *)
LEMMA SdkValid == Sdk!IInv => Sdk!ValidIsComplete
<1> SUFFICES ASSUME Sdk!IInv, sdkSnapshot.known, Sdk!Validate(sdkParsed)
    PROVE  Sdk!ValidIsComplete
  BY DEF Sdk!ValidIsComplete
<1>1. PICK docs : /\ DOMAIN docs \subseteq Sdk!Names /\ \A n \in DOMAIN docs : docs[n] \in Sdk!AllDocs
                  /\ sdkParsed = Sdk!ParseFiles(docs)
  BY SdkPushed
<1>2. sdkSnapshot = Sdk!ComputeState(sdkParsed)
  BY SdkPushed
<1> QED BY <1>1, <1>2, SdkComplete DEF Sdk!ValidIsComplete

(* What a push has read has its tasks' own completions.                    *)
LEMMA SdkTasksAreOwn == Sdk!IInv => Sdk!TasksAreOwn
<1> SUFFICES ASSUME Sdk!IInv, NEW n \in DOMAIN sdkGot
    PROVE  LET lines == sdkGot[n].lines
               says(i) == \E j \in (i + 1)..Len(lines) :
                            /\ lines[j].kind = "status" /\ lines[j].status = "completed"
                            /\ \A k \in (i + 1)..(j - 1) : lines[k].kind # "heading"
           IN  \A i \in Sdk!HeadingAt(lines) :
                 Sdk!ParseTasks(lines)[i].status = "completed" => says(i)
  BY DEF Sdk!TasksAreOwn
<1>1. sdkGot[n] \in Sdk!AllDocs
  BY SdkHeld DEF Sdk!IInv, Sdk!TypeOK
<1> QED BY <1>1, SdkOwn

(* Progress neither leaves its range nor falls back.                       *)
LEMMA SdkProgress == Sdk!IInv => Sdk!ProgressAdvances
<1> SUFFICES ASSUME Sdk!IInv PROVE Sdk!ProgressAdvances
  OBVIOUS
<1>1. \A p \in DOMAIN Sdk!Features(sdkSnapshot) :
        LET f == Sdk!Features(sdkSnapshot)[p]
        IN  /\ \E parsed : f = Sdk!FeatureState(parsed)
            /\ f.phase \in Sdk!Phases /\ f.tasks.total \in Nat /\ f.tasks.completed \in Nat
  <2> SUFFICES ASSUME NEW p \in DOMAIN Sdk!Features(sdkSnapshot)
      PROVE  LET f == Sdk!Features(sdkSnapshot)[p]
             IN  /\ \E parsed : f = Sdk!FeatureState(parsed)
                 /\ f.phase \in Sdk!Phases /\ f.tasks.total \in Nat /\ f.tasks.completed \in Nat
    OBVIOUS
  <2>1. sdkSnapshot.known
    BY SdkPushed
  <2>2. PICK docs : /\ DOMAIN docs \subseteq Sdk!Names /\ \A n \in DOMAIN docs : docs[n] \in Sdk!AllDocs
                    /\ sdkParsed = Sdk!ParseFiles(docs)
    BY SdkPushed
  <2>3. sdkSnapshot = Sdk!ComputeState(sdkParsed)
    BY <2>1, SdkPushed
  <2> QED BY <2>2, <2>3, SdkFeatures
<1>2. Sdk!OverallProgress(sdkSnapshot) \in 0..100
  <2>1. Sdk!Total(sdkSnapshot, "total") \in Nat /\ Sdk!Total(sdkSnapshot, "completed") \in Nat
    BY <1>1, SdkPushed, SdkTotal
  <2> DEFINE t == Sdk!Total(sdkSnapshot, "total")  c == Sdk!Total(sdkSnapshot, "completed") * 100
  <2>2. c \in Nat /\ c <= c /\ t \in Nat
    BY <2>1
  <2> HIDE DEF t, c
  <2>3. t # 0 => Sdk!AtMost100(Sdk!Round(c, t)) \in 0..100
    BY <2>2, SdkPercent
  <2> QED BY <2>3 DEF Sdk!OverallProgress, t, c
<1> SUFFICES ASSUME NEW p \in DOMAIN Sdk!Features(sdkSnapshot), NEW tests \in Sdk!TestCounts
    PROVE  LET f == [Sdk!Features(sdkSnapshot)[p] EXCEPT !.tests = tests]
               next == [ideation |-> "development", development |-> "testing",
                        testing |-> "review", review |-> "done", done |-> "done"]
               further == {[f EXCEPT !.phase = next[f.phase]],
                           [f EXCEPT !.tests.passing = @ + 1],
                           [f EXCEPT !.tasks.completed = @ + 1]}
           IN  /\ Sdk!FeatureProgress(f) \in 0..100
               /\ \A g \in further : Sdk!FeatureProgress(f) <= Sdk!FeatureProgress(g)
  BY <1>2 DEF Sdk!ProgressAdvances
<1> DEFINE f == [Sdk!Features(sdkSnapshot)[p] EXCEPT !.tests = tests]
           next == [ideation |-> "development", development |-> "testing",
                    testing |-> "review", review |-> "done", done |-> "done"]
           entered == [f EXCEPT !.phase = next[f.phase]]
           tested == [f EXCEPT !.tests.passing = @ + 1]
           advanced == [f EXCEPT !.tasks.completed = @ + 1]
<1>3. /\ f.phase \in Sdk!Phases /\ f.tasks.total \in Nat /\ f.tasks.completed \in Nat
      /\ f.tests = tests /\ {"phase", "tasks", "tests"} \subseteq DOMAIN f
      /\ DOMAIN f.tasks = {"total", "completed"}
  <2>1. PICK parsed : Sdk!Features(sdkSnapshot)[p] = Sdk!FeatureState(parsed)
    BY <1>1
  <2> QED BY <1>1, <2>1 DEF Sdk!FeatureState
<1>4. /\ f.tests.total \in Nat /\ f.tests.passing \in Nat
      /\ DOMAIN f.tests = {"total", "passing"}
  BY <1>3 DEF Sdk!TestCounts
<1> HIDE DEF f
<1>5. /\ next[f.phase] \in Sdk!Phases /\ Sdk!PhasePercent[f.phase]
         <= Sdk!PhasePercent[next[f.phase]]
      /\ Sdk!PhasePercent[f.phase] \in Nat
  BY <1>3 DEF Sdk!Phases, Sdk!PhasePercent
<1> HIDE DEF next
<1>6. Sdk!FeatureProgress(f) \in 0..100 /\ Sdk!FeatureProgress(f) <= Sdk!FeatureProgress(entered)
  <2>1. entered.phase = next[f.phase] /\ entered.tasks = f.tasks /\ entered.tests = f.tests
    BY <1>3
  <2> HIDE DEF entered
  <2> QED BY <1>3, <1>4, <1>5, <2>1, SdkFeatureProgress
<1>7. Sdk!FeatureProgress(f) <= Sdk!FeatureProgress(tested)
  <2>1. /\ tested.phase = f.phase /\ tested.tasks = f.tasks
        /\ tested.tests.total = f.tests.total /\ tested.tests.passing = f.tests.passing + 1
    BY <1>3, <1>4
  <2> HIDE DEF tested
  <2> QED BY <1>3, <1>4, <1>5, <2>1, SdkFeatureProgress
<1>8. Sdk!FeatureProgress(f) <= Sdk!FeatureProgress(advanced)
  <2>1. /\ advanced.phase = f.phase /\ advanced.tests = f.tests
        /\ advanced.tasks.total = f.tasks.total
        /\ advanced.tasks.completed = f.tasks.completed + 1
    BY <1>3
  <2> HIDE DEF advanced
  <2> QED BY <1>3, <1>4, <1>5, <2>1, SdkFeatureProgress
<1> QED BY <1>6, <1>7, <1>8 DEF f, next

-----------------------------------------------------------------------------
(* The inductive invariant of McpServer holds throughout.                  *)
LEMMA McpInvariance == Mcp!Spec => []Mcp!IInv
BY McpInit, McpNext, PTL DEF Mcp!Spec

(* That of SdkCore does.                                                   *)
LEMMA SdkInvariance == Sdk!Spec => []Sdk!IInv
BY SdkInit, SdkNext, PTL DEF Sdk!Spec

-----------------------------------------------------------------------------
(* The composition implements each of its parts                            *)

(* A step of one part is a step of it, and a stutter of the others.        *)
LEMMA PartSteps ==
  [AllNext]_allVars => /\ [Next]_vars
                       /\ [Mcp!Next]_(Mcp!vars)
                       /\ [Sdk!Next]_(Sdk!vars)
<1> SUFFICES ASSUME [AllNext]_allVars
             PROVE  /\ [Next]_vars
                    /\ [Mcp!Next]_(Mcp!vars)
                    /\ [Sdk!Next]_(Sdk!vars)
  OBVIOUS
<1>1. \/ Next /\ UNCHANGED <<mcpVars, sdkVars>>
      \/ Mcp!Next /\ UNCHANGED <<vars, sdkVars>>
      \/ Sdk!Next /\ UNCHANGED <<vars, mcpVars>>
      \/ UNCHANGED <<vars, mcpVars, sdkVars>>
  BY DEF AllNext, Cli, McpOnly, SdkOnly, allVars, Next, PublishStep, Mcp!Next, Sdk!Next
<1>2. UNCHANGED mcpVars => UNCHANGED Mcp!vars
  BY DEF mcpVars, Mcp!vars
<1>3. UNCHANGED sdkVars => UNCHANGED Sdk!vars
  BY DEF sdkVars, Sdk!vars
<1> QED BY <1>1, <1>2, <1>3

(* A producer behaves, as the command line, as the MCP server or as the    *)
(* SDK, as the module of each says, and the steps of one are none of       *)
(* another: they share the bundled schemas, and no state.                  *)
THEOREM ImplementsParts == AllSpec => Spec /\ Mcp!Spec /\ Sdk!Spec
<1>1. AllInit => Init /\ Mcp!Init /\ Sdk!Init
  BY DEF AllInit
<1> QED
  BY <1>1, PartSteps, PTL DEF AllSpec, Spec, Mcp!Spec, Sdk!Spec

-----------------------------------------------------------------------------
(* The command line, the MCP server and the SDK keep their types: no       *)
(* result without an end of its call, no file both unread and read.        *)
THEOREM TypesCorrect == AllSpec => []TypesOK
<1>1. Mcp!IInv => Mcp!TypeOK
  BY DEF Mcp!IInv
<1>2. Sdk!IInv => Sdk!TypeOK
  BY DEF Sdk!IInv
<1>3. TypeOK /\ Mcp!TypeOK /\ Sdk!TypeOK => TypesOK
  BY DEF TypesOK
<1> QED
  BY <1>1, <1>2, <1>3, TypeCorrect, McpInvariance, SdkInvariance, ImplementsParts, PTL

(* publish_event: what it reports as published is stored under the key it  *)
(* was called with, once for all calls with that key, whatever answers are *)
(* lost and however the schemas of the API change; it has the payload of   *)
(* the call, unless it is an earlier call's event.                         *)
THEOREM PublishedStaysStored == AllSpec => []PublishedIsStored
<1>1. Mcp!IInv => PublishedIsStored
  BY McpPublished DEF PublishedIsStored
<1> QED BY <1>1, McpInvariance, ImplementsParts, PTL

(* The error codes of the MCP tools: of a call that ends in invalid_params *)
(* nothing is ever stored, and a server that has its token and its URL     *)
(* says it only of arguments that the schemas of the binary refuse, or of  *)
(* a type that the API did not know during the call.                       *)
THEOREM AgentsAreBlamedFairly == AllSpec => []InvalidParamsIsTheAgents
<1>1. Mcp!IInv => InvalidParamsIsTheAgents
  BY McpBlame DEF InvalidParamsIsTheAgents
<1> QED BY <1>1, McpInvariance, ImplementsParts, PTL

(* validate and computeState: every feature of valid documents is in the   *)
(* snapshot, in one epic and once, and the map diff.ts makes of it has it. *)
THEOREM ValidDocumentsAreComplete == AllSpec => []ValidIsComplete
<1>1. Sdk!IInv => ValidIsComplete
  BY SdkValid DEF ValidIsComplete
<1> QED BY <1>1, SdkInvariance, ImplementsParts, PTL

(* computeDiff: whoever applies every delta, and takes a change only from  *)
(* the value it has, holds the eight compared fields of every feature of   *)
(* the last snapshot, for any sequence of pushes of any documents, valid   *)
(* or not.  The epic of a feature is not among them.                       *)
THEOREM DeltasReproduceSnapshots == AllSpec => []DeltasAddUp
<1>1. Sdk!IInv => DeltasAddUp
  BY DEF Sdk!IInv, DeltasAddUp
<1> QED BY <1>1, SdkInvariance, ImplementsParts, PTL

(* parseTasks: each task that is completed has a status line that says so  *)
(* in its own section.                                                     *)
THEOREM TasksKeepToTheirSections == AllSpec => []TasksAreOwn
<1>1. Sdk!IInv => TasksAreOwn
  BY SdkTasksAreOwn DEF TasksAreOwn
<1> QED BY <1>1, SdkInvariance, ImplementsParts, PTL

(* computeFeatureProgress and computeOverallProgress: a percentage, which  *)
(* a completed task, a passing test or the next phase never lowers, for    *)
(* any number of tasks, with tests and without.                            *)
THEOREM ProgressIsMonotone == AllSpec => []ProgressAdvances
<1>1. Sdk!IInv => ProgressAdvances
  BY SdkProgress DEF ProgressAdvances
<1> QED BY <1>1, SdkInvariance, ImplementsParts, PTL
===============================================================================
