------------------------ MODULE PublishCommand_proofs ------------------------
(***************************************************************************)
(* Proofs about `no-tickets publish` up to its request, for any command    *)
(* lines, environments, batches, registries and bundle, and any number of  *)
(* changes by other commands meanwhile.                                    *)
(***************************************************************************)
EXTENDS PublishCommand, TLAPS

(* Nothing is read, resolved or sent when the command begins.              *)
LEMMA InitInv == Init => IInv
<1> SUFFICES ASSUME Init PROVE IInv
  OBVIOUS
<1> USE DEF Init
<1>1. argv \in Argv /\ argv.project \in Projects
  BY InputsAssumption DEF Argv
<1>2. TypeOK
  <2>1. changes \in 0 .. MaxChanges /\ events = <<>> /\ DOMAIN events = {}
    BY InputsAssumption
  <2>2. registry[argv.project] \in Tokens \cup {"none"}
    BY <1>1
  <2>3. were \in [registered : SUBSET (Tokens \cup {"none"}), live : BOOLEAN,
                  loggedIn : SUBSET {"none", "prod", "staging"}]
    BY <2>2
  <2> QED BY <2>1, <2>3 DEF TypeOK, Steps
<1>3. GivenInv /\ WorldInv
  BY <1>1 DEF GivenInv, WorldInv
<1>4. BatchInv /\ RequestInv
  BY DEF BatchInv, RequestInv, NoRequest
<1>5. ReadyInv
  BY DEF ReadyInv, NoRequest
<1> QED BY <1>2, <1>3, <1>4, <1>5 DEF IInv

-----------------------------------------------------------------------------
(* One lemma for each step                                                 *)

(* main decides between a batch and a single event. *)
LEMMA DispatchInv ==
  ASSUME IInv, Dispatch
  PROVE  IInv'
<1> USE InputsAssumption DEF IInv, given, world, locals, Quietly, At, Goes, Fails,
        Dispatch, Usage
<1>1. TypeOK'
  BY DEF TypeOK, Steps, ExitCodes
<1>2. GivenInv' /\ WorldInv'
  BY DEF GivenInv, WorldInv
<1>3. BatchInv'
  BY DEF BatchInv, GivenInv, RequestInv
<1>4. ReadyInv'
  BY DEF ReadyInv, RequestInv
<1>5. RequestInv'
  BY DEF RequestInv
<1> QED BY <1>1, <1>2, <1>3, <1>4, <1>5

(* A batch goes on with at least one line. *)
LEMMA ReadInputInv ==
  ASSUME IInv, ReadInput \/ InputFails
  PROVE  IInv'
<1> USE InputsAssumption DEF IInv, given, world, locals, Quietly, At, Goes, Fails,
        ReadInput, InputFails
<1>1. TypeOK'
  BY DEF TypeOK, Steps, ExitCodes
<1>2. GivenInv' /\ WorldInv'
  BY DEF GivenInv, WorldInv
<1>3. BatchInv'
  BY DEF BatchInv, GivenInv, RequestInv
<1>4. ReadyInv'
  BY DEF ReadyInv, RequestInv
<1>5. RequestInv'
  BY DEF RequestInv
<1> QED BY <1>1, <1>2, <1>3, <1>4, <1>5

(* The machine hash decides about no more than the source. *)
LEMMA MachineHashInv ==
  ASSUME IInv, MachineHash \/ MachineHashFails
  PROVE  IInv'
<1> USE InputsAssumption DEF IInv, given, world, locals, Quietly, At, Goes, Fails,
        MachineHash, MachineHashFails
<1>1. TypeOK'
  <2>1. salt' \in BOOLEAN /\ hash' \in {"hash", "none"}
    BY DEF TypeOK
  <2>2. /\ UNCHANGED <<registry, legible, session, alternate, login, changes, exit, host, bearer>>
        /\ UNCHANGED <<events, were>> /\ pc' = "metadata" /\ exit = 99 /\ UNCHANGED argv
    OBVIOUS
  <2> HIDE DEF MachineHash, MachineHashFails
  <2> QED BY <2>1, <2>2 DEF TypeOK, Steps, ExitCodes
<1>2. GivenInv' /\ WorldInv'
  BY DEF GivenInv, WorldInv
<1>3. BatchInv'
  BY DEF BatchInv, GivenInv, RequestInv
<1>4. ReadyInv'
  BY ZenonT(40) DEF ReadyInv, RequestInv
<1>5. RequestInv'
  BY DEF RequestInv
<1> QED BY <1>1, <1>2, <1>3, <1>4, <1>5

(* The source is built, or its flags are refused. *)
LEMMA BuildSourceInv ==
  ASSUME IInv, BuildSource
  PROVE  IInv'
<1> USE InputsAssumption DEF IInv, given, world, locals, Quietly, At, Goes, Fails,
        BuildSource, Usage
<1>1. TypeOK'
  BY DEF TypeOK, Steps, ExitCodes
<1>2. GivenInv' /\ WorldInv'
  BY DEF GivenInv, WorldInv
<1>3. BatchInv'
  BY DEF BatchInv, GivenInv, RequestInv
<1>4. ReadyInv'
  BY DEF ReadyInv, RequestInv
<1>5. RequestInv'
  BY DEF RequestInv
<1> QED BY <1>1, <1>2, <1>3, <1>4, <1>5

(* Either every line becomes an envelope, or the batch is over. *)
LEMMA BuildEnvelopesInv ==
  ASSUME IInv, BuildEnvelopes
  PROVE  IInv'
<1> USE InputsAssumption DEF IInv, given, world, locals, Quietly, At, Goes, Fails,
        BuildEnvelopes, Envelope
<1>1. TypeOK'
  BY DEF TypeOK, GivenInv, Steps, ExitCodes
<1>2. GivenInv' /\ WorldInv'
  BY DEF GivenInv, WorldInv
<1>3. BatchInv'
  BY DEF BatchInv, GivenInv, RequestInv
<1>4. ReadyInv'
  BY DEF ReadyInv, GivenInv, RequestInv
<1>5. RequestInv'
  BY DEF RequestInv
<1> QED BY <1>1, <1>2, <1>3, <1>4, <1>5

(* The host is one of four. *)
LEMMA ResolveUrlsInv ==
  ASSUME IInv, ResolveUrls
  PROVE  IInv'
<1> USE InputsAssumption DEF IInv, given, world, locals, Quietly, At, Goes, Fails,
        ResolveUrls, Usage, UrlsRefused, ResolvedHost, Hosts, Env
<1>1. TypeOK'
  <2>1. env \in Env
    BY DEF GivenInv
  <2>2. ~UrlsRefused => ResolvedHost \in Hosts
    BY <2>1
  <2> HIDE DEF UrlsRefused, ResolvedHost
  <2> QED BY <2>2 DEF TypeOK, Steps, ExitCodes
<1>2. GivenInv' /\ WorldInv'
  BY DEF GivenInv, WorldInv
<1>3. BatchInv'
  BY DEF BatchInv, GivenInv, RequestInv
<1>4. ReadyInv'
  BY DEF ReadyInv, RequestInv
<1>5. RequestInv'
  BY DEF RequestInv
<1> QED BY <1>1, <1>2, <1>3, <1>4, <1>5

(* The bearer is of the environment, or registered now. *)
LEMMA ResolvePublishTokenInv ==
  ASSUME IInv, ResolvePublishToken
  PROVE  IInv'
<1> USE InputsAssumption DEF IInv, given, world, locals, Quietly, At, Goes, Fails,
        ResolvePublishToken
<1>a. argv.project \in Projects /\ registry[argv.project] \in Tokens \cup {"none"}
  BY DEF TypeOK, GivenInv, Argv
<1>1. TypeOK'
  BY <1>a DEF TypeOK, Steps, ExitCodes
<1>2. GivenInv' /\ WorldInv'
  BY DEF GivenInv, WorldInv
<1>3. BatchInv'
  BY DEF BatchInv, GivenInv, RequestInv
<1>4. ReadyInv'
  BY <1>a, TokensAssumption DEF ReadyInv, RequestInv, WorldInv
<1>5. RequestInv'
  BY DEF RequestInv
<1> QED BY <1>1, <1>2, <1>3, <1>4, <1>5

(* The actor is the first that the flags admit and that is there. *)
LEMMA ResolveActorInv ==
  ASSUME IInv, ResolveActor
  PROVE  IInv'
<1> USE InputsAssumption DEF IInv, given, world, locals, Quietly, At, Goes, Fails,
        ResolveActor, Envelope
<1>a. argv.json => events' = <<Envelope(argv.type, argv.data, base, ResolvedActor)>>
  OBVIOUS
<1>b. argv.json => /\ DOMAIN events' = {1} /\ events'[1].actor = ResolvedActor
  BY <1>a
<1>c. ResolvedActor \in Actors
  BY DEF ResolvedActor, Actors
<1>d. argv.json => \A i \in DOMAIN events' : events'[i].actor = ResolvedActor
  BY <1>b
<1>1. TypeOK'
  <2>1. \A i \in DOMAIN events' : events'[i].actor \in Actors
    BY <1>c, <1>d DEF TypeOK, GivenInv
  <2> QED BY <2>1 DEF TypeOK, Steps, ExitCodes
<1>2. GivenInv' /\ WorldInv'
  BY DEF GivenInv, WorldInv
<1>3. BatchInv'
  BY DEF BatchInv, GivenInv, RequestInv
<1>4. ReadyInv'
  <2>1. /\ ResolvedActor \in {"flags", "alternate", "session"} => argv.actorType # "human"
        /\ ResolvedActor = "human" => argv.actorType # "agent" /\ host \in were.loggedIn
        /\ ResolvedActor = "session" => were.live
        /\ ResolvedActor = "flags" => argv.agentId
    BY DEF ResolvedActor, AgentOk, HumanOk, WorldInv
  <2>2. CASE argv.json
    BY <1>d, <2>1, <2>2 DEF ReadyInv, RequestInv
  <2>3. CASE ~argv.json
    BY <2>3 DEF ReadyInv, RequestInv
  <2> QED BY <2>2, <2>3
<1>5. RequestInv'
  BY DEF RequestInv
<1> QED BY <1>1, <1>2, <1>3, <1>4, <1>5

(* A URL that cannot be parsed ends the command before the request. *)
LEMMA ClientFailsInv ==
  ASSUME IInv, ClientFails
  PROVE  IInv'
<1> USE InputsAssumption DEF IInv, given, world, locals, Quietly, At, Goes, Fails,
        ClientFails, Usage
<1>1. TypeOK'
  BY DEF TypeOK, Steps, ExitCodes
<1>2. GivenInv' /\ WorldInv'
  BY DEF GivenInv, WorldInv
<1>3. BatchInv'
  BY DEF BatchInv, GivenInv, RequestInv
<1>4. ReadyInv'
  BY DEF ReadyInv, RequestInv
<1>5. RequestInv'
  BY DEF RequestInv
<1> QED BY <1>1, <1>2, <1>3, <1>4, <1>5

(* The request says what has been resolved, and the answer decides. *)
LEMMA PostInv ==
  ASSUME IInv, Post
  PROVE  IInv'
<1> USE InputsAssumption DEF IInv, given, world, locals, Quietly, At, Goes, Fails,
        Post, Verdicts
<1>a. exit' \in {0, 3, 4, 7, 8} /\ pc' = "over"
  OBVIOUS
<1>1. TypeOK'
  BY <1>a DEF TypeOK, Steps, ExitCodes
<1>2. GivenInv' /\ WorldInv'
  BY DEF GivenInv, WorldInv
<1>3. BatchInv'
  BY DEF BatchInv, GivenInv, RequestInv
<1>4. ReadyInv'
  BY DEF ReadyInv, RequestInv
<1>5. RequestInv'
  BY <1>a DEF RequestInv
<1> QED BY <1>1, <1>2, <1>3, <1>4, <1>5

-----------------------------------------------------------------------------
(* Other commands change what publish reads, and no more than that: what   *)
(* it has read stays among what it could have read.                        *)
LEMMA ElsewhereInv ==
  ASSUME IInv,
         \/ \E p \in Projects, t \in Tokens \cup {"none"} : TokenChanges(p, t)
         \/ \E s \in {"none", "live", "expired"} : SessionChanges(s)
         \/ AlternateExpires
         \/ \E h \in {"none", "prod", "staging"} : LoginChanges(h)
  PROVE  IInv'
<1> USE InputsAssumption DEF IInv, Changes, Elsewhere, given, locals
<1>1. changes' \in 0 .. MaxChanges
  BY DEF TypeOK, TokenChanges, SessionChanges, AlternateExpires, LoginChanges
<1>2. CASE \E p \in Projects, t \in Tokens \cup {"none"} : TokenChanges(p, t)
  <2>1. PICK p \in Projects, t \in Tokens \cup {"none"} : TokenChanges(p, t)
    BY <1>2
  <2>2. registry' \in [Projects -> Tokens \cup {"none"}]
    BY <2>1 DEF TokenChanges, TypeOK
  <2>3. TypeOK'
    BY <1>1, <2>1, <2>2, ZenonT(40) DEF TypeOK, TokenChanges, GivenInv, Argv
  <2>a. were \in [registered : SUBSET (Tokens \cup {"none"}), live : BOOLEAN,
                  loggedIn : SUBSET {"none", "prod", "staging"}]
    BY DEF TypeOK
  <2>4. /\ were'.live = were.live /\ were'.loggedIn = were.loggedIn
        /\ were.registered \subseteq were'.registered
        /\ registry'[argv.project] \in were'.registered
    BY <2>1, <2>a DEF TokenChanges, WorldInv, TypeOK, GivenInv, Argv
  <2> QED BY <2>1, <2>3, <2>4 DEF TokenChanges, GivenInv, WorldInv, BatchInv, ReadyInv, RequestInv
<1>3. CASE \E s \in {"none", "live", "expired"} : SessionChanges(s)
  <2>1. PICK s \in {"none", "live", "expired"} : SessionChanges(s)
    BY <1>3
  <2>3. /\ were'.registered = were.registered /\ were'.loggedIn = were.loggedIn
        /\ were'.live = (were.live \/ s = "live")
        /\ were' \in [registered : SUBSET (Tokens \cup {"none"}), live : BOOLEAN,
                      loggedIn : SUBSET {"none", "prod", "staging"}]
    BY <2>1 DEF SessionChanges, TypeOK
  <2>2. TypeOK'
    BY <1>1, <2>1, <2>3 DEF TypeOK, SessionChanges
  <2> QED BY <2>1, <2>2, <2>3 DEF SessionChanges, GivenInv, WorldInv, BatchInv, ReadyInv, RequestInv
<1>4. CASE AlternateExpires
  BY <1>1, <1>4
  DEF AlternateExpires, TypeOK, GivenInv, WorldInv, BatchInv, ReadyInv, RequestInv
<1>5. CASE \E h \in {"none", "prod", "staging"} : LoginChanges(h)
  <2>1. PICK h \in {"none", "prod", "staging"} : LoginChanges(h)
    BY <1>5
  <2>2. TypeOK'
    BY <1>1, <2>1 DEF TypeOK, LoginChanges
  <2>3. /\ were'.registered = were.registered /\ were'.live = were.live
        /\ were'.loggedIn = were.loggedIn \cup {h}
    BY <2>1 DEF LoginChanges, TypeOK
  <2> QED BY <2>1, <2>2, <2>3 DEF LoginChanges, GivenInv, WorldInv, BatchInv, ReadyInv, RequestInv
<1> QED BY <1>2, <1>3, <1>4, <1>5

(* Every step keeps the inductive invariant. *)
LEMMA InvariantNext == IInv /\ [Next]_vars => IInv'
<1> SUFFICES ASSUME IInv, [Next]_vars PROVE IInv'
  OBVIOUS
<1>1. CASE PublishStep
  BY <1>1, DispatchInv, ReadInputInv, MachineHashInv, BuildSourceInv, BuildEnvelopesInv,
     ResolveUrlsInv, ResolvePublishTokenInv, ResolveActorInv, ClientFailsInv, PostInv
  DEF PublishStep
<1>2. CASE UNCHANGED vars
  BY <1>2 DEF IInv, TypeOK, GivenInv, WorldInv, BatchInv, ReadyInv, RequestInv,
              vars, given, world, locals
<1> QED BY <1>1, <1>2, ElsewhereInv DEF Next

-----------------------------------------------------------------------------
(* The results                                                             *)

(* The inductive invariant holds in every run of the command.              *)
THEOREM Invariance == Spec => []IInv
BY InitInv, InvariantNext, PTL DEF Spec

(* The state of the command and of the files it reads is well typed.       *)
THEOREM TypeCorrect == Spec => []TypeOK
<1>1. IInv => TypeOK
  BY DEF IInv
<1> QED BY <1>1, Invariance, PTL

(* parse_jsonl and the loop of publish_batch::run: either every line is in *)
(* the request, in the order of the file, or nothing is sent; and nothing  *)
(* is when the batch ends with 1.                                          *)
THEOREM BatchIsAllOrNothing == Spec => []OneBadLineStopsAll
<1>1. IInv => OneBadLineStopsAll
  BY DEF IInv, BatchInv, RequestInv, OneBadLineStopsAll
<1> QED BY <1>1, Invariance, PTL

(* resolve_publish_token: the bearer belongs to the project of the command *)
(* line or to its environment, whatever other commands do meanwhile.       *)
THEOREM BearerIsOfTheProject == Spec => []BearerIsRegistered
<1>1. IInv => BearerIsRegistered
  BY DEF IInv, ReadyInv, RequestInv, BearerIsRegistered
<1> QED BY <1>1, Invariance, PTL

(* actor::resolve: the actor a single event names was there to cause it;   *)
(* validate_and_build_envelope: a batch event names its line's.            *)
THEOREM ActorsAreReal == Spec => []ActorWasThere
<1>1. IInv => ActorWasThere
  BY DEF IInv, TypeOK, BatchInv, ReadyInv, RequestInv, ActorWasThere
<1> QED BY <1>1, Invariance, PTL
=============================================================================
