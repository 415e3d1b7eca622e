----------------------------- MODULE MCProducers -----------------------------
(***************************************************************************)
(* A small instance of Producers for TLC.                                  *)
(***************************************************************************)
EXTENDS Producers

Heading(n) == [kind |-> "heading", number |-> n, status |-> "other"]

StatusLine(s) == [kind |-> "status", number |-> 0, status |-> s]

Blank == [kind |-> "blank", number |-> 0, status |-> "other"]

AnEpic ==
  [type |-> "epic", id |-> "a", epic |-> "a", title |-> "t", phase |-> "done",
   assignee |-> "none", assigneeType |-> "other", meta |-> "none", lines |-> <<>>]

AFeature ==
  [AnEpic EXCEPT !.type = "feature", !.id = "b", !.phase = "review", !.assignee = "x",
                 !.assigneeType = "human", !.meta = "m",
                 !.lines = <<Heading(1), Blank, StatusLine("completed"), Heading(2)>>]

(* The first file is of the top directory.  The others are of one          *)
(* sub-directory, and may hold features with one id, of two epics.         *)
SomeDocs ==
  << {AnEpic, [AnEpic EXCEPT !.id = "b"], [AnEpic EXCEPT !.type = "note"]},
     {AFeature,
      [AFeature EXCEPT !.title = "u", !.phase = "other", !.assignee = "none", !.meta = "odd"],
      [AFeature EXCEPT !.epic = "b", !.lines = <<Heading(2), StatusLine("other")>>],
      [AnEpic EXCEPT !.id = "b", !.title = "u"],
      [AFeature EXCEPT !.type = "malformed"]},
     {AFeature,
      [AFeature EXCEPT !.epic = "b", !.type = "fix", !.assignee = "y",
                       !.assigneeType = "agent", !.meta = "n"],
      [AFeature EXCEPT !.id = "a", !.assigneeType = "other"],
      [AFeature EXCEPT !.lines = <<Heading(1), Heading(2), StatusLine("completed")>>]} >>

SomeDirs == <<0, 1, 1>>

(* One type is in the bundle, and two of the three payloads are valid.     *)
SomeBundle == {[type |-> "known", payloads |-> {"good", "fine"}]}

AnArgv == [file |-> FALSE, project |-> "p", name |-> "default", flags |-> <<>>, ids |-> FALSE,
           type |-> "known", data |-> "good", json |-> TRUE, actorType |-> "any",
           agentId |-> FALSE, sessionFile |-> FALSE]

SomeFlags ==
  {<<>>, <<[key |-> "machine", value |-> "flag"]>>, <<[key |-> "", value |-> "flag"]>>,
   <<[key |-> "team", value |-> "flag"], [key |-> "team", value |-> "flag2"]>>}

SomeArgvs ==
  {[AnArgv EXCEPT !.file = TRUE, !.flags = f] : f \in SomeFlags}
  \cup {[AnArgv EXCEPT !.file = TRUE, !.ids = TRUE]}
  \cup {[AnArgv EXCEPT !.flags = f, !.json = j] : f \in SomeFlags, j \in BOOLEAN}
  \cup {[AnArgv EXCEPT !.actorType = t, !.agentId = a, !.sessionFile = s] :
          t \in {"any", "agent", "human"}, a \in BOOLEAN, s \in BOOLEAN}

AnEnv == [api |-> FALSE, auth |-> FALSE, preset |-> "unset", token |-> "unset", machine |-> TRUE]

SomeEnvs ==
  {[AnEnv EXCEPT !.token = t] : t \in {"unset", "blank", "token"}}
  \cup {[AnEnv EXCEPT !.preset = p, !.machine = FALSE] : p \in {"staging", "other"}}
  \cup {[AnEnv EXCEPT !.api = TRUE, !.auth = a] : a \in BOOLEAN}

ALine == [text |-> "event", type |-> "known", data |-> "good", source |-> "absent",
          name |-> "none", attributes |-> [k \in {} |-> "line"], actor |-> "none"]

Overriding == [ALine EXCEPT !.source = "object", !.name = "line", !.actor = "line",
                            !.attributes = [k \in {"project", "team"} |-> "line"]]

SomeLines ==
  {[ALine EXCEPT !.text = t] : t \in {"blank", "notJson", "notObject", "noType"}}
  \cup {ALine, Overriding, [ALine EXCEPT !.type = "new"], [ALine EXCEPT !.data = "bad"],
        [ALine EXCEPT !.source = "odd"]}

SomeInputs ==
  {<<>>} \cup {<<l>> : l \in SomeLines}
  \cup {<<k, l>> : k \in {ALine, [ALine EXCEPT !.text = "blank"]}, l \in SomeLines}

(* The other project is registered.  A batch looks at neither sessions nor *)
(* credentials.                                                            *)
CliInit ==
  /\ Init /\ registry["p"] # "t2" /\ registry["q"] = "t2"
  /\ argv.file => session = "none" /\ alternate = "none" /\ login = "none"

CliIdle ==
  /\ argv = AnArgv /\ env = AnEnv
  /\ registry = [p \in Projects |-> "none"] /\ legible = TRUE
  /\ session = "none" /\ alternate = "none" /\ login = "none"
  /\ Init

(* One part at a time: the others stay in one initial state.               *)
MCInit ==
  /\ part \in {"cli", "mcp", "sdk"}
  /\ IF part = "cli" THEN CliInit ELSE CliIdle
  /\ IF part = "mcp" THEN Mcp!Init ELSE mcpConfig = "ok" /\ Mcp!Init
  /\ IF part = "sdk" THEN Sdk!Init
     ELSE sdkFiles = [n \in Sdk!Names |-> Sdk!NoFile] /\ Sdk!Init

MCSpec == MCInit /\ [][AllNext]_allVars
==============================================================================
