------------------------------- MODULE MCAgent -------------------------------
(***************************************************************************)
(* Eighteen parts of the agent that share no state: a behaviour exercises  *)
(* the part in focus while the others rest in an initial state.            *)
(***************************************************************************)
EXTENDS Thinking, React, Worker, McpClient, Compaction, Profile, Telegram,
        TelegramChat, ActivityBroker, TaskRun, Delegation, Lifecycle, ChunkStream, MCSkills,
        SharedTables, FileEdits, ConfigSaves, MCLearning

MCMemories == {[tokens |-> 4, capacity |-> 3], [tokens |-> 8, capacity |-> 2],
               [tokens |-> 0, capacity |-> 2]}

MCEditKinds == {[e1 |-> "patch", e2 |-> "edit", e3 |-> "write"],
                [e1 |-> "patch", e2 |-> "patch", e3 |-> "append"]}

MCParts == {"thinking", "react", "worker", "mcp", "memory", "profile", "telegram", "chat",
            "broker", "task", "delegation", "shutdown", "stream", "skills", "tables",
            "edits", "config", "learning"}

VARIABLE focus

\* A part out of focus has one initial state.
MCInit ==
  /\ focus \in MCParts
  /\ ThinkInit
  /\ ReactInit /\ (focus # "react" => reactMode = "execute")
  /\ WorkerInit /\ (focus # "worker" => ~step.file /\ ~step.check /\ ~step.hint)
  /\ McpInit
  /\ CompactionInit /\ (focus # "memory" => limits.tokens = 0)
  /\ ProfileInit
  /\ TelegramInit /\ (focus # "telegram" => \A t \in Tasks : call[t].severity = "low")
  /\ ChatInit /\ commands = (IF focus = "chat" THEN {2} ELSE {})
  /\ BrokerInit
  /\ TaskInit
  /\ DelegInit
  /\ LifeInit /\ (focus # "shutdown" => watchers = {})
  /\ StreamInit /\ (focus # "stream" => door = "http" /\ dialect = "openai")
  /\ IF focus = "skills" THEN SkillInit ELSE SkillRests
  /\ TableInit /\ (focus # "tables" => table = "todo")
  /\ EditInit /\ (focus # "edits" => faulty = {} /\ ~checker /\ kind["e3"] = "write")
  /\ ConfigInit /\ (focus # "config" => \A s \in Saves : updates[s] = Providers)
  /\ LearnInit /\ (focus # "learning" => ending["d3"].long)

\* The parts other than p rest.
Rest(p) ==
  /\ UNCHANGED focus
  /\ IF p = "thinking" THEN TRUE ELSE UNCHANGED thinkVars
  /\ IF p = "react" THEN TRUE ELSE UNCHANGED reactVars
  /\ IF p = "worker" THEN TRUE ELSE UNCHANGED workerVars
  /\ IF p = "mcp" THEN TRUE ELSE UNCHANGED mcpVars
  /\ IF p = "memory" THEN TRUE ELSE UNCHANGED memVars
  /\ IF p = "profile" THEN TRUE ELSE UNCHANGED profileVars
  /\ IF p = "telegram" THEN TRUE ELSE UNCHANGED tgVars
  /\ IF p = "chat" THEN TRUE ELSE UNCHANGED chatVars
  /\ IF p = "broker" THEN TRUE ELSE UNCHANGED brokerVars
  /\ IF p = "task" THEN TRUE ELSE UNCHANGED taskVars
  /\ IF p = "delegation" THEN TRUE ELSE UNCHANGED delegVars
  /\ IF p = "shutdown" THEN TRUE ELSE UNCHANGED lifeVars
  /\ IF p = "stream" THEN TRUE ELSE UNCHANGED streamVars
  /\ IF p = "skills" THEN TRUE ELSE UNCHANGED skillVars
  /\ IF p = "tables" THEN TRUE ELSE UNCHANGED tableVars
  /\ IF p = "edits" THEN TRUE ELSE UNCHANGED editVars
  /\ IF p = "config" THEN TRUE ELSE UNCHANGED configVars
  /\ IF p = "learning" THEN TRUE ELSE UNCHANGED learnVars

MCNext ==
  \/ focus = "thinking" /\ ThinkNext /\ Rest("thinking")
  \/ focus = "react" /\ ReactNext /\ Rest("react")
  \/ focus = "worker" /\ WorkerNext /\ Rest("worker")
  \/ focus = "mcp" /\ McpNext /\ Rest("mcp")
  \/ focus = "memory" /\ CompactionNext /\ Rest("memory")
  \/ focus = "profile" /\ ProfileNext /\ Rest("profile")
  \/ focus = "telegram" /\ TelegramNext /\ Rest("telegram")
  \/ focus = "chat" /\ ChatNext /\ Rest("chat")
  \/ focus = "broker" /\ BrokerNext /\ Rest("broker")
  \/ focus = "task" /\ TaskNext /\ Rest("task")
  \/ focus = "delegation" /\ DelegNext /\ Rest("delegation")
  \/ focus = "shutdown" /\ LifeNext /\ Rest("shutdown")
  \/ focus = "stream" /\ StreamNext /\ Rest("stream")
  \/ focus = "skills" /\ SkillNext /\ Rest("skills")
  \/ focus = "tables" /\ TableNext /\ Rest("tables")
  \/ focus = "edits" /\ EditNext /\ Rest("edits")
  \/ focus = "config" /\ ConfigNext /\ Rest("config")
  \/ focus = "learning" /\ LearnNext /\ Rest("learning")

mcVars == <<thinkVars, reactVars, workerVars, mcpVars, memVars, profileVars, tgVars,
            chatVars, brokerVars, taskVars, delegVars, lifeVars, streamVars,
            skillVars, tableVars, editVars, configVars, learnVars, focus>>

MCSpec == MCInit /\ [][MCNext]_mcVars

(* Type correctness of the part in focus: its state stays in what the      *)
(* code's types and limits allow.                                          *)
AgentTypeOK ==
  CASE focus = "thinking"   -> ThinkTypeOK      [] focus = "react"  -> ReactTypeOK
    [] focus = "worker"     -> WorkerTypeOK     [] focus = "mcp"    -> McpTypeOK
    [] focus = "memory"     -> CompactionTypeOK [] focus = "profile" -> ProfileTypeOK
    [] focus = "telegram"   -> TelegramTypeOK   [] focus = "chat"   -> ChatTypeOK
    [] focus = "broker"     -> BrokerTypeOK     [] focus = "task"   -> TaskTypeOK
    [] focus = "delegation" -> DelegTypeOK      [] focus = "shutdown" -> LifeTypeOK
    [] focus = "stream"     -> StreamTypeOK     [] focus = "tables" -> TableTypeOK
    [] focus = "edits"      -> EditTypeOK       [] focus = "config" -> ConfigTypeOK
    [] focus = "learning"   -> LearnTypeOK      [] OTHER -> TRUE
=============================================================================
