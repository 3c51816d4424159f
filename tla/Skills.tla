--------------------------------- MODULE Skills ---------------------------------
(***************************************************************************)
(* Skills: the catalog in the system prompt (src/context_engine/mod.rs),   *)
(* the SKILL.md files and their frontmatter (src/context_engine/skills.rs), *)
(* the load_skill tool (src/tools/load_skill.rs), and what a subagent gets  *)
(* of both (src/agent_runtime/templates.rs, ToolRegistry::subset).         *)
(*                                                                         *)
(* A registry has one LoadSkillTool.  The registry of a subagent is a       *)
(* subset of the parent's and shares its tools, so parent and subagents    *)
(* load through one set of loaded skills.  On the command line a process   *)
(* has one registry; the Feishu server, where there are no subagents,      *)
(* builds one for every message, over the same history.                    *)
(*                                                                         *)
(* A SKILL.md is its frontmatter and its body; calls of load_skill run in  *)
(* threads, since the tool only reads; anybody may change the files.       *)
(***************************************************************************)
EXTENDS Naturals, Sequences, FiniteSets, SequencesExt

CONSTANTS
  SkillIds,       \* ids a call may name
  BuiltIn,        \* the texts under resources/skills, by id
  Texts,          \* what a SKILL.md may be: [closed, fields]
  NoFile,         \* no SKILL.md of that id in the workspace
  Enabled,        \* TINY_CLAW_SKILLS and the built-in skill
  Parent,
  Subagents,
  TemplateSkills, \* the skill set of the subagents' template
  Profile,        \* the tools of the subagents' profile
  RegistryTools,  \* the tools of the parent's registry
  LoadCalls,      \* calls of load_skill, the threads they run in
  CallerOf        \* the agent of each call

Agents == Subagents \cup {Parent}
Written == SkillIds \ DOMAIN BuiltIn

ASSUME SkillsAssumption ==
  /\ Parent \notin Subagents
  /\ DOMAIN BuiltIn \subseteq SkillIds
  /\ Enabled \subseteq SkillIds /\ TemplateSkills \subseteq SkillIds
  /\ CallerOf \in [LoadCalls -> Agents]

VARIABLES
  program,  \* "cli" or "server"
  skillFile,\* the workspace's SKILL.md of each id without a built-in text
  agent,    \* absent, starting, running, failed
  offered,  \* the catalog in each agent's prompt
  loading,  \* what each call is doing
  answered, \* the last answer of a call
  loaded,   \* LoadSkillTool::loaded_skills
  given,    \* history: how often this registry has given the body of each skill
  known     \* the bodies in each agent's conversation

skillVars == << program, skillFile, agent, offered, loading, answered, loaded, given, known >>

AtRest == [at |-> "idle", skill |-> "none", changed |-> FALSE]
Unanswered == [by |-> Parent, kind |-> "none", skill |-> "none", hidden |-> FALSE, changed |-> FALSE]

SkillsInit ==
  /\ program \in {"cli", "server"}
  /\ skillFile \in [Written -> Texts \cup {NoFile}]
  /\ agent = [a \in Agents |-> IF a = Parent THEN "starting" ELSE "absent"]
  /\ offered = [a \in Agents |-> {}]
  /\ loading = [c \in LoadCalls |-> AtRest]
  /\ answered = Unanswered
  /\ loaded = {}
  /\ given = [s \in SkillIds |-> 0]
  /\ known = [a \in Agents |-> {}]

-----------------------------------------------------------------------------
(***************************************************************************)
(* The files.                                                              *)
(***************************************************************************)

\* read_skill_file: the built-in text of an id hides the workspace's.
ReadSkillFile(s) == IF s \in DOMAIN BuiltIn THEN BuiltIn[s] ELSE skillFile[s]

\* One line of the frontmatter: after a line of another kind the whole file is
\* ordinary Markdown, whatever its other lines say.
Field(policy, line) ==
  CASE policy \in {"plain", "invalid"} -> policy
    [] policy \notin {"plain", "invalid"} /\ line = "disable-model-invocation: true" -> "hidden"
    [] policy \notin {"plain", "invalid"} /\ line = "disable-model-invocation: false" -> "shown"
    [] policy \notin {"plain", "invalid"} /\ line = "disable-model-invocation: yes" -> "invalid"
    [] policy \notin {"plain", "invalid"} /\ line \in {"", "name", "description"} -> policy
    [] OTHER -> "plain"

\* parse_simple_frontmatter: who may load the skill, or "invalid".
Policy(text) ==
  IF text.closed THEN FoldLeft(Field, "shown", text.fields) ELSE "plain"

Readable(s) == ReadSkillFile(s) # NoFile /\ Policy(ReadSkillFile(s)) # "invalid"
Hidden(s) == Policy(ReadSkillFile(s)) = "hidden"

\* A user, an editor or a tool writes or removes a SKILL.md of the workspace.
ChangeFile(s) ==
  /\ \E t \in (Texts \cup {NoFile}) \ {skillFile[s]} : skillFile' = [skillFile EXCEPT ![s] = t]
  /\ loading' = [c \in LoadCalls |->
       [loading[c] EXCEPT !.changed = @ \/ (loading[c].at = "body" /\ loading[c].skill = s)]]
  /\ UNCHANGED << program, agent, offered, answered, loaded, given, known >>

-----------------------------------------------------------------------------
(***************************************************************************)
(* Runs: the parent's and its subagents'.                                  *)
(***************************************************************************)

\* ToolRegistry::subset: a profile may name tools the parent does not have.
ProfileFits == Profile \subseteq RegistryTools

\* A template's subagent; a refused request leaves nothing (see Supervisor).
Delegate(a) ==
  /\ program = "cli"
  /\ agent[Parent] = "running" /\ agent[a] = "absent"
  /\ ProfileFits
  /\ agent' = [agent EXCEPT ![a] = "starting"]
  /\ UNCHANGED << program, skillFile, offered, loading, answered, loaded, given, known >>

SkillsOf(a) == IF a = Parent THEN Enabled ELSE TemplateSkills
ToolsOf(a) == IF a = Parent THEN RegistryTools ELSE Profile

\* build_system_prompt, at the start of every turn: one skill that cannot be read,
\* or an AGENTS.md that cannot, fails the run.
ComposePrompt(a) ==
  /\ agent[a] \in {"starting", "running"}
  /\ \A c \in LoadCalls : CallerOf[c] = a => loading[c].at = "idle"
  /\ \/ /\ \A s \in SkillsOf(a) : Readable(s)
        /\ agent' = [agent EXCEPT ![a] = "running"]
        /\ offered' = [offered EXCEPT ![a] = {s \in SkillsOf(a) : ~Hidden(s)}]
     \/ agent' = [agent EXCEPT ![a] = "failed"] /\ UNCHANGED offered
  /\ UNCHANGED << program, skillFile, loading, answered, loaded, given, known >>

\* The next message of a chat: another engine and registry, the same history.
NextMessage ==
  /\ program = "server"
  /\ agent[Parent] \in {"running", "failed"}
  /\ \A c \in LoadCalls : loading[c].at = "idle"
  /\ agent' = [agent EXCEPT ![Parent] = "starting"]
  /\ loaded' = {}
  /\ given' = [s \in SkillIds |-> 0]
  /\ answered' = Unanswered
  /\ UNCHANGED << program, skillFile, offered, loading, known >>

-----------------------------------------------------------------------------
(***************************************************************************)
(* load_skill: the lock of loaded_skills is held from Lookup to the answer. *)
(***************************************************************************)

Ask(c, s) ==
  /\ agent[CallerOf[c]] = "running"
  /\ "load_skill" \in ToolsOf(CallerOf[c])
  /\ loading[c].at = "idle"
  /\ loading' = [loading EXCEPT ![c] = [at |-> "asked", skill |-> s, changed |-> FALSE]]
  /\ UNCHANGED << program, skillFile, agent, offered, answered, loaded, given, known >>

SkillsLocked == \E c \in LoadCalls : loading[c].at \in {"manifest", "body"}

Answer(c, kind, hidden) ==
  /\ loading' = [loading EXCEPT ![c] = AtRest]
  /\ answered' = [by |-> CallerOf[c], kind |-> kind, skill |-> loading[c].skill,
                  hidden |-> hidden, changed |-> loading[c].changed]

GoOn(c, at) == loading' = [loading EXCEPT ![c].at = at] /\ UNCHANGED answered

\* Mutant: the lock covers the look into the set and not the load.
LookupUnlocked(c) ==
  /\ loading[c].at = "asked"
  /\ \/ loading[c].skill \in loaded /\ Answer(c, "already", FALSE)
     \/ loading[c].skill \notin loaded /\ loading[c].skill \notin Enabled
        /\ Answer(c, "error", FALSE)
     \/ loading[c].skill \notin loaded /\ loading[c].skill \in Enabled /\ GoOn(c, "manifest")
  /\ UNCHANGED << program, skillFile, agent, offered, loaded, given, known >>

\* The skills of the parent decide, whichever agent asks.
Lookup(c) ==
  /\ loading[c].at = "asked" /\ ~SkillsLocked
  /\ \/ loading[c].skill \in loaded /\ Answer(c, "already", FALSE)
     \/ loading[c].skill \notin loaded /\ loading[c].skill \notin Enabled
        /\ Answer(c, "error", FALSE)
     \/ loading[c].skill \notin loaded /\ loading[c].skill \in Enabled /\ GoOn(c, "manifest")
  /\ UNCHANGED << program, skillFile, agent, offered, loaded, given, known >>

\* Mutant: a hidden skill is only left out of the catalog.
ReadManifestOnly(c) ==
  /\ loading[c].at = "manifest"
  /\ IF Readable(loading[c].skill) THEN GoOn(c, "body") ELSE Answer(c, "error", FALSE)
  /\ UNCHANGED << program, skillFile, agent, offered, loaded, given, known >>

ReadManifest(c) ==
  /\ loading[c].at = "manifest"
  /\ IF Readable(loading[c].skill) /\ ~Hidden(loading[c].skill)
       THEN GoOn(c, "body") ELSE Answer(c, "error", FALSE)
  /\ UNCHANGED << program, skillFile, agent, offered, loaded, given, known >>

\* load_skill reads the file a second time and does not look at its policy.
ReadBody(c) ==
  LET s == loading[c].skill IN
  /\ loading[c].at = "body"
  /\ IF Readable(s)
       THEN /\ Answer(c, "body", Hidden(s))
            /\ loaded' = loaded \cup {s}
            /\ given' = [given EXCEPT ![s] = @ + 1]
            /\ known' = [known EXCEPT ![CallerOf[c]] = @ \cup {s}]
       ELSE Answer(c, "error", FALSE) /\ UNCHANGED << loaded, given, known >>
  /\ UNCHANGED << program, skillFile, agent, offered >>

SkillsNext ==
  \/ \E s \in Written : ChangeFile(s)
  \/ \E a \in Subagents : Delegate(a)
  \/ \E a \in Agents : ComposePrompt(a)
  \/ NextMessage
  \/ \E c \in LoadCalls :
       \/ \E s \in SkillIds : Ask(c, s)
       \/ Lookup(c) \/ ReadManifest(c) \/ ReadBody(c)

SkillsSpec == SkillsInit /\ [][SkillsNext]_skillVars

-----------------------------------------------------------------------------
SkillsTypeOK ==
  /\ program \in {"cli", "server"}
  /\ skillFile \in [Written -> Texts \cup {NoFile}]
  /\ agent \in [Agents -> {"absent", "starting", "running", "failed"}]
  /\ offered \in [Agents -> SUBSET SkillIds]
  /\ loading \in [LoadCalls -> [at : {"idle", "asked", "manifest", "body"},
                                skill : SkillIds \cup {"none"}, changed : BOOLEAN]]
  /\ answered \in [by : Agents, kind : {"none", "body", "already", "error"},
                   skill : SkillIds \cup {"none"}, hidden : BOOLEAN, changed : BOOLEAN]
  /\ loaded \subseteq SkillIds
  /\ given \in [SkillIds -> Nat]
  /\ known \in [Agents -> SUBSET SkillIds]

\* A registry gives the body of a skill exactly once, to whichever of the calls
\* that may run at the same time in a read-only batch and in subagents comes
\* first; "already loaded" is never said of a skill whose load has failed
\* (LoadSkillTool::execute).
LoadedIsGivenOnce ==
  \A s \in SkillIds : given[s] = IF s \in loaded THEN 1 ELSE 0

\* The body of a skill that its frontmatter hides reaches a model only when the
\* file has been changed between the two reads of one call
\* (load_model_invokable_skill).
HiddenBodyOnlyInARace ==
  answered.kind = "body" /\ answered.hidden => answered.changed

-----------------------------------------------------------------------------
(***************************************************************************)
(* What the prompt and the documents say and the code does not do.         *)
(***************************************************************************)

\* An agent that is told that a skill its prompt offers is loaded already has its
\* body in its conversation (the catalog of build_system_prompt).
OfferedSkillReachesItsAgent ==
  answered.kind = "already" /\ answered.skill \in offered[answered.by] =>
    answered.skill \in known[answered.by]
=============================================================================
