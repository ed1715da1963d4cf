---------------------------- MODULE ProcessRisk ----------------------------
(***************************************************************************)
(* What the detection stage makes of the artifacts of one Windows process: *)
(* the findings of the shipped rules, and the process risk summary scored  *)
(* over them.                                                              *)
(*                                                                         *)
(* Plugins store their rows table by table and detection runs once after   *)
(* them.  It reads each table without ORDER BY, so a table is a sequence   *)
(* whose order is the database's.  Rules see other processes' rows only    *)
(* through the job, so one process, whose rows all resolve to one          *)
(* identity, is enough.                                                    *)
(***************************************************************************)
EXTENDS Integers, Sequences, FiniteSets, FiniteSetsExt, Functions

CONSTANTS
  Row,            \* rows the plugins may store for the process
  YaraRule,       \* names of YARA rules
  Metadata,       \* the metadata of each YARA rule
  MaxComponents,  \* max_findings_per_process
  MaxRows         \* bound: rows stored

Table == {"process", "network", "module", "memory_region", "command", "yara"}

YaraMetadata == [severity : {"none", "low", "medium", "high", "critical"},
                 trusted : BOOLEAN, noisy : BOOLEAN, requiresCorrelation : BOOLEAN,
                 specific : BOOLEAN, broad : BOOLEAN]

ASSUME RowAssumption ==
  \A r \in Row : /\ r.table \in Table
                 /\ r.table = "yara" => r.rule \in YaraRule
ASSUME MetadataAssumption == Metadata \in [YaraRule -> YaraMetadata]
ASSUME LimitAssumption == MaxComponents \in Nat \ {0} /\ MaxRows \in Nat

VARIABLES
  benign,     \* known_benign_process_context knows the process
  artifacts,  \* the rows of the process in each table
  summary     \* the PROCESS_RISK_SUMMARY finding

vars == <<benign, artifacts, summary>>

Rank     == [none |-> 0, low |-> 1, medium |-> 2, high |-> 3, critical |-> 4]
Alarming == {"high", "critical"}

-----------------------------------------------------------------------------
(* The rows a rule looks at, and their indices in a table. *)

Rows(arts, table, wanted) == {i \in DOMAIN arts[table] : arts[table][i] \in wanted}

RowsOf(table) == {r \in Row : r.table = table}

\* memory_region_is_suspicious: executable, and no mere VAD listing.
VadContextPlugins == {"windows.vadinfo", "windows.vadwalk"}
Suspicious ==
  {r \in RowsOf("memory_region") : r.executable /\ r.plugin \notin VadContextPlugins}
\* The source_plugins of the two region rules, on Windows.
Malfind == {r \in Suspicious : r.plugin = "windows.malfind"}

\* is_public_remote_address
Public == {r \in RowsOf("network") : r.public}

\* A command is an encoded PowerShell, or contains a keyword; the correlation's
\* list of keywords is not the keyword rule's.
Encoded         == {r \in RowsOf("command") : r.text = "encoded"}
Keyword         == {r \in RowsOf("command") : r.text \in {"mimikatz", "certutil"}}
LinkableCommand == {r \in RowsOf("command") : r.text \in {"encoded", "mimikatz", "shellcode"}}

\* A path in a user-writable folder; in one of Microsoft's under AppData it is
\* known_microsoft_appdata_path.
Writable  == {r \in RowsOf("module") : r.path \in {"dropped", "microsoft"}}
Microsoft == {r \in Writable : r.path = "microsoft"}
Dropped   == Writable \ Microsoft

WrongPath   == {r \in RowsOf("process") : r.path = "elsewhere"}
OfficeChild == {r \in RowsOf("process") : r.parent = "office"}
Psscan      == {r \in RowsOf("process") : r.plugin = "windows.psscan"}
Pslist      == {r \in RowsOf("process") : r.plugin = "windows.pslist"}

InMemory(match) == match.plugin = "windows.vadyarascan"

-----------------------------------------------------------------------------
(* YARA metadata. *)

\* A family makes a rule malware-specific for the engine and for the scoring.
HighConfidence(m) == m.trusted /\ ~m.noisy /\ m.specific

\* yara_should_use_job_summary: reported once for the job, under no process.
JobSummaryOnly(m, correlated) ==
  ~HighConfidence(m) /\ (m.noisy \/ (m.requiresCorrelation /\ ~correlated))

\* yara_risk_from_metadata, test by test.
Lowered(severity, doubtful) ==
  IF doubtful /\ severity \in Alarming THEN "medium" ELSE severity
YaraSeverity(m, correlated) ==
  LET declared == IF m.severity = "critical" /\ ~(m.trusted /\ m.specific) THEN "high"
                  ELSE IF m.severity = "none" THEN "high" ELSE m.severity
      backed   == Lowered(declared, ~(m.specific \/ correlated))
      narrow   == Lowered(backed, m.broad /\ ~m.specific /\ ~correlated)
      gated    == Lowered(narrow, m.requiresCorrelation /\ ~correlated)
      quiet    == IF m.noisy /\ ~correlated THEN "low" ELSE gated
      damped   == Lowered(quiet, m.noisy /\ correlated)
  IN IF m.requiresCorrelation /\ correlated /\ damped = "low" THEN "medium" ELSE damped

SeverityScore == [low |-> 2, medium |-> 5, high |-> 8, critical |-> 13]

\* has_high_confidence_yara and has_very_high_confidence_yara read the severity
\* that the metadata declares, and a finding's own where it declares none.
ReadSeverity(m, correlated) ==
  IF m.severity = "none" THEN YaraSeverity(m, correlated) ELSE m.severity

-----------------------------------------------------------------------------
(* Findings.  Rules run in the order of their files' names; a finding's    *)
(* place is the rank of its rule and the rows it comes from, and its key   *)
(* is what unique_components tells findings apart by.                      *)

Finding(place, key, score, groups, context) ==
  [place |-> place, key |-> <<place[1], key>>, score |-> score, groups |-> groups,
   context |-> context, specific |-> FALSE, trusted |-> FALSE, decisive |-> FALSE]

\* The findings of a rule on rows of one table; a field is the key.
Single(arts, rank, table, rows, field, score, groups, context) ==
  {Finding(<<rank, i, 0>>, arts[table][i][field], score, groups, context) : i \in rows}

\* Mutated form: a region is linked to the first row of the table only.
FirstLinked(arts, rank, table, rows, field, score, groups, context) ==
  {Finding(<<rank, pair[1], pair[2]>>,
           <<arts["memory_region"][pair[1]].range, arts[table][pair[2]][field]>>,
           score, groups, context) :
     pair \in Rows(arts, "memory_region", Suspicious) \X (rows \cap {1})}

\* The findings of a rule that links each suspicious region to rows of a table.
Linked(arts, rank, table, rows, field, score, groups, context) ==
  {Finding(<<rank, pair[1], pair[2]>>,
           <<arts["memory_region"][pair[1]].range, arts[table][pair[2]][field]>>,
           score, groups, context) :
     pair \in Rows(arts, "memory_region", Suspicious) \X rows}

\* The first match of each YARA rule and plugin stands for the others.
Representatives(arts, matches) ==
  {i \in matches : \A k \in matches :
     k < i => <<arts["yara"][k].rule, arts["yara"][k].plugin>>
                # <<arts["yara"][i].rule, arts["yara"][i].plugin>>}

YaraFindings(arts, rank, matches, correlated) ==
  {LET match == arts["yara"][i]
       m     == Metadata[match.rule]
       seen  == ReadSeverity(m, correlated)
   IN [place |-> <<rank, i, 0>>, key |-> <<0, <<match.rule, match.plugin>>>>,
       score |-> SeverityScore[YaraSeverity(m, correlated)],
       groups |-> {"yara_match"}, context |-> FALSE, specific |-> m.specific,
       trusted |-> m.trusted /\ ~m.noisy /\ seen \in Alarming,
       decisive |-> HighConfidence(m) /\ seen = "critical"] :
     i \in Representatives(arts, matches)}

\* The keyword rule's findings do not tell commands apart: their key is constant.
CommandFindings(arts) ==
  Single(arts, 1, "command", Rows(arts, "command", Encoded), "text", 8,
         {"suspicious_command"}, FALSE)
    \cup Single(arts, 2, "command", Rows(arts, "command", Keyword), "table", 5,
                {"suspicious_command_keywords"}, FALSE)

\* A known benign process has its memory findings downgraded to context.
RegionFindings(arts, rank) ==
  Single(arts, rank, "memory_region", Rows(arts, "memory_region", Malfind), "range",
         IF benign THEN 5 ELSE 8, {"memory_region"}, benign)

CorrelationFindings(arts) ==
  Linked(arts, 4, "network", Rows(arts, "network", Public), "endpoint", 13,
         {"memory_region", "network_endpoint"}, FALSE)
    \cup Linked(arts, 5, "command", Rows(arts, "command", LinkableCommand), "text", 13,
                {"memory_region", "suspicious_command"}, FALSE)
    \cup Linked(arts, 6, "module", Rows(arts, "module", Dropped), "path", 10,
                {"memory_region", "suspicious_module"}, FALSE)
    \cup Linked(arts, 6, "module", Rows(arts, "module", Microsoft), "path", 5,
                {"memory_region", "module_context"}, TRUE)

\* Any region row of the process correlates a match, a VAD listing included.
HasRegions(arts) == arts["memory_region"] # <<>>
MemoryMatches(arts) ==
  {i \in DOMAIN arts["yara"] :
     /\ InMemory(arts["yara"][i])
     /\ ~JobSummaryOnly(Metadata[arts["yara"][i].rule], HasRegions(arts))}
ProcessMatches(arts) ==
  {i \in DOMAIN arts["yara"] : ~JobSummaryOnly(Metadata[arts["yara"][i].rule], FALSE)}

TableFindings(arts) ==
  Single(arts, 9, "module", Rows(arts, "module", Dropped), "path", 5,
         {"suspicious_module"}, FALSE)
    \cup Single(arts, 10, "network", Rows(arts, "network", Public), "endpoint", 5,
                {"network_endpoint"}, FALSE)

\* A process the scan found and the list does not have is a hidden candidate.
Hidden(arts) ==
  IF Rows(arts, "process", Pslist) = {} THEN Rows(arts, "process", Psscan) ELSE {}
ProcessFindings(arts) ==
  Single(arts, 11, "process", Rows(arts, "process", WrongPath), "path", 8,
         {"win_system_process_wrong_path"}, FALSE)
    \cup Single(arts, 12, "process", Rows(arts, "process", OfficeChild), "path", 5,
                {"win_suspicious_parent_child"}, FALSE)
    \cup Single(arts, 13, "process", Hidden(arts), "path", 8,
                {"win_psscan_only_process"}, FALSE)

\* evaluate_rules
Findings(arts) ==
  CommandFindings(arts) \cup RegionFindings(arts, 3) \cup CorrelationFindings(arts)
    \cup YaraFindings(arts, 7, MemoryMatches(arts), HasRegions(arts))
    \cup RegionFindings(arts, 8) \cup TableFindings(arts) \cup ProcessFindings(arts)
    \cup YaraFindings(arts, 14, ProcessMatches(arts), FALSE)

-----------------------------------------------------------------------------
(* The process risk summary. *)

Before(f, g) ==
  \/ f.place[1] < g.place[1]
  \/ f.place[1] = g.place[1] /\ f.place[2] < g.place[2]
  \/ f.place[1] = g.place[1] /\ f.place[2] = g.place[2] /\ f.place[3] < g.place[3]

\* Mutated form: repeated components are kept.
AllComponents(findings) == findings

\* unique_components: the first finding of a key stays.
Unique(findings) ==
  {f \in findings : \A g \in findings : Before(g, f) => g.key # f.key}

\* deduped[:max_components]
Selected(components) ==
  {f \in components : Cardinality({g \in components : Before(g, f)}) < MaxComponents}

EvidenceGroups(components) == UNION {f.groups : f \in components}

\* Mutated form: the first component of each group counts.
FirstScore(components) ==
  [g \in EvidenceGroups(components) |->
     (CHOOSE f \in components :
        g \in f.groups /\ \A c \in components : g \in c.groups => ~Before(c, f)).score]

\* score_by_independent_evidence_groups: the best of each group counts.
GroupScore(components) ==
  [g \in EvidenceGroups(components) |-> Max({f.score : f \in {c \in components : g \in c.groups}})]

\* Evidence of one kind stays below a cap.
Capped(score, groups) ==
  IF groups \in {{"yara_match"}, {"network_endpoint"}, {"suspicious_module"}}
    THEN Min({score, 5})
  ELSE IF groups \subseteq {"module_context"} THEN Min({score, 4})
  ELSE IF groups \subseteq {"suspicious_module", "module_context"} THEN Min({score, 5})
  ELSE score

\* severity_for_score over the shipped risk_levels
Level(score) ==
  IF score >= 13 THEN "critical" ELSE IF score >= 8 THEN "high"
  ELSE IF score >= 4 THEN "medium" ELSE "low"

SpecificYara(components) == \E f \in components : f.specific
TrustedYara(components)  == \E f \in components : f.trusted
DecisiveYara(components) == \E f \in components : f.decisive

\* Mutated form: memory and any YARA match suffice.
CriticalOnAnyMatch(components, groups) ==
  {"memory_region", "yara_match"} \subseteq groups \/ DecisiveYara(components)

\* critical_allowed, with the two tests that come before it
CriticalAllowed(components, groups) ==
  /\ Cardinality(groups) >= 2
  /\ ~(groups \subseteq {"memory_region", "module_context"})
  /\ \/ /\ {"memory_region", "yara_match"} \subseteq groups
        /\ \/ TrustedYara(components) /\ SpecificYara(components)
           \/ "network_endpoint" \in groups
           \/ "suspicious_command" \in groups
     \/ DecisiveYara(components)

\* Mutated form: every component has to be context.
AllContext(components, groups) == \A f \in components : f.context

\* has_benign_context_only
ContextOnly(components, groups) ==
  /\ \E f \in components : f.context
  /\ groups \cap {"network_endpoint", "suspicious_command", "suspicious_module"} = {}
  /\ ~SpecificYara(components)

SummarySeverity(components, groups, score) ==
  LET allowed == IF Level(score) = "critical" /\ ~CriticalAllowed(components, groups)
                   THEN "high" ELSE Level(score)
  IN IF allowed \in Alarming /\ ContextOnly(components, groups) THEN "medium" ELSE allowed

\* has_correlated_yara_evidence, and the memory and very trusted YARA cases
ProbableMalware(components, groups, severity) ==
  /\ severity \in Alarming
  /\ \/ /\ "yara_match" \in groups /\ SpecificYara(components)
        /\ groups \cap {"memory_region", "network_endpoint", "suspicious_command",
                        "suspicious_module", "module_context"} # {}
     \/ "memory_region" \in groups
          /\ groups \cap {"network_endpoint", "suspicious_command"} # {}
     \/ DecisiveYara(components)

Confidence(components, groups, severity) ==
  IF ContextOnly(components, groups) \/ groups \subseteq {"module_context"}
    THEN "context_only"
  ELSE IF ProbableMalware(components, groups, severity) THEN "probable_malware"
  ELSE "suspicious"

Pending   == [severity |-> "pending", score |-> 0, confidence |-> "none", groups |-> {}]
NoSummary == [severity |-> "none", score |-> 0, confidence |-> "none", groups |-> {}]

\* build_process_risk_summaries for one process
Rated(selected) ==
  LET groups   == EvidenceGroups(selected)
      score    == Capped(SumFunction(GroupScore(selected)), groups)
      severity == SummarySeverity(selected, groups, score)
  IN [severity |-> severity, score |-> score, groups |-> groups,
      confidence |-> Confidence(selected, groups, severity)]

ProcessSummary(arts) ==
  LET components == Unique(Findings(arts))
  IN IF Cardinality(components) < 2 THEN NoSummary ELSE Rated(Selected(components))

-----------------------------------------------------------------------------
Init ==
  /\ benign \in BOOLEAN
  /\ artifacts = [t \in Table |-> <<>>]
  /\ summary = Pending

\* Mutated form: the parser's records go to the process table.
StoreProcessRow(r) ==
  /\ summary = Pending
  /\ SumFunction([t \in Table |-> Len(artifacts[t])]) < MaxRows
  /\ artifacts' = [artifacts EXCEPT !["process"] = Append(@, r)]
  /\ UNCHANGED <<benign, summary>>

\* A parser stores one more row of the process.
StoreRow(r) ==
  /\ summary = Pending
  /\ SumFunction([t \in Table |-> Len(artifacts[t])]) < MaxRows
  /\ artifacts' = [artifacts EXCEPT ![r.table] = Append(@, r)]
  /\ UNCHANGED <<benign, summary>>

\* run_detection_for_job
RunDetection ==
  /\ summary = Pending
  /\ summary' = ProcessSummary(artifacts)
  /\ UNCHANGED <<benign, artifacts>>

Next == (\E r \in Row : StoreRow(r)) \/ RunDetection

Spec == Init /\ [][Next]_vars
-----------------------------------------------------------------------------
TypeOK ==
  /\ benign \in BOOLEAN
  /\ artifacts \in [Table -> Seq(Row)]
  /\ \A t \in Table : \A i \in DOMAIN artifacts[t] : artifacts[t][i].table = t
  /\ summary.severity \in {"pending", "none", "low", "medium", "high", "critical"}
  /\ summary.confidence \in {"none", "context_only", "suspicious", "probable_malware"}

\* What the tables say of the process, without findings, keys and groups.
Has(arts, table, wanted) == Rows(arts, table, wanted) # {}
Telling == {r \in RowsOf("command") : r.text # "plain"}
EvidenceTables(arts) ==
  {t \in Table : CASE t = "memory_region" -> Has(arts, t, Suspicious)
                   [] t = "network"       -> Has(arts, t, Public)
                   [] t = "command"       -> Has(arts, t, Telling)
                   [] t = "module"        -> Has(arts, t, Dropped)
                   [] OTHER               -> arts[t] # <<>>}

SpecificMatches(arts) ==
  {i \in DOMAIN arts["yara"] : Metadata[arts["yara"][i].rule].specific}
TrustedMatches(arts) ==
  {i \in DOMAIN arts["yara"] :
     Metadata[arts["yara"][i].rule].trusted /\ ~Metadata[arts["yara"][i].rule].noisy}

Grave(arts) ==
  /\ arts["yara"] # <<>>
  /\ Cardinality(EvidenceTables(arts)) >= 2
  /\ \/ SpecificMatches(arts) # {} /\ TrustedMatches(arts) # {}
     \/ /\ Has(arts, "memory_region", Suspicious)
        /\ \/ Has(arts, "network", Public)
           \/ Has(arts, "command", Encoded \cup LinkableCommand)

\* A process is called critical only with a YARA match next to evidence from
\* another table.  Without matches that are trusted and malware-specific (the two
\* may be different matches), it takes suspicious executable memory and a public
\* connection or a suspicious command too (the gate of
\* build_process_risk_summaries, told from the rows).
CriticalIsCorroborated == summary.severity = "critical" => Grave(artifacts)

\* Executable memory, Microsoft's own modules and matches of rules that are not
\* malware-specific never raise a known benign process above medium, however
\* many they are (the two downgrades of the engine and has_benign_context_only).
BenignMemoryStaysContext ==
  (/\ benign
   /\ EvidenceTables(artifacts) \subseteq {"memory_region", "yara"}
   /\ SpecificMatches(artifacts) = {})
     => summary.severity \notin Alarming

\* Every table is read without ORDER BY: the summary does not depend on the
\* order of its rows, unless max_findings_per_process cuts components off.
Crowded(arts) == Cardinality(Unique(Findings(arts))) > MaxComponents
Swapped(rows, i) == [rows EXCEPT ![i] = rows[i + 1], ![i + 1] = rows[i]]
RowOrderIrrelevant ==
  (summary # Pending /\ ~Crowded(artifacts)) =>
    \A t \in Table : \A i \in 1..(Len(artifacts[t]) - 1) :
      ProcessSummary([artifacts EXCEPT ![t] = Swapped(@, i)]) = summary

\* A row the database already had, as a plugin run again or a rule that matches
\* at another offset brings it, changes nothing in the summary (YARA_RULES.md:
\* the raw match count does not inflate process risk).
RepeatsDoNotInflate ==
  [][\A r \in Row :
       (StoreRow(r) /\ \E i \in DOMAIN artifacts[r.table] : artifacts[r.table][i] = r)
         => ProcessSummary(artifacts') = ProcessSummary(artifacts)]_vars

\* One more row never makes a process look less risky: the score does not fall,
\* nor does the severity.  Exempt are a pslist row, which answers the suspicion
\* that the process is hidden, rows past max_findings_per_process, and for the
\* severity what the code takes for benign context.
Contextual(arts) == benign \/ Has(arts, "module", Microsoft)
NoMilder(then, now, exempt) ==
  then.score >= now.score /\ (exempt \/ Rank[then.severity] >= Rank[now.severity])
MoreEvidenceNeverLowers ==
  [][\A r \in Row :
       (StoreRow(r) /\ ~Crowded(artifacts') /\ r \notin Pslist)
         => NoMilder(ProcessSummary(artifacts'), ProcessSummary(artifacts),
                     Contextual(artifacts'))]_vars

=============================================================================
