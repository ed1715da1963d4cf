------------------------------- MODULE IocExport -------------------------------
(***************************************************************************)
(* The indicators of compromise that the worker exports for the process of *)
(* ProcessRisk, after detection: drafts taken from the rows that a finding *)
(* is about or that the extractor takes for suspicious by itself, reduced  *)
(* to one per value.                                                       *)
(*                                                                         *)
(* Findings and rows are read without ORDER BY; they are linked by the id  *)
(* of the row that a finding names.                                        *)
(***************************************************************************)
EXTENDS ProcessRisk

CONSTANTS
  MalwareRule,   \* YARA rules whose family or text names malware for the extractor
  ForeignRule    \* YARA rules for another operating system

ASSUME RuleAssumption == MalwareRule \subseteq YaraRule /\ ForeignRule \subseteq YaraRule

-----------------------------------------------------------------------------
(* Findings as rows of risk_findings. *)

\* The table of the row that a finding of a rule names; correlations name the region.
TableOf(f) ==
  CASE f.place[1] \in {1, 2}    -> "command"
    [] f.place[1] \in {7, 14}   -> "yara"
    [] f.place[1] = 9           -> "module"
    [] f.place[1] = 10          -> "network"
    [] f.place[1] \in 11..13    -> "process"
    [] OTHER                    -> "memory_region"

\* Region, correlation, module and path rules report rows they cannot tell apart once.
Told(findings) ==
  {f \in findings : f.place[1] \in {3, 4, 5, 6, 8, 9, 11} =>
                      \A g \in findings : Before(g, f) => g.key # f.key}
Reported(arts) == Told(Findings(arts))

\* linked_findings
On(findings, table, i) == {f \in findings : TableOf(f) = table /\ f.place[2] = i}

\* Rules' severities are those of their scores.
SeverityOf(f) == Level(f.score)

\* severity_from_findings.  Mutated form: the mildest finding counts.
MildestSeverity(findings, default) ==
  IF findings = {} THEN default ELSE Level(Min({f.score : f \in findings}))
WorstSeverity(findings, default) ==
  IF findings = {} THEN default ELSE Level(Max({f.score : f \in findings}))

\* confidence_for_severity.
ConfidenceFor  == [critical |-> 95, high |-> 85, medium |-> 65, low |-> 45]

-----------------------------------------------------------------------------
(* Drafts; "at" is the place of the row in its table. *)

Draft(at, type, value, plugin, confidence, role) ==
  [at |-> at, type |-> type, value |-> value, plugin |-> plugin,
   confidence |-> confidence, role |-> role]

\* Without a port the endpoint is the address (_network_endpoint), and no indicator of
\* its own.
HasPort(row) == row.endpoint # row.address

NetworkDrafts(i, row, confidence) ==
  {Draft(i, "ip_address", row.address, "network", confidence, "threat_ioc")}
    \cup (IF HasPort(row)
            THEN {Draft(i, "network_endpoint", row.endpoint, "network", confidence, "threat_ioc")}
            ELSE {})

NetworkIocs(arts, findings) ==
  UNION {
    LET row        == arts["network"][i]
        linked     == On(findings, "network", i)
        severity   == WorstSeverity(linked, IF row \in Public THEN "medium" ELSE "low")
        confidence == IF row \in Public THEN ConfidenceFor[severity]
                                     ELSE Min({ConfidenceFor[severity], 40})
    IN IF row \in Public \/ linked # {} THEN NetworkDrafts(i, row, confidence) ELSE {} :
    i \in DOMAIN arts["network"]}

\* The extractor's keywords are neither the rule's nor the correlation's: curl and
\* wget are on its list alone, shellcode is not.
ListedCommand == Encoded \cup Keyword \cup {r \in RowsOf("command") : r.text = "curl"}

CommandIocs(arts, findings) ==
  {LET severity == WorstSeverity(On(findings, "command", i),
                     IF arts["command"][i] \in ListedCommand THEN "high" ELSE "medium")
   IN Draft(i, "command_line", arts["command"][i].text, "command",
            ConfidenceFor[severity], "threat_ioc") :
     i \in {k \in DOMAIN arts["command"] :
              arts["command"][k] \in ListedCommand \/ On(findings, "command", k) # {}}}

\* The extractor's folders include Downloads, which the module rules' do not.
ListedModule == Writable \cup {r \in RowsOf("module") : r.path = "downloads"}

ModuleIocs(arts, findings) ==
  {LET module == arts["module"][i]
   IN Draft(i, "module_path", module.path, "module",
            ConfidenceFor[WorstSeverity(On(findings, "module", i), "medium")],
            IF module \in Microsoft THEN "investigation_artifact" ELSE "threat_ioc") :
     i \in {k \in DOMAIN arts["module"] :
              \/ On(findings, "module", k) # {}
              \/ arts["module"][k] \in ListedModule \ Microsoft}}

\* An image in one of the extractor's folders is an indicator without any finding.
ListedPath(process) == process.path = "users"

\* Mutated form: only such an image makes a process an indicator.
PathOnly(row, linked)  == ListedPath(row)
NotedProcess(row, linked) == linked # {} \/ ListedPath(row)

\* Its name, its PID as context if a finding is about it, and its image path if there
\* is one.

ProcessIocs(arts, findings) ==
  UNION {
    LET row        == arts["process"][i]
        linked     == On(findings, "process", i)
        confidence == ConfidenceFor[WorstSeverity(linked, "medium")]
        artifact(type, value, sure) ==
          Draft(i, type, value, row.plugin, sure, "investigation_artifact")
    IN {artifact("process_name", "name", confidence)}
         \cup (IF linked = {} THEN {} ELSE {artifact("pid", "pid", Min({confidence, 70}))})
         \cup (IF row.path = "none" THEN {} ELSE {artifact("file_path", row.path, confidence)}) :
    i \in {k \in DOMAIN arts["process"] :
             NotedProcess(arts["process"][k], On(findings, "process", k))}}

\* Mutated form: a finding about the match is enough.
FoundInMemory(arts, linked) == \E f \in linked : f.place[1] = 7
\* yara_has_correlation: a finding about the match lists regions of the process.
Correlated(arts, linked) == HasRegions(arts) /\ \E f \in linked : f.place[1] = 7

\* yara_ioc_role
YaraRole(arts, rule, linked) ==
  IF rule \in MalwareRule \ ForeignRule /\ Correlated(arts, linked)
    THEN "threat_ioc" ELSE "investigation_artifact"

YaraIocs(arts, findings) ==
  {LET match    == arts["yara"][i]
       declared == Metadata[match.rule].severity
       sure     == ConfidenceFor[IF declared = "none" THEN "high" ELSE declared]
       role     == YaraRole(arts, match.rule, On(findings, "yara", i))
   IN Draft(i, "yara_rule", match.rule, match.plugin,
            IF role = "threat_ioc" THEN sure ELSE Min({sure, 55}), role) :
     i \in DOMAIN arts["yara"]}

\* Whatever malfind lists is suspicious here, executable or not.
MalfindRow(region) == region.plugin = "windows.malfind"

RegionIocs(arts, findings) ==
  {LET region == arts["memory_region"][i]
       default == IF MalfindRow(region) THEN "high" ELSE "medium"
       sure    == ConfidenceFor[WorstSeverity(On(findings, "memory_region", i), default)]
   IN Draft(i, "memory_region", region.range, region.plugin,
            IF region.plugin \in VadContextPlugins THEN Min({sure, ConfidenceFor["medium"]})
                                                   ELSE sure,
            "investigation_artifact") :
     i \in {k \in DOMAIN arts["memory_region"] :
              \/ MalfindRow(arts["memory_region"][k])
              \/ On(findings, "memory_region", k) # {}}}

\* A row's plugin; a table that one plugin fills stands for it.
RowPlugin(table, row) ==
  IF table \in {"process", "memory_region", "yara"} THEN row.plugin ELSE table

\* plugin_context_findings: plugins that list regions or modules are a finding of the
\* job as soon as they have stored a row.
ContextPlugins(arts) ==
  UNION {{RowPlugin(t, arts[t][i]) : i \in DOMAIN arts[t]} : t \in {"memory_region", "module"}}

\* The plugins that findings come from, those about the job as a whole included.
PluginOf(arts, f) == RowPlugin(TableOf(f), arts[TableOf(f)][f.place[2]])
Reference(at, plugin, severity) ==
  Draft(at, "plugin_reference", plugin, plugin, Min({ConfidenceFor[severity], 60}),
        "investigation_artifact")
JobSummaries(arts) ==
  {i \in DOMAIN arts["yara"] : JobSummaryOnly(Metadata[arts["yara"][i].rule], FALSE)}
PluginReferences(arts, findings) ==
  {Reference(f.place[2], PluginOf(arts, f), SeverityOf(f)) : f \in findings}
    \cup {Reference(i, arts["yara"][i].plugin, YaraSeverity(Metadata[arts["yara"][i].rule], FALSE)) :
            i \in JobSummaries(arts)}
    \cup {Reference(0, plugin, "medium") : plugin \in ContextPlugins(arts)}

-----------------------------------------------------------------------------
(* Deduplication. *)

\* A PID is one indicator whichever plugin lists it.
Key(d) == <<d.type, d.value, IF d.type = "pid" THEN "" ELSE d.plugin>>

\* Mutated form: the first draft of a key stays.
FirstDraft(d, e) == d.at <= e.at
\* A draft replaces the one before it if it is more confident.
Preferred(d, e) ==
  d.confidence > e.confidence \/ (d.confidence = e.confidence /\ d.at <= e.at)

Record(d) ==
  [type |-> d.type, value |-> d.value, plugin |-> Key(d)[3], role |-> d.role,
   confidence |-> d.confidence]

\* deduplicate_iocs
Deduplicated(drafts) ==
  {Record(d) :
     d \in {x \in drafts : \A e \in drafts : Key(e) = Key(x) => Preferred(x, e)}}

\* extract_iocs
ExportOf(arts, findings) ==
  Deduplicated(NetworkIocs(arts, findings) \cup CommandIocs(arts, findings)
    \cup ModuleIocs(arts, findings) \cup ProcessIocs(arts, findings)
    \cup YaraIocs(arts, findings) \cup RegionIocs(arts, findings)
    \cup PluginReferences(arts, findings))
Exported(arts) == ExportOf(arts, Reported(arts))

-----------------------------------------------------------------------------
(* Properties. *)

\* The value of a row in the export.
ValueOf(table, row) ==
  CASE table = "network" -> row.endpoint [] table = "command" -> row.text
    [] table = "module" -> row.path      [] table = "process" -> "name"
    [] table = "yara" -> row.rule        [] OTHER -> row.range

\* The extractor decides again, with lists of its own, what the rules have decided
\* before; still, whatever row a finding is about, the export has its value.
FindingsExported ==
  LET iocs == Exported(artifacts) IN
  summary # Pending => \A f \in Reported(artifacts) :
    LET row == artifacts[TableOf(f)][f.place[2]]
    IN \E ioc \in iocs : ioc.value = ValueOf(TableOf(f), row) /\ ioc.type # "plugin_reference"

\* The export does not depend on the order in which the database returns the rows,
\* though drafts replace each other in that order.  Exempt are a wrong path and a
\* region that two plugins list: reported once, they are so for the plugin whose row
\* comes first, and the other's indicators may be missing or less confident.
TwoSources(arts, table, wanted, field) ==
  \E i, k \in Rows(arts, table, wanted) :
    /\ arts[table][i][field] = arts[table][k][field]
    /\ arts[table][i].plugin # arts[table][k].plugin
Ambiguous(arts) ==
  \/ TwoSources(arts, "process", WrongPath, "path")
  \/ TwoSources(arts, "memory_region", Suspicious, "range")
ExportOrderIrrelevant ==
  LET iocs == Exported(artifacts) IN
  (summary # Pending /\ ~Ambiguous(artifacts)) =>
    \A t \in Table : \A i \in 1..(Len(artifacts[t]) - 1) :
      Exported([artifacts EXCEPT ![t] = Swapped(@, i)]) = iocs

\* One more row takes no indicator back and makes none less confident, except that
\* a pslist row clears a process of being hidden.
Confirmed(ioc, iocs) ==
  \E later \in iocs :
    /\ <<later.type, later.value, later.plugin>> = <<ioc.type, ioc.value, ioc.plugin>>
    /\ later.confidence >= ioc.confidence
AllConfirmed(iocs, later) == \A ioc \in iocs : Confirmed(ioc, later)
IndicatorsStay ==
  [][\A r \in Row :
       (StoreRow(r) /\ r \notin Pslist)
         => AllConfirmed(Exported(artifacts), Exported(artifacts'))]_vars
=============================================================================
