----------------------------- MODULE ReportContext -----------------------------
(***************************************************************************)
(* The sections of the technical report on the process of ProcessRisk, and *)
(* what they leave out: what the report makes of the rows, the findings    *)
(* and the indicators of a job.                                            *)
(*                                                                         *)
(* Others are the summaries of further processes of the job, which share   *)
(* the lists of findings and processes with this one.  Rows come in the    *)
(* order of the database, findings and indicators in any order.            *)
(***************************************************************************)
EXTENDS IocExport

CONSTANTS
  Limit,     \* how long the report's lists may be
  NameRank,  \* the alphabetical order of the YARA rules
  Others     \* summaries of other processes

ASSUME ReportAssumption ==
  /\ Limit \in [{"findings", "processes", "rows", "display", "samples", "regions", "iocs"}
                  -> Nat \ {0}]
  /\ NameRank \in [YaraRule -> Nat]
  /\ IsFiniteSet(Others)
  /\ \A f \in Others : /\ f.rule = 0 /\ f.process # "this"
                       /\ f.severity \in {"low", "medium", "high", "critical"}
                       /\ f.score \in Nat /\ f.place \in Nat \X Nat \X Nat

\* The values that indicators of other kinds than a connection's ends may have.
OtherValues ==
  {"name", "pid"} \cup YaraRule \cup {r.text : r \in RowsOf("command")}
    \cup {r.path : r \in RowsOf("module") \cup RowsOf("process")}
    \cup {r.range : r \in RowsOf("memory_region")}
    \cup {RowPlugin(r.table, r) : r \in Row} \cup {r.plugin : r \in RowsOf("yara")}

RemoteEnd(row) == {row.endpoint, row.address}

\* An address tells whether it is public (is_public_remote_address), an endpoint its
\* address; both read like nothing else that is exported.
ASSUME EndsAssumption ==
  \A r \in RowsOf("network") :
    /\ RemoteEnd(r) \cap OtherValues = {}
    /\ \A s \in Public : RemoteEnd(r) \cap RemoteEnd(s) # {} => r \in Public

-----------------------------------------------------------------------------
(* The rows of risk_findings.  A finding of the job as a whole has no      *)
(* process; a summary is the finding of rule 0.                            *)

FindingRow(rule, process, severity, score, groups, place) ==
  [rule |-> rule, process |-> process, severity |-> severity, score |-> score,
   groups |-> groups, place |-> place]

Category(rule) ==
  CASE rule \in {1, 2}   -> "command_line"  [] rule \in 3..7   -> "memory_only"
    [] rule = 8          -> "memory_region" [] rule = 9        -> "module"
    [] rule = 10         -> "network"       [] rule \in 11..13 -> "process"
    [] OTHER             -> "yara"

\* The rules for the context of the plugins follow those of the files.
ContextRule(plugin) ==
  CASE plugin = "windows.malfind" -> 15 [] plugin \in VadContextPlugins -> 16 [] OTHER -> 17

OfProcess(findings) ==
  {FindingRow(f.place[1], "this", SeverityOf(f), f.score, {Category(f.place[1])}, f.place) :
     f \in findings}
OfJob(arts) ==
  {LET severity == YaraSeverity(Metadata[arts["yara"][i].rule], FALSE)
   IN FindingRow(14, "none", severity, SeverityScore[severity], {}, <<14, i, 0>>) :
     i \in Representatives(arts, JobSummaries(arts))}
    \cup {FindingRow(ContextRule(plugin), "none", "medium", 5, {}, <<ContextRule(plugin), 0, 0>>) :
            plugin \in ContextPlugins(arts)}
OfSummary(sum) ==
  IF sum.severity = "none" THEN {}
  ELSE {FindingRow(0, "this", sum.severity, sum.score, sum.groups, <<18, 0, 0>>)}

\* The findings that load_report_data reads.
RiskFindings(arts, findings, sum, others) ==
  OfProcess(findings) \cup OfJob(arts) \cup OfSummary(sum) \cup others

\* finding_sort_key; the sort is stable.
Outranks(f, g) ==
  \/ Rank[f.severity] > Rank[g.severity]
  \/ f.severity = g.severity /\ f.score > g.score
  \/ f.severity = g.severity /\ f.score = g.score /\ Before(f, g)

Summaries(rows) == {f \in rows : f.rule = 0}

\* build_display_top_findings: where there are summaries, nothing else is shown.
\* Rows of one key are shown once, the first of them.
Candidates(rows) == IF Summaries(rows) # {} THEN Summaries(rows) ELSE rows
DisplayKey(f)    == <<f.rule, f.process>>
Foremost(rows) ==
  {f \in rows : \A g \in rows : DisplayKey(g) = DisplayKey(f) => ~Outranks(g, f)}
FirstFindings(rows, limit) ==
  {f \in rows : Cardinality({g \in rows : Outranks(g, f)}) < limit}
TopFindings(rows) == FirstFindings(Foremost(Candidates(rows)), Limit.findings)
Omitted(rows) ==
  Cardinality(rows \ Candidates(rows)) + Cardinality(Candidates(rows) \ TopFindings(rows))

\* build_process_finding_groups: the summaries, or else what each process's findings
\* add up to.  Findings without a process are in none.
GroupOf(process, rows) ==
  LET worst == CHOOSE f \in rows : \A g \in rows : ~Outranks(g, f)
  IN FindingRow(0, process, worst.severity, MapThenSumSet(LAMBDA f : f.score, rows),
                UNION {f.groups : f \in rows}, worst.place)
ProcessGroups(rows) ==
  LET own(process) == {f \in rows : f.process = process}
  IN IF Summaries(rows) # {} THEN Summaries(rows)
     ELSE {GroupOf(p, own(p)) : p \in {f.process : f \in rows} \ {"none"}}

-----------------------------------------------------------------------------
(* Network connections. *)

Listening(row) == row.state = "listening"
\* No remote end: the address is a wildcard, or there is no port.
Loose(row)     == row.address = "any" \/ ~HasPort(row)

\* _network_artifact_linked: by the finding's row, or by the value of an indicator.
LinkedConnections(arts, findings, iocs) ==
  {i \in DOMAIN arts["network"] :
     \/ On(findings, "network", i) # {}
     \/ \E ioc \in iocs : ioc.value \in {arts["network"][i].endpoint, arts["network"][i].address}}

\* _network_display_score
NetworkScore(row, linked) ==
  (IF row.public THEN 60 ELSE 0) + (IF Loose(row) THEN -15 ELSE 15)
    + (IF row.state = "active" THEN 15 ELSE IF Listening(row) THEN -25 ELSE 0)
    + (IF linked THEN 30 ELSE 0)

\* _network_dedupe_key: listeners on one local port differ by nothing else.
SameConnection(r, s) == r = s \/ \A x \in {r, s} : Listening(x) /\ Loose(x)

\* build_network_display: similar rows share a line, whose row is the best of them; the
\* best line comes first, of equals the one whose rows begin first.
NetworkLines(rows, linked) ==
  LET score   == [i \in DOMAIN rows |-> NetworkScore(rows[i], i \in linked)]
      like(i) == {k \in DOMAIN rows : SameConnection(rows[k], rows[i])}
      ahead(i, k) == score[i] > score[k] \/ (score[i] = score[k] /\ Min(like(i)) < Min(like(k)))
      best    == {i \in DOMAIN rows : \A k \in like(i) :
                    score[i] > score[k] \/ (score[i] = score[k] /\ i <= k)}
  IN {[at |-> i, linked |-> like(i) \cap linked # {}, count |-> Cardinality(like(i)),
       position |-> Cardinality({k \in best : ahead(k, i)})] : i \in best}

-----------------------------------------------------------------------------
(* Modules. *)

\* A row is listed if it is one of Microsoft's, in a user-writable folder (those of
\* the extractor), or what a finding is about.
SelectedModules(arts, findings) ==
  {i \in DOMAIN arts["module"] :
     arts["module"][i] \in Microsoft \cup ListedModule \/ On(findings, "module", i) # {}}
KnownModules(arts, selected) == {i \in selected : arts["module"][i] \in Microsoft}

\* Mutated form: a finding does not raise its module.
FlatPriority(known, linked) == IF known THEN 0 ELSE 35
ModulePriority(known, linked) ==
  IF known THEN (IF linked THEN 10 ELSE 0) ELSE IF linked THEN 50 ELSE 35

\* build_module_display: rows of one path share a line; the path of a known module
\* stands for the folder of its application.
ModuleLines(arts, findings) ==
  LET selected == SelectedModules(arts, findings)
      known    == KnownModules(arts, selected)
      linked   == {i \in selected : On(findings, "module", i) # {}}
      like(i)  == {k \in selected : arts["module"][k].path = arts["module"][i].path}
      lines    == {[at |-> i, count |-> Cardinality(like(i)), linked |-> like(i) \cap linked # {},
                    priority |-> ModulePriority(i \in known, like(i) \cap linked # {})] :
                     i \in {k \in selected : \A m \in like(k) : k <= m}}
      ahead(l, m) == \/ l.priority > m.priority
                     \/ l.priority = m.priority /\ l.count > m.count
                     \/ l.priority = m.priority /\ l.count = m.count /\ l.at < m.at
  IN {[at |-> l.at, count |-> l.count, linked |-> l.linked,
       position |-> Cardinality({m \in lines : ahead(m, l)})] : l \in lines}

\* sorted_buckets[:limit]
Displayed(lines) == {l \in lines : l.position < Limit.display}

-----------------------------------------------------------------------------
(* YARA matches and indicators. *)

\* build_yara_summary, over the first matches of the table.
YaraLines(arts) ==
  LET seen    == {i \in DOMAIN arts["yara"] : i <= Limit.rows}
      like(i) == {k \in seen : /\ arts["yara"][k].rule = arts["yara"][i].rule
                               /\ arts["yara"][k].plugin = arts["yara"][i].plugin}
  IN {[rule |-> arts["yara"][i].rule, plugin |-> arts["yara"][i].plugin,
       count |-> Cardinality(like(i))] : i \in Representatives(arts, seen)}

\* build_ioc_summary for a set of roles
IocLines(iocs, roles) ==
  LET wanted     == {ioc \in iocs : ioc.role \in roles}
      like(type) == {ioc \in wanted : ioc.type = type}
  IN {[type |-> type, count |-> Cardinality(like(type)),
       lowest |-> Min({ioc.confidence : ioc \in like(type)}),
       highest |-> Max({ioc.confidence : ioc \in like(type)})] : type \in {ioc.type : ioc \in wanted}}
Threats  == {"threat_ioc"}
Contexts == {"investigation_artifact"}

-----------------------------------------------------------------------------
(* Memory evidence chains. *)

\* The regions of the process that come first in its table.
ChainRegions(arts) == {i \in DOMAIN arts["memory_region"] : i <= Limit.regions}

\* Its rules by name.
MatchedRules(arts) == {arts["yara"][i].rule : i \in DOMAIN arts["yara"]}
ChainRules(arts) ==
  {r \in MatchedRules(arts) :
     Cardinality({s \in MatchedRules(arts) : NameRank[s] < NameRank[r]}) < Limit.samples}

\* Its first endpoints; that of a listener is a wildcard.
NewEndpoints(rows) ==
  {i \in DOMAIN rows : \A k \in 1..(i - 1) : rows[k].endpoint # rows[i].endpoint}
ChainEndpoints(arts) ==
  LET first == NewEndpoints(arts["network"])
  IN {arts["network"][i].endpoint :
        i \in {k \in first : Cardinality({m \in first : m < k}) < Limit.samples}}

\* _chain_interpretation
Interpretation(groups) ==
  IF "memory_region" \notin groups THEN "grouped"
  ELSE IF groups \cap {"yara_match", "network_endpoint", "suspicious_command"} = {}
    THEN "injection" ELSE "independent signals"

\* Its indicators; a YARA rule's and a plugin's carry no PID.
ChainReferences(iocs) ==
  IocLines({ioc \in iocs : ioc.type \notin {"yara_rule", "plugin_reference"}},
           Threats \cup Contexts)

\* build_memory_evidence_chains, of which the rows at hand fill this process's.
Chains(groups, arts, references) ==
  {[groups |-> g.groups, regions |-> ChainRegions(arts), rules |-> ChainRules(arts),
    endpoints |-> ChainEndpoints(arts), references |-> references,
    interpretation |-> Interpretation(g.groups)] :
     g \in {f \in FirstFindings(groups, Limit.processes) : f.process = "this"}}

-----------------------------------------------------------------------------
(* Recommendations. *)

\* build_executive_summary
HighOrCritical(rows) == {f \in rows : f.severity \in Alarming}

\* The indicators the report carries, in whatever order they were read.
Carried(iocs) == IF Cardinality(iocs) <= Limit.iocs THEN {iocs} ELSE kSubset(Limit.iocs, iocs)

\* Mutated form: the advice is given for any connection.
AdviceOnAny(rows, iocs, arts) ==
  (IF HighOrCritical(rows) # {} THEN {"isolate"} ELSE {})
    \cup (IF arts["network"] # <<>> THEN {"hunt"} ELSE {})
    \cup (IF arts["memory_region"] # <<>> THEN {"regions"} ELSE {})
    \cup (IF arts["yara"] # <<>> THEN {"matches"} ELSE {})
    \cup (IF arts["command"] # <<>> THEN {"commands"} ELSE {})

\* generate_recommendations, but for the two that every report has.
Recommendations(rows, iocs, arts) ==
  (IF HighOrCritical(rows) # {} THEN {"isolate"} ELSE {})
    \cup (IF \E ioc \in iocs : ioc.type \in {"ip_address", "network_endpoint"} THEN {"hunt"} ELSE {})
    \cup (IF arts["memory_region"] # <<>> THEN {"regions"} ELSE {})
    \cup (IF arts["yara"] # <<>> THEN {"matches"} ELSE {})
    \cup (IF arts["command"] # <<>> THEN {"commands"} ELSE {})

-----------------------------------------------------------------------------
(* Properties.  A report is written from what detection and extraction have *)
(* stored, whether or not other processes of the job have summaries.        *)

\* A chain lists a region, and an endpoint, of those the evidence it claims rests on,
\* unless its lists are cut, the indicator of a connection's address, and that of an
\* endpoint where a public connection has a port; it calls signals independent only
\* over two tables.  A YARA rule that the export calls a threat because of the
\* regions next to it is in a chain that has regions and names it, unless other
\* processes have the only summaries or worse ones (build_memory_evidence_chains).
CutRegions   == Len(artifacts["memory_region"]) > Limit.regions
CutEndpoints == Cardinality(NewEndpoints(artifacts["network"])) > Limit.samples
CutRules     == Cardinality(MatchedRules(artifacts)) > Limit.samples
PublicPort   == \E i \in Rows(artifacts, "network", Public) : HasPort(artifacts["network"][i])
References(chain, type) == \E line \in chain.references : line.type = type
EvidenceListed(chain) ==
  /\ "memory_region" \in chain.groups =>
       CutRegions \/ chain.regions \cap Rows(artifacts, "memory_region", Suspicious) # {}
  /\ chain.groups \cap {"network_endpoint", "network"} # {} =>
       CutEndpoints \/ \E i \in Rows(artifacts, "network", Public) :
                         artifacts["network"][i].endpoint \in chain.endpoints
  /\ chain.groups \cap {"network_endpoint", "network"} # {} =>
       /\ References(chain, "ip_address")
       /\ PublicPort => References(chain, "network_endpoint")
  /\ chain.interpretation = "independent signals" => Cardinality(EvidenceTables(artifacts)) >= 2
ThreatRules(iocs) ==
  {ioc.value : ioc \in {x \in iocs : x.type = "yara_rule" /\ x.role = "threat_ioc"}}
ThreatsListed(chains, threats) ==
  threats # {} =>
    \E chain \in chains : chain.regions # {} /\ (CutRules \/ threats \subseteq chain.rules)
ChainsTell(findings, iocs, references, others) ==
  \A chains \in {Chains(ProcessGroups(RiskFindings(artifacts, findings, summary, others)),
                         artifacts, references)} :
    /\ \A chain \in chains : EvidenceListed(chain)
    /\ others = {} => ThreatsListed(chains, ThreatRules(iocs))
ChainsShowEvidence ==
  summary # Pending =>
    \A findings \in {Reported(artifacts)} : \A iocs \in {ExportOf(artifacts, findings)} :
      \A references \in {ChainReferences(iocs)} :
        \A others \in {{}, Others} : ChainsTell(findings, iocs, references, others)

\* What the report advises, it shows a reason for: a host is to be isolated because of
\* a high or critical finding on top, connections are to be hunted because of a public
\* endpoint in the table.  Exempt from the first are findings that the summary of their
\* process takes for context or for YARA matches alone, those that
\* max_findings_per_process keeps out of it, and those of a process without a summary
\* next to others that have one: none of them is shown.
CutOff(arts) == Unique(Findings(arts)) \ Selected(Unique(Findings(arts)))
Understated(others) ==
  \/ summary = NoSummary /\ others # {}
  \/ summary.groups = {"yara_match"}
  \/ summary.confidence = "context_only"
  \/ \E f \in CutOff(artifacts) : SeverityOf(f) \in Alarming
PublicShown(lines) == \E line \in Displayed(lines) : artifacts["network"][line.at].public
Backed(findings, iocs) ==
  \A others \in {{}, Others} : \A carried \in Carried(iocs) :
    \A rows \in {RiskFindings(artifacts, findings, summary, others)} :
      \A advice \in {Recommendations(rows, carried, artifacts)} :
        /\ "isolate" \in advice =>
             HighOrCritical(TopFindings(rows)) # {} \/ Understated(others)
        /\ "hunt" \in advice =>
             PublicShown(NetworkLines(artifacts["network"],
                                      LinkedConnections(artifacts, findings, iocs)))
AdviceBacked ==
  summary # Pending =>
    \A findings \in {Reported(artifacts)} : Backed(findings, ExportOf(artifacts, findings))

\* The sections account for every row they are about and for every finding, those of
\* similar rows and those left out included, and a limit never takes away a row that a
\* finding is about while one that no finding is about stays (the counts and notes of
\* build_network_display, build_module_display and build_display_top_findings).
Counted(lines) == MapThenSumSet(LAMBDA l : l.count, lines)
Accounted(lines, number) == Counted(lines) = number
LinkedKept(lines) ==
  \A l \in Displayed(lines) : \A m \in lines \ Displayed(lines) : m.linked => l.linked
KeepsConnections(lines) == Accounted(lines, Len(artifacts["network"])) /\ LinkedKept(lines)
KeepsModules(findings, lines) ==
  Accounted(lines, Cardinality(SelectedModules(artifacts, findings))) /\ LinkedKept(lines)
KeepsFindings(rows) == Cardinality(TopFindings(rows)) + Omitted(rows) = Cardinality(rows)
Keeps(findings, iocs) ==
  /\ \A others \in {{}, Others} : KeepsFindings(RiskFindings(artifacts, findings, summary, others))
  /\ KeepsConnections(NetworkLines(artifacts["network"],
                                   LinkedConnections(artifacts, findings, iocs)))
  /\ KeepsModules(findings, ModuleLines(artifacts, findings))
  /\ Accounted(YaraLines(artifacts), Min({Len(artifacts["yara"]), Limit.rows}))
  /\ Counted(IocLines(iocs, Threats)) + Counted(IocLines(iocs, Contexts)) = Cardinality(iocs)
SectionsKeepEvidence ==
  summary # Pending =>
    \A findings \in {Reported(artifacts)} : Keeps(findings, ExportOf(artifacts, findings))
=============================================================================
