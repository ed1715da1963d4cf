------------------------ MODULE ReportContextProofs ------------------------
(***************************************************************************)
(* Theorems about what the report makes of the findings of ProcessRisk and *)
(* of what is exported of them, for any number of rows, any YARA rules     *)
(* with any metadata and any limits of the report's lists.                 *)
(***************************************************************************)
EXTENDS ReportContext, IocExportProofs

-----------------------------------------------------------------------------
(* The evidence of a chain. *)

\* A summary is that of the rows, which nobody changes any more.
SummaryMade == summary # Pending => summary = ProcessSummary(artifacts)

LEMMA SummaryOfTables == Spec => []SummaryMade
<1>1. Init => SummaryMade
  BY DEF Init, SummaryMade
<1>2. SummaryMade /\ [Next]_vars => SummaryMade'
  <2> SUFFICES ASSUME SummaryMade, [Next]_vars PROVE SummaryMade'
    OBVIOUS
  <2>1. UNCHANGED <<benign, artifacts>> => ProcessSummary(artifacts)' = ProcessSummary(artifacts)
    BY DEF ProcessSummary, Findings, RegionFindings
  <2> QED BY <2>1 DEF SummaryMade, Next, StoreRow, RunDetection, vars
<1> QED BY <1>1, <1>2, PTL DEF Spec

\* What a finding counts in, as evidence of its summary or by its category.
Claimed(group) ==
  \E c \in Findings(artifacts) : group \in c.groups \/ group = Category(c.place[1])

\* Category and groups of a finding agree on regions and connections.
LEMMA CategoryOfFindings ==
  ASSUME NEW arts \in Tables, NEW c \in Findings(arts)
  PROVE  /\ Category(c.place[1]) = "memory_region" => c.groups = {"memory_region"}
         /\ Category(c.place[1]) = "network" => c.groups = {"network_endpoint"}
         /\ Category(c.place[1]) \notin {"network_endpoint", "yara_match", "suspicious_command"}
         /\ "network" \notin c.groups
<1>1. c.groups \subseteq EvidenceGroup
  BY FindingRange DEF Ranged
<1>2. "network" \notin c.groups
  BY <1>1 DEF EvidenceGroup
<1>3. Category(c.place[1]) \notin {"network_endpoint", "yara_match", "suspicious_command"}
  BY DEF Category
<1>4. c.place[1] \in 1..14
  BY FindingRange DEF Ranged
<1>5. ASSUME c.place[1] \in {8, 10}
      PROVE  c.groups = RuleGroups[c.place[1]]
  <2>1. RowFinding(c) \/ ModuleFinding(c) \/ MatchFinding(c, 7, HasRegions(arts))
          \/ MatchFinding(c, 14, FALSE)
    BY FindingForm
  <2>2. ~ModuleFinding(c) /\ \A correlated : ~MatchFinding(c, 7, correlated) /\ ~MatchFinding(c, 14, correlated)
    BY <1>5 DEF ModuleFinding, MatchFinding
  <2> QED BY <2>1, <2>2 DEF RowFinding
<1>6. Category(c.place[1]) = "memory_region" => c.groups = {"memory_region"}
  <2>1. Category(c.place[1]) = "memory_region" => c.place[1] = 8
    BY <1>4 DEF Category
  <2> QED BY <2>1, <1>5, RuleTable
<1>7. Category(c.place[1]) = "network" => c.groups = {"network_endpoint"}
  <2>1. Category(c.place[1]) = "network" => c.place[1] = 10
    BY <1>4 DEF Category
  <2> QED BY <2>1, <1>5, RuleTable
<1> QED BY <1>2, <1>3, <1>6, <1>7

\* Whatever a finding counts in, its table has a row that tells it.
LEMMA ClaimsHaveRows ==
  ASSUME TypeOK
  PROVE  /\ Claimed("memory_region") => Has(artifacts, "memory_region", Suspicious)
         /\ Claimed("network_endpoint") \/ Claimed("network") => Has(artifacts, "network", Public)
         /\ Claimed("suspicious_command") => Has(artifacts, "command", Telling)
         /\ Claimed("yara_match") => artifacts["yara"] # <<>>
<1>1. PICK arts : arts = artifacts
  OBVIOUS
<1>2. arts \in Tables
  BY <1>1 DEF TypeOK, Tables
<1>3. \A c \in Findings(artifacts) :
        /\ "memory_region" \in c.groups \/ Category(c.place[1]) = "memory_region"
             => "memory_region" \in c.groups
        /\ "network_endpoint" \in c.groups \/ Category(c.place[1]) \in {"network", "network_endpoint"}
             => "network_endpoint" \in c.groups
        /\ "network" \notin c.groups
        /\ Category(c.place[1]) \notin {"suspicious_command", "yara_match"}
  BY <1>1, <1>2, CategoryOfFindings
<1>4. \A c \in Findings(artifacts) :
        /\ "memory_region" \in c.groups => Has(artifacts, "memory_region", Suspicious)
        /\ "network_endpoint" \in c.groups => Has(artifacts, "network", Public)
        /\ "suspicious_command" \in c.groups => Has(artifacts, "command", Encoded \cup LinkableCommand)
        /\ "yara_match" \in c.groups => \E i \in DOMAIN artifacts["yara"] : TRUE
  <2> SUFFICES ASSUME NEW c \in Findings(artifacts)
               PROVE  /\ "memory_region" \in c.groups => Has(artifacts, "memory_region", Suspicious)
                      /\ "network_endpoint" \in c.groups => Has(artifacts, "network", Public)
                      /\ "suspicious_command" \in c.groups
                           => Has(artifacts, "command", Encoded \cup LinkableCommand)
                      /\ "yara_match" \in c.groups => \E i \in DOMAIN artifacts["yara"] : TRUE
    OBVIOUS
  <2>1. CASE FromMatch(c)
    <3>1. c.groups = {"yara_match"} /\ \E i \in DOMAIN artifacts["yara"] : TRUE
      BY <2>1 DEF FromMatch
    <3> QED BY <3>1
  <2>2. CASE FromRows(c)
    BY <2>2 DEF FromRows
  <2> QED BY <2>1, <2>2, FindingOrigin
<1>5. Has(artifacts, "command", Encoded \cup LinkableCommand) => Has(artifacts, "command", Telling)
  BY DEF Has, Rows, Encoded, LinkableCommand, Telling
<1>6. (\E i \in DOMAIN artifacts["yara"] : TRUE) => artifacts["yara"] # <<>>
  OBVIOUS
<1> HIDE DEF Has, Findings
<1> QED BY <1>3, <1>4, <1>5, <1>6 DEF Claimed

\* What risk_findings has of this process.
LEMMA RowsOfThis ==
  ASSUME NEW arts \in Tables, NEW findings \in SUBSET Findings(arts), NEW sum, NEW others,
         \A f \in others : f.rule = 0 /\ f.process # "this"
  PROVE  /\ \A f \in OfProcess(findings) :
              /\ f.process = "this" /\ f.rule \in 1..14
              /\ \E c \in findings : /\ f.groups = {Category(c.place[1])} /\ f.place = c.place
                                     /\ f.score = c.score /\ f.severity = Level(c.score)
         /\ \A f \in RiskFindings(arts, findings, sum, others) :
              f.process = "this" => f \in OfProcess(findings) \cup OfSummary(sum)
         /\ \A f \in OfSummary(sum) : /\ f.process = "this" /\ f.rule = 0
                                      /\ f.groups = sum.groups /\ f.severity = sum.severity
                                      /\ sum.severity # "none"
         /\ \A f \in OfJob(arts) : f.rule # 0 /\ f.process = "none"
<1>1. ASSUME NEW f \in OfProcess(findings)
      PROVE  /\ f.process = "this" /\ f.rule \in 1..14
             /\ \E c \in findings : /\ f.groups = {Category(c.place[1])} /\ f.place = c.place
                                    /\ f.score = c.score /\ f.severity = Level(c.score)
  <2>1. PICK c \in findings :
          f = FindingRow(c.place[1], "this", SeverityOf(c), c.score, {Category(c.place[1])}, c.place)
    BY DEF OfProcess
  <2>2. c.place[1] \in 1..14
    BY FindingRange DEF Ranged
  <2> HIDE DEF Category
  <2> QED BY <2>1, <2>2 DEF FindingRow, SeverityOf
<1>2. ASSUME NEW f \in OfJob(arts) PROVE f.rule # 0 /\ f.process = "none"
  <2>1. CASE \E i, severity : f = FindingRow(14, "none", severity, SeverityScore[severity], {}, <<14, i, 0>>)
    BY <2>1 DEF FindingRow
  <2>2. CASE \E plugin : f = FindingRow(ContextRule(plugin), "none", "medium", 5, {},
                                        <<ContextRule(plugin), 0, 0>>)
    BY <2>2 DEF FindingRow, ContextRule
  <2>3. f \in {LET severity == YaraSeverity(Metadata[arts["yara"][i].rule], FALSE)
               IN FindingRow(14, "none", severity, SeverityScore[severity], {}, <<14, i, 0>>) :
                 i \in Representatives(arts, JobSummaries(arts))}
          => \E i, severity : f = FindingRow(14, "none", severity, SeverityScore[severity], {}, <<14, i, 0>>)
    <3> HIDE DEF FindingRow, SeverityScore, YaraSeverity, Representatives
    <3> QED OBVIOUS
  <2> QED BY <2>1, <2>2, <2>3 DEF OfJob
<1>3. \A f \in OfSummary(sum) : /\ f.process = "this" /\ f.rule = 0
                                /\ f.groups = sum.groups /\ f.severity = sum.severity
                                /\ sum.severity # "none"
  BY DEF OfSummary, FindingRow
<1>4. \A f \in RiskFindings(arts, findings, sum, others) :
        f.process = "this" => f \in OfProcess(findings) \cup OfSummary(sum)
  BY <1>2 DEF RiskFindings
<1> QED BY <1>1, <1>2, <1>3, <1>4

\* A group of findings of this process claims what a finding says.
LEMMA GroupsAreClaimed ==
  ASSUME TypeOK, SummaryMade, summary # Pending,
         NEW findings \in SUBSET Findings(artifacts), NEW others,
         \A f \in others : f.rule = 0 /\ f.process # "this",
         NEW g \in ProcessGroups(RiskFindings(artifacts, findings, summary, others)),
         g.process = "this"
  PROVE  \A group \in g.groups : Claimed(group)
<1>1. PICK arts : arts = artifacts
  OBVIOUS
<1>2. arts \in Tables
  BY <1>1 DEF TypeOK, Tables
<1> DEFINE rows == RiskFindings(artifacts, findings, summary, others)
<1>3. /\ \A f \in OfProcess(findings) : \E c \in findings : f.groups = {Category(c.place[1])}
      /\ \A f \in OfSummary(summary) : f.groups = summary.groups /\ summary.severity # "none"
      /\ \A f \in rows : f.process = "this" => f \in OfProcess(findings) \cup OfSummary(summary)
  BY <1>1, <1>2, RowsOfThis
<1>4. ASSUME NEW f \in OfSummary(summary) PROVE \A group \in f.groups : Claimed(group)
  <2> DEFINE C == Selected(Unique(Findings(artifacts)))
  <2>1. summary = Rated(C)
    BY <1>3 DEF SummaryMade, ProcessSummary, NoSummary
  <2>2. summary.groups = EvidenceGroups(C)
    <3> HIDE DEF C
    <3> QED BY <2>1 DEF Rated
  <2>3. C \subseteq Findings(artifacts)
    BY DEF Selected, Unique
  <2> HIDE DEF C
  <2> QED BY <1>3, <2>2, <2>3 DEF EvidenceGroups, Claimed
<1>5. \A f \in OfProcess(findings) : \A group \in f.groups : Claimed(group)
  <2> HIDE DEF Category
  <2> QED BY <1>3 DEF Claimed
<1> HIDE DEF rows
<1>6. \A f \in rows : f.process = "this" => \A group \in f.groups : Claimed(group)
  BY <1>3, <1>4, <1>5
<1>7. CASE Summaries(rows) # {}
  BY <1>6, <1>7 DEF ProcessGroups, Summaries, rows
<1>8. CASE Summaries(rows) = {}
  <2> DEFINE own(p) == {f \in rows : f.process = p}
  <2>1. PICK p \in {f.process : f \in rows} \ {"none"} : g = GroupOf(p, own(p))
    BY <1>8 DEF ProcessGroups, rows
  <2>2. g.process = p /\ g.groups = UNION {f.groups : f \in own(p)}
    <3> HIDE DEF own
    <3> QED BY <2>1 DEF GroupOf, FindingRow
  <2> QED BY <1>6, <2>2
<1> QED BY <1>7, <1>8

\* A part that lacks an element is smaller.
LEMMA Fewer ==
  ASSUME NEW S, IsFiniteSet(S), NEW T \in SUBSET S, NEW x \in S, x \notin T
  PROVE  Cardinality(T) < Cardinality(S) /\ Cardinality(T) \in Nat /\ Cardinality(S) \in Nat
<1>1. T \in SUBSET (S \ {x})
  OBVIOUS
<1>2. IsFiniteSet(S \ {x}) /\ Cardinality(S \ {x}) = Cardinality(S) - 1 /\ Cardinality(S) \in Nat
  BY FS_RemoveElement, FS_CardinalityType
<1>3. Cardinality(T) <= Cardinality(S \ {x}) /\ IsFiniteSet(T)
  BY <1>1, <1>2, FS_Subset
<1> QED BY <1>2, <1>3, FS_CardinalityType

\* Tables are finite.
LEMMA RowsFinite ==
  ASSUME NEW arts \in Tables, NEW t \in Table
  PROVE  DOMAIN arts[t] = 1..Len(arts[t]) /\ Len(arts[t]) \in Nat /\ IsFiniteSet(DOMAIN arts[t])
<1>1. DOMAIN arts[t] = 1..Len(arts[t]) /\ Len(arts[t]) \in Nat
  BY DEF Tables
<1> QED BY <1>1, FS_Interval

\* Unless endpoints are cut, the chain lists those of all rows.
LEMMA EndpointListed ==
  ASSUME NEW arts \in Tables, NEW i \in DOMAIN arts["network"],
         Cardinality(NewEndpoints(arts["network"])) <= Limit.samples
  PROVE  arts["network"][i].endpoint \in ChainEndpoints(arts)
<1> DEFINE rows == arts["network"]
           first == NewEndpoints(rows)
           Same == {k \in DOMAIN rows : rows[k].endpoint = rows[i].endpoint}
<1>1. DOMAIN rows = 1..Len(rows) /\ Len(rows) \in Nat /\ IsFiniteSet(DOMAIN rows)
  BY RowsFinite DEF Table
<1>2. PICK k \in Same : \A m \in Same : k <= m
  <2>1. Same # {} /\ Same \in SUBSET Nat
    BY <1>1
  <2> HIDE DEF Same
  <2> QED BY <2>1, LeastNumber
<1>3. k \in first
  BY <1>1, <1>2 DEF NewEndpoints
<1>4. IsFiniteSet(first) /\ first \in SUBSET Nat
  <2>1. first \in SUBSET (DOMAIN rows)
    BY DEF NewEndpoints
  <2> QED BY <1>1, <2>1, FS_Subset
<1> DEFINE before == {m \in first : m < k}
<1>5. Cardinality(before) < Cardinality(first)
      /\ Cardinality(before) \in Nat /\ Cardinality(first) \in Nat
  <2>1. before \in SUBSET first /\ k \notin before
    BY <1>3, <1>4
  <2> HIDE DEF before, first
  <2> QED BY <1>3, <1>4, <2>1, Fewer
<1>6. Limit.samples \in Nat
  BY ReportAssumption
<1>7. Cardinality(before) < Limit.samples
  <2> DEFINE a == Cardinality(before)
             b == Cardinality(first)
  <2> HIDE DEF a, b
  <2>1. a < b /\ a \in Nat /\ b \in Nat /\ b <= Limit.samples
    BY <1>5 DEF a, b
  <2>2. a < Limit.samples
    BY <1>6, <2>1
  <2> QED BY <2>2 DEF a
<1>8. rows[k].endpoint = rows[i].endpoint
  BY <1>2
<1>9. rows[k].endpoint \in ChainEndpoints(arts)
  BY <1>3, <1>7 DEF ChainEndpoints
<1> QED BY <1>8, <1>9

-----------------------------------------------------------------------------
(* The lists of a chain. *)

\* Drafts have one of two roles, and matches alone are drafted as rules.
LEMMA DraftRoles ==
  \A arts, findings : \A d \in DraftsOf(arts, findings) :
    d.role \in Roles /\ (d.type = "yara_rule" => d \in YaraIocs(arts, findings))
<1> SUFFICES ASSUME NEW arts, NEW findings, NEW d \in DraftsOf(arts, findings)
             PROVE  d.role \in Roles /\ (d.type = "yara_rule" => d \in YaraIocs(arts, findings))
  OBVIOUS
<1>1. \A e \in ModuleIocs(arts, findings) : e.role \in Roles
  BY DEF ModuleIocs, Draft, Roles
<1>2. ASSUME NEW e \in YaraIocs(arts, findings) PROVE e.role \in Roles
  <2>1. PICK i \in DOMAIN arts["yara"] : \E sure :
          e = Draft(i, "yara_rule", arts["yara"][i].rule, arts["yara"][i].plugin, sure,
                    YaraRole(arts, arts["yara"][i].rule, On(findings, "yara", i)))
    BY DEF YaraIocs
  <2>2. e.role = YaraRole(arts, arts["yara"][i].rule, On(findings, "yara", i))
    BY <2>1 DEF Draft
  <2> QED BY <2>2 DEF YaraRole, Roles
<1>3. \/ d.type \in {"ip_address", "network_endpoint", "command_line"} /\ d.role = "threat_ioc"
      \/ d.type = "module_path" /\ d \in ModuleIocs(arts, findings)
      \/ d.type = "yara_rule" /\ d \in YaraIocs(arts, findings)
      \/ d.type \in Artifacts /\ d.role = "investigation_artifact"
  BY DraftForms
<1> QED BY <1>1, <1>2, <1>3 DEF Roles, Artifacts

\* Where there is a public connection, the chain refers to addresses; where one has a
\* port, to endpoints.
LEMMA EndReferred ==
  ASSUME NEW arts \in Tables, NEW i \in Rows(arts, "network", Public),
         NEW type \in {"ip_address", "network_endpoint"},
         type = "network_endpoint" => HasPort(arts["network"][i])
  PROVE  \E line \in ChainReferences(Exported(arts)) : line.type = type
<1> DEFINE findings == Reported(arts)
           drafts == DraftsOf(arts, findings)
<1>1. i \in DOMAIN arts["network"] /\ arts["network"][i] \in Public
  BY DEF Rows
<1>2. PICK d \in drafts : d.type = type
  <2> DEFINE sure == Surety(findings, "network", i, "medium")
             row  == arts["network"][i]
  <2>1. NetworkDrafts(i, row, sure) \subseteq NetworkIocs(arts, findings)
    <3> HIDE DEF sure, findings
    <3>1. ASSUME NEW d \in NetworkDrafts(i, row, sure) PROVE d \in NetworkIocs(arts, findings)
      BY <1>1, NetworkForm DEF sure
    <3> QED BY <3>1
  <2>2. \E d \in NetworkDrafts(i, row, sure) : d.type = type
    <3> DEFINE ip  == Draft(i, "ip_address", row.address, "network", sure, "threat_ioc")
               end == Draft(i, "network_endpoint", row.endpoint, "network", sure, "threat_ioc")
    <3>1. ip.type = "ip_address" /\ end.type = "network_endpoint"
      BY DEF Draft
    <3>2. ip \in NetworkDrafts(i, row, sure) /\ (HasPort(row) => end \in NetworkDrafts(i, row, sure))
      <4> HIDE DEF sure, row
      <4> QED BY DEF NetworkDrafts
    <3> HIDE DEF ip, end, sure
    <3> QED BY <3>1, <3>2
  <2> HIDE DEF sure
  <2> QED BY <2>1, <2>2 DEF DraftsOf
<1>3. Draftlike(drafts)
  BY AllDrafts
<1> HIDE DEF drafts
<1>4. PICK ioc \in Deduplicated(drafts) : ioc.type = type
  BY <1>2, <1>3, KeyKept
<1>5. ioc.role \in Roles
  <2>1. PICK x \in drafts : ioc = Record(x)
    BY DEF Deduplicated
  <2> QED BY <2>1, DraftRoles DEF Record, drafts
<1>6. ioc \in Exported(arts)
  BY <1>4, ExportForm DEF Exported, drafts
<1> DEFINE kept == {x \in Exported(arts) : x.type \notin {"yara_rule", "plugin_reference"}}
           wanted == {x \in kept : x.role \in Threats \cup Contexts}
<1>7. ioc \in wanted
  BY <1>4, <1>5, <1>6 DEF Roles, Threats, Contexts
<1>8. \A kind \in {x.type : x \in wanted} :
        \E line \in IocLines(kept, Threats \cup Contexts) : line.type = kind
  <2> DEFINE like(kind) == {x \in wanted : x.type = kind}
             Line(kind) == [type |-> kind, count |-> Cardinality(like(kind)),
                            lowest |-> Min({x.confidence : x \in like(kind)}),
                            highest |-> Max({x.confidence : x \in like(kind)})]
  <2>1. IocLines(kept, Threats \cup Contexts) = {Line(kind) : kind \in {x.type : x \in wanted}}
    BY DEF IocLines
  <2>2. \A kind : Line(kind).type = kind
    <3> HIDE DEF like
    <3> QED OBVIOUS
  <2> HIDE DEF Line
  <2> QED BY <2>1, <2>2
<1> HIDE DEF wanted, kept
<1>9. ioc.type \in {x.type : x \in wanted}
  BY <1>7
<1> QED BY <1>4, <1>8, <1>9 DEF ChainReferences, kept

\* What makes a rule's match a threat.
LEMMA ThreatOrigin ==
  ASSUME NEW arts, NEW rule \in ThreatRules(Exported(arts))
  PROVE  /\ rule \in MatchedRules(arts) /\ HasRegions(arts) /\ Reported(arts) # {}
<1> DEFINE findings == Reported(arts)
<1>1. PICK ioc \in Exported(arts) : ioc.type = "yara_rule" /\ ioc.role = "threat_ioc" /\ ioc.value = rule
  BY DEF ThreatRules
<1>2. PICK d \in DraftsOf(arts, findings) : ioc = Record(d)
  BY ExportForm DEF Exported, Deduplicated
<1>3. d.type = "yara_rule" /\ d.role = "threat_ioc" /\ d.value = rule
  BY <1>1, <1>2 DEF Record
<1>4. d \in YaraIocs(arts, findings)
  BY <1>3, DraftRoles
<1>5. PICK i \in DOMAIN arts["yara"] :
        /\ d.value = arts["yara"][i].rule
        /\ d.role = YaraRole(arts, arts["yara"][i].rule, On(findings, "yara", i))
  <2>1. PICK i \in DOMAIN arts["yara"] : \E sure :
          d = Draft(i, "yara_rule", arts["yara"][i].rule, arts["yara"][i].plugin, sure,
                    YaraRole(arts, arts["yara"][i].rule, On(findings, "yara", i)))
    BY <1>4 DEF YaraIocs
  <2> QED BY <2>1 DEF Draft
<1>6. HasRegions(arts) /\ On(findings, "yara", i) # {}
  BY <1>3, <1>5 DEF YaraRole, Correlated
<1> QED BY <1>3, <1>5, <1>6 DEF MatchedRules, On

\* Unless rules are cut, the chain names all of them.
LEMMA RulesListed ==
  ASSUME NEW arts \in Tables, Cardinality(MatchedRules(arts)) <= Limit.samples
  PROVE  MatchedRules(arts) \subseteq ChainRules(arts)
<1> DEFINE M == MatchedRules(arts)
<1>1. IsFiniteSet(DOMAIN arts["yara"])
  BY RowsFinite DEF Table
<1>2. IsFiniteSet(M)
  <2> DEFINE h == [i \in DOMAIN arts["yara"] |-> arts["yara"][i].rule]
  <2>1. h = [i \in DOMAIN arts["yara"] |-> h[i]]
    OBVIOUS
  <2>2. M = {h[i] : i \in DOMAIN arts["yara"]}
    BY DEF MatchedRules
  <2> HIDE DEF h, M
  <2> QED BY <1>1, <2>1, <2>2, ImageFinite
<1>3. \A s \in M : NameRank[s] \in Nat
  <2> SUFFICES ASSUME NEW i \in DOMAIN arts["yara"] PROVE arts["yara"][i].rule \in YaraRule
    BY ReportAssumption DEF MatchedRules
  <2>1. arts["yara"][i] \in Row /\ arts["yara"][i].table = "yara"
    BY DEF Tables, Table
  <2> QED BY <2>1, RowAssumption
<1> SUFFICES ASSUME NEW r \in M PROVE r \in ChainRules(arts)
  OBVIOUS
<1> DEFINE before == {s \in M : NameRank[s] < NameRank[r]}
<1>4. Cardinality(before) < Cardinality(M)
      /\ Cardinality(before) \in Nat /\ Cardinality(M) \in Nat
  <2>1. before \in SUBSET M /\ r \notin before
    BY <1>3
  <2> HIDE DEF before, M
  <2> QED BY <1>2, <2>1, Fewer
<1>5. Limit.samples \in Nat
  BY ReportAssumption
<1>6. Cardinality(before) < Limit.samples
  <2> DEFINE a == Cardinality(before)
             b == Cardinality(M)
  <2>1. a < b /\ a \in Nat /\ b \in Nat /\ b <= Limit.samples
    BY <1>4
  <2> HIDE DEF a, b
  <2>2. a < Limit.samples
    BY <1>5, <2>1
  <2> QED BY <2>2 DEF a
<1> QED BY <1>6 DEF ChainRules

-----------------------------------------------------------------------------
(* The chain of this process. *)

\* A fold over finitely many scores is their sum.
LEMMA ScoresAdd ==
  ASSUME NEW rows, IsFiniteSet(rows), \A f \in rows : f.score \in Nat
  PROVE  MapThenSumSet(LAMBDA f : f.score, rows) \in Nat
<1> DEFINE score == [f \in rows |-> f.score]
           Rest(s, rest) == IF s = {} THEN 0
                            ELSE (CHOOSE x \in s : TRUE).score + rest[s \ {CHOOSE x \in s : TRUE}]
           iter == CHOOSE h : h = [s \in SUBSET rows |-> Rest(s, h)]
<1>1. MapThenSumSet(LAMBDA f : f.score, rows) = iter[rows]
  BY DEF MapThenSumSet, MapThenFoldSet
<1>2. \A s \in SUBSET rows : \A h : Rest(s, h) = Folded(score, s, h)
  BY DEF Folded, Taken
<1>3. PICK F : IsSum(F, score, rows)
  BY SumExists
<1>4. F = [s \in SUBSET rows |-> Rest(s, F)]
  <2> HIDE DEF Rest, score
  <2> QED BY <1>2, <1>3 DEF IsSum
<1>5. iter = [s \in SUBSET rows |-> Rest(s, iter)]
  <2> HIDE DEF Rest
  <2> QED BY <1>4
<1>6. IsSum(iter, score, rows)
  <2> HIDE DEF Rest, iter, score
  <2> QED BY <1>2, <1>5 DEF IsSum
<1>7. \A f \in rows : score[f] \in Nat
  OBVIOUS
<1>8. iter[rows] \in Nat
  <2> HIDE DEF iter, score
  <2> QED BY <1>6, <1>7, SumType
<1> HIDE DEF iter
<1> QED BY <1>1, <1>8

\* The worst of the findings of a process, by severity, score and place.
LEMMA WorstExists ==
  ASSUME NEW S, S # {}, NEW top \in Nat,
         \A f \in S : /\ f.severity \in Levels /\ f.score \in 0..top
                      /\ f.place \in Place
  PROVE  \E f \in S : \A g \in S : ~Outranks(g, f)
<1> DEFINE Ranks == {4 - Rank[f.severity] : f \in S}
<1>1. \A severity \in Levels : Rank[severity] \in 1..4
  BY DEF Rank, Levels
<1>2. PICK a \in Ranks : \A b \in Ranks : a <= b
  <2>1. Ranks # {} /\ Ranks \in SUBSET Nat
    BY <1>1
  <2> HIDE DEF Ranks
  <2> QED BY <2>1, LeastNumber
<1> DEFINE Worst == {f \in S : 4 - Rank[f.severity] = a}
           Scores == {top - f.score : f \in Worst}
<1>3. PICK c \in Scores : \A d \in Scores : c <= d
  <2>1. Scores # {} /\ Scores \in SUBSET Nat
    BY <1>2
  <2> HIDE DEF Scores
  <2> QED BY <2>1, LeastNumber
<1> DEFINE Best == {f \in Worst : top - f.score = c}
<1>4. PICK f \in Best : \A g \in Best : ~Before(g, f)
  <2>1. Best # {} /\ \A f \in Best : f.place \in Place
    BY <1>3
  <2> HIDE DEF Best
  <2> QED BY <2>1, LeastPlace
<1>5. f \in S /\ 4 - Rank[f.severity] = a /\ top - f.score = c
  OBVIOUS
<1>6. ASSUME NEW g \in S, Outranks(g, f) PROVE FALSE
  <2>1. Rank[g.severity] \in 1..4 /\ Rank[f.severity] \in 1..4
    BY <1>1, <1>5
  <2>2. 4 - Rank[g.severity] >= a
    BY <1>2
  <2>3. ~(Rank[g.severity] > Rank[f.severity])
    <3> DEFINE x == Rank[g.severity]
               y == Rank[f.severity]
    <3>1. x \in 1..4 /\ y \in 1..4 /\ 4 - x >= a /\ 4 - y = a
      BY <1>5, <2>1, <2>2
    <3> HIDE DEF x, y
    <3>2. ~(x > y)
      BY <3>1
    <3> QED BY <3>2 DEF x, y
  <2>4. g.severity = f.severity /\ (g.score > f.score \/ (g.score = f.score /\ Before(g, f)))
    BY <1>6, <2>3 DEF Outranks
  <2>5. g \in Worst
    BY <1>5, <2>4
  <2>6. top - g.score >= c
    BY <1>3, <2>5
  <2>7. g.score \in 0..top /\ f.score \in 0..top
    BY <1>5
  <2>8. ~(g.score > f.score)
    BY <1>5, <2>6, <2>7
  <2>9. g \in Best /\ Before(g, f)
    BY <1>5, <2>4, <2>5, <2>8
  <2> QED BY <1>4, <2>9
<1> QED BY <1>5, <1>6

\* Alone in the list of processes, a group is displayed.
LEMMA OnlyGroup ==
  ASSUME NEW g, g.severity \in Levels, g.score \in Nat, g.place \in Place
  PROVE  FirstFindings({g}, Limit.processes) = {g}
<1>1. ~Outranks(g, g)
  <2>1. ~Before(g, g)
    BY DEF Before, Place
  <2>2. Rank[g.severity] \in Nat
    BY DEF Rank, Levels
  <2> QED BY <2>1, <2>2 DEF Outranks
<1>2. {h \in {g} : Outranks(h, g)} = {}
  BY <1>1
<1>3. Cardinality({h \in {g} : Outranks(h, g)}) = 0
  BY <1>2, FS_EmptySet
<1>4. 0 < Limit.processes
  BY ReportAssumption
<1> QED BY <1>3, <1>4 DEF FirstFindings

\* The score of a summary is a number.
LEMMA SummaryScore ==
  ASSUME NEW arts \in Tables, ProcessSummary(arts).severity # "none"
  PROVE  ProcessSummary(arts).score \in Nat
<1> DEFINE C == Selected(Unique(Findings(arts)))
<1>1. ProcessSummary(arts) = Rated(C)
  BY DEF ProcessSummary, NoSummary
<1>2. C \subseteq Findings(arts)
  BY DEF Selected, Unique
<1> HIDE DEF C
<1>3. Components(C)
  BY <1>2, FindingRange DEF Ranged, Components
<1>4. \A f \in C : \E v \in C : Dominates(v, f)
  BY <1>3 DEF Components, Dominates
<1>5. Rated(C).score \in Nat
  BY <1>3, <1>4, ScoreGrows
<1> QED BY <1>1, <1>5

\* Where no other process has a summary, there is a chain as soon as there is a finding.
LEMMA OwnChain ==
  ASSUME TypeOK, SummaryMade, summary # Pending, Reported(artifacts) # {}
  PROVE  \E g \in FirstFindings(ProcessGroups(RiskFindings(artifacts, Reported(artifacts), summary, {})),
                                Limit.processes) : g.process = "this"
<1>1. PICK arts : arts = artifacts
  OBVIOUS
<1>2. arts \in Tables
  BY <1>1 DEF TypeOK, Tables
<1> DEFINE findings == Reported(artifacts)
           rows == RiskFindings(artifacts, findings, summary, {})
<1>3. findings \subseteq Findings(artifacts)
  BY DEF Reported, Told
<1>4. /\ \A f \in OfProcess(findings) :
            /\ f.process = "this" /\ f.rule \in 1..14
            /\ \E c \in findings : /\ f.groups = {Category(c.place[1])} /\ f.place = c.place
                                   /\ f.score = c.score /\ f.severity = Level(c.score)
      /\ \A f \in rows : f.process = "this" => f \in OfProcess(findings) \cup OfSummary(summary)
      /\ \A f \in OfJob(artifacts) : f.rule # 0 /\ f.process = "none"
  <2> HIDE DEF findings
  <2>1. findings \in SUBSET Findings(arts)
    BY <1>1, <1>3
  <2>2. PICK none : none = {}
    OBVIOUS
  <2>3. \A f \in none : f.rule = 0 /\ f.process # "this"
    BY <2>2
  <2>4. /\ \A f \in OfProcess(findings) :
              /\ f.process = "this" /\ f.rule \in 1..14
              /\ \E c \in findings : /\ f.groups = {Category(c.place[1])} /\ f.place = c.place
                                     /\ f.score = c.score /\ f.severity = Level(c.score)
        /\ \A f \in RiskFindings(arts, findings, summary, none) :
              f.process = "this" => f \in OfProcess(findings) \cup OfSummary(summary)
        /\ \A f \in OfJob(arts) : f.rule # 0 /\ f.process = "none"
    BY <1>2, <2>1, <2>3, RowsOfThis
  <2> QED BY <1>1, <2>2, <2>4
<1>5. rows = OfProcess(findings) \cup OfJob(artifacts) \cup OfSummary(summary)
  BY DEF RiskFindings
<1>6. CASE summary.severity # "none"
  <2> DEFINE s == FindingRow(0, "this", summary.severity, summary.score, summary.groups, <<18, 0, 0>>)
  <2>1. OfSummary(summary) = {s}
    BY <1>6 DEF OfSummary
  <2>2. s.rule = 0 /\ s.process = "this" /\ s.severity = summary.severity
        /\ s.score = summary.score /\ s.place = <<18, 0, 0>>
    BY DEF FindingRow
  <2> HIDE DEF s, findings
  <2>3. Summaries(rows) = {s}
    BY <1>4, <1>5, <2>1, <2>2 DEF Summaries
  <2>4. ProcessGroups(rows) = {s}
    BY <2>3 DEF ProcessGroups
  <2>5. summary = ProcessSummary(artifacts)
    BY DEF SummaryMade
  <2>6. summary.severity \in Levels
    BY <1>6, <2>5, SummaryOK DEF Levels
  <2>7. summary.score \in Nat
    BY <1>1, <1>2, <1>6, <2>5, SummaryScore
  <2>8. FirstFindings({s}, Limit.processes) = {s}
    BY <2>2, <2>6, <2>7, OnlyGroup DEF Place
  <2> QED BY <2>2, <2>4, <2>8 DEF findings
<1>7. CASE summary.severity = "none"
  <2> DEFINE own == {f \in rows : f.process = "this"}
             g == GroupOf("this", own)
  <2>1. OfSummary(summary) = {}
    BY <1>7 DEF OfSummary
  <2>2. own = OfProcess(findings)
    BY <1>4, <1>5, <2>1
  <2>3. OfProcess(findings) # {}
    BY DEF OfProcess
  <2>4. \A c \in Findings(artifacts) : c.place \in Place /\ c.score \in 0..13
    BY <1>1, <1>2, FindingPlaces, FindingRange DEF Ranged
  <2>5. \A f \in OfProcess(findings) :
          f.severity \in Levels /\ f.score \in 0..100 /\ f.score \in Nat /\ f.place \in Place
    <3>1. \A score \in 0..13 : Level(score) \in Levels /\ score \in 0..100 /\ score \in Nat
      BY DEF Level, Levels
    <3> HIDE DEF findings
    <3> QED BY <1>3, <1>4, <2>4, <3>1
  <2>6. IsFiniteSet(own)
    <3> DEFINE h == [c \in findings |->
                      FindingRow(c.place[1], "this", SeverityOf(c), c.score, {Category(c.place[1])}, c.place)]
    <3>1. h = [c \in findings |-> h[c]] /\ OfProcess(findings) = {h[c] : c \in findings}
      BY DEF OfProcess
    <3>2. IsFiniteSet(findings)
      BY <1>1, <1>2, <1>3, FindingsFinite, FS_Subset
    <3> HIDE DEF h, findings
    <3> QED BY <2>2, <3>1, <3>2, ImageFinite
  <2> DEFINE worst == CHOOSE f \in own : \A e \in own : ~Outranks(e, f)
  <2>7. worst \in own
    <3>1. own # {} /\ \A f \in own : f.severity \in Levels /\ f.score \in 0..100 /\ f.place \in Place
      BY <2>2, <2>3, <2>5
    <3> HIDE DEF own
    <3>2. \E f \in own : \A e \in own : ~Outranks(e, f)
      BY <3>1, WorstExists
    <3> QED BY <3>2
  <2>8. MapThenSumSet(LAMBDA f : f.score, own) \in Nat
    <3>1. \A f \in own : f.score \in Nat
      BY <2>2, <2>5
    <3> HIDE DEF own
    <3> QED BY <2>6, <3>1, ScoresAdd
  <2>9. g.process = "this" /\ g.severity = worst.severity /\ g.place = worst.place
        /\ g.score = MapThenSumSet(LAMBDA f : f.score, own)
    <3> HIDE DEF own
    <3> QED BY DEF GroupOf, FindingRow
  <2>10. g.severity \in Levels /\ g.score \in Nat /\ g.place \in Place
    <3> HIDE DEF own, worst, g, findings
    <3> QED BY <2>2, <2>5, <2>7, <2>8, <2>9
  <2>11. {f.process : f \in rows} \ {"none"} = {"this"}
    <3> HIDE DEF findings
    <3> QED BY <1>4, <1>5, <2>1, <2>3
  <2>12. Summaries(rows) = {}
    <3> HIDE DEF findings
    <3> QED BY <1>4, <1>5, <2>1 DEF Summaries
  <2>13. ProcessGroups(rows) = {g}
    <3> HIDE DEF rows, GroupOf
    <3> QED BY <2>11, <2>12 DEF ProcessGroups
  <2>14. FirstFindings({g}, Limit.processes) = {g}
    <3> HIDE DEF g
    <3> QED BY <2>10, OnlyGroup
  <2> QED BY <2>9, <2>13, <2>14
<1> QED BY <1>6, <1>7

LEMMA TableFinite == IsFiniteSet(Table)
<1>1. Table = {"process"} \cup {"network"} \cup {"module"} \cup {"memory_region"}
                \cup {"command"} \cup {"yara"}
  BY DEF Table
<1> QED BY <1>1, FS_Singleton, FS_Union

\* What a chain of this process claims, it lists.
LEMMA ClaimsListed ==
  ASSUME TypeOK, NEW groups, \A group \in groups : Claimed(group),
         NEW chain, chain.groups = groups, chain.regions = ChainRegions(artifacts),
         chain.endpoints = ChainEndpoints(artifacts),
         chain.references = ChainReferences(Exported(artifacts)),
         chain.interpretation = Interpretation(groups)
  PROVE  EvidenceListed(chain)
<1>1. PICK arts : arts = artifacts
  OBVIOUS
<1>2. arts \in Tables
  BY <1>1 DEF TypeOK, Tables
<1>3. Limit.regions \in Nat
  BY ReportAssumption
<1>4. ASSUME "memory_region" \in groups
      PROVE  CutRegions \/ chain.regions \cap Rows(artifacts, "memory_region", Suspicious) # {}
  <2>1. PICK i \in DOMAIN arts["memory_region"] : i \in Rows(arts, "memory_region", Suspicious)
    BY <1>1, <1>4, ClaimsHaveRows DEF Has, Rows
  <2>2. i \in 1..Len(arts["memory_region"]) /\ Len(arts["memory_region"]) \in Nat
    BY <1>2, RowsFinite DEF Table
  <2>3. CASE Len(arts["memory_region"]) > Limit.regions
    BY <1>1, <2>3 DEF CutRegions
  <2>4. CASE ~(Len(arts["memory_region"]) > Limit.regions)
    <3>1. i <= Limit.regions
      BY <1>3, <2>2, <2>4
    <3>2. i \in ChainRegions(artifacts)
      BY <1>1, <2>1, <3>1 DEF ChainRegions
    <3> QED BY <1>1, <2>1, <3>2
  <2> QED BY <2>3, <2>4
<1>5. ASSUME groups \cap {"network_endpoint", "network"} # {}
      PROVE  /\ \/ CutEndpoints
                \/ \E i \in Rows(artifacts, "network", Public) :
                     artifacts["network"][i].endpoint \in chain.endpoints
             /\ References(chain, "ip_address")
             /\ PublicPort => References(chain, "network_endpoint")
  <2>1. Has(arts, "network", Public)
    BY <1>1, <1>5, ClaimsHaveRows
  <2>2. PICK i \in DOMAIN arts["network"] : i \in Rows(arts, "network", Public)
    BY <2>1 DEF Has, Rows
  <2> DEFINE n == Cardinality(NewEndpoints(arts["network"]))
  <2>3. n \in Nat /\ Limit.samples \in Nat
    <3>1. NewEndpoints(arts["network"]) \in SUBSET (DOMAIN arts["network"])
      BY DEF NewEndpoints
    <3>2. IsFiniteSet(DOMAIN arts["network"])
      BY <1>2, RowsFinite DEF Table
    <3> QED BY <3>1, <3>2, FS_Subset, FS_CardinalityType, ReportAssumption
  <2>4. n > Limit.samples \/ n <= Limit.samples
    <3> HIDE DEF n
    <3> QED BY <2>3
  <2>5. n <= Limit.samples => arts["network"][i].endpoint \in ChainEndpoints(arts)
    BY <1>2, EndpointListed
  <2>6. References(chain, "ip_address")
    <3>1. \E line \in ChainReferences(Exported(arts)) : line.type = "ip_address"
      BY <1>2, <2>2, EndReferred
    <3> QED BY <1>1, <3>1 DEF References
  <2>7. PublicPort => References(chain, "network_endpoint")
    <3> SUFFICES ASSUME PublicPort PROVE References(chain, "network_endpoint")
      OBVIOUS
    <3>1. PICK k \in Rows(arts, "network", Public) : HasPort(arts["network"][k])
      BY <1>1 DEF PublicPort
    <3>2. \E line \in ChainReferences(Exported(arts)) : line.type = "network_endpoint"
      BY <1>2, <3>1, EndReferred
    <3> QED BY <1>1, <3>2 DEF References
  <2>8. CutEndpoints <=> n > Limit.samples
    BY <1>1 DEF CutEndpoints
  <2> QED BY <1>1, <2>2, <2>4, <2>5, <2>6, <2>7, <2>8
<1>6. ASSUME chain.interpretation = "independent signals"
      PROVE  Cardinality(EvidenceTables(artifacts)) >= 2
  <2>1. "memory_region" \in groups
        /\ groups \cap {"yara_match", "network_endpoint", "suspicious_command"} # {}
    BY <1>6 DEF Interpretation
  <2>2. "memory_region" \in EvidenceTables(artifacts)
    BY <2>1, ClaimsHaveRows, RowsAreEvidence
  <2>3. \E t \in {"yara", "network", "command"} : t \in EvidenceTables(artifacts)
    BY <2>1, ClaimsHaveRows, RowsAreEvidence
  <2>4. PICK t \in EvidenceTables(artifacts) : t # "memory_region"
    BY <2>3
  <2> DEFINE T == EvidenceTables(artifacts)
  <2>5. IsFiniteSet(T)
    <3>1. T \subseteq Table
      BY DEF EvidenceTables
    <3>2. IsFiniteSet(Table)
      BY TableFinite
    <3> HIDE DEF T
    <3> QED BY <3>1, <3>2, FS_Subset
  <2> HIDE DEF T
  <2>6. "memory_region" \in T /\ t \in T /\ t \notin {"memory_region"}
    BY <2>2, <2>4 DEF T
  <2>7. {"memory_region"} \in SUBSET T
    BY <2>6
  <2>8. Cardinality({"memory_region"}) < Cardinality(T) /\ Cardinality(T) \in Nat
    BY <2>5, <2>6, <2>7, Fewer
  <2>9. Cardinality({"memory_region"}) = 1
    BY FS_Singleton
  <2> QED BY <2>8, <2>9 DEF T
<1> QED BY <1>4, <1>5, <1>6 DEF EvidenceListed

\* A YARA rule that the export calls a threat is in a chain with regions.
LEMMA ThreatsAreListed ==
  ASSUME TypeOK, SummaryMade, summary # Pending
  PROVE  ThreatsListed(Chains(ProcessGroups(RiskFindings(artifacts, Reported(artifacts), summary, {})),
                              artifacts, ChainReferences(Exported(artifacts))),
                       ThreatRules(Exported(artifacts)))
<1>1. PICK arts : arts = artifacts
  OBVIOUS
<1>2. arts \in Tables
  BY <1>1 DEF TypeOK, Tables
<1> DEFINE threats == ThreatRules(Exported(artifacts))
           groups == ProcessGroups(RiskFindings(artifacts, Reported(artifacts), summary, {}))
           references == ChainReferences(Exported(artifacts))
           Chain(g) ==
             [groups |-> g.groups, regions |-> ChainRegions(artifacts), rules |-> ChainRules(artifacts),
              endpoints |-> ChainEndpoints(artifacts), references |-> references,
              interpretation |-> Interpretation(g.groups)]
           own == {g \in FirstFindings(groups, Limit.processes) : g.process = "this"}
<1>3. Chains(groups, artifacts, references) = {Chain(g) : g \in own}
  <2> HIDE DEF groups, references
  <2> QED BY DEF Chains
<1>4. SUFFICES ASSUME NEW rule \in threats
      PROVE \E chain \in Chains(groups, artifacts, references) :
              chain.regions # {} /\ (CutRules \/ threats \subseteq chain.rules)
  BY DEF ThreatsListed
<1>5. \A r \in threats : r \in MatchedRules(arts) /\ HasRegions(arts) /\ Reported(arts) # {}
  BY <1>1, ThreatOrigin
<1>6. own # {}
  <2>1. Reported(artifacts) # {}
    BY <1>1, <1>4, <1>5
  <2> QED BY <2>1, OwnChain
<1>7. PICK g : g \in own
  BY <1>6
<1>8. ChainRegions(artifacts) # {}
  <2>1. arts["memory_region"] # <<>> /\ arts["memory_region"] \in Seq(Row)
    BY <1>2, <1>4, <1>5 DEF HasRegions, Tables, Table
  <2>2. 1 \in DOMAIN arts["memory_region"]
    BY <2>1
  <2>3. 1 <= Limit.regions
    BY ReportAssumption
  <2> QED BY <1>1, <2>2, <2>3 DEF ChainRegions
<1>9. CutRules \/ threats \subseteq ChainRules(artifacts)
  <2> DEFINE n == Cardinality(MatchedRules(arts))
  <2>1. n \in Nat /\ Limit.samples \in Nat
    <3> DEFINE h == [i \in DOMAIN arts["yara"] |-> arts["yara"][i].rule]
    <3>1. h = [i \in DOMAIN arts["yara"] |-> h[i]]
      OBVIOUS
    <3>2. MatchedRules(arts) = {h[i] : i \in DOMAIN arts["yara"]}
      BY DEF MatchedRules
    <3>3. IsFiniteSet(DOMAIN arts["yara"])
      BY <1>2, RowsFinite DEF Table
    <3>4. IsFiniteSet(MatchedRules(arts))
      <4> HIDE DEF h
      <4> QED BY <3>1, <3>2, <3>3, ImageFinite
    <3> QED BY <3>4, FS_CardinalityType, ReportAssumption
  <2>2. n > Limit.samples \/ n <= Limit.samples
    <3> HIDE DEF n
    <3> QED BY <2>1
  <2>3. n <= Limit.samples => MatchedRules(arts) \subseteq ChainRules(arts)
    BY <1>2, RulesListed
  <2>4. CutRules <=> n > Limit.samples
    BY <1>1 DEF CutRules
  <2> HIDE DEF threats
  <2> QED BY <1>1, <1>5, <2>2, <2>3, <2>4
<1>10. Chain(g) \in Chains(groups, artifacts, references)
  <2> HIDE DEF Chain, own, groups, references
  <2> QED BY <1>3, <1>7
<1>11. Chain(g).regions # {} /\ (CutRules \/ threats \subseteq Chain(g).rules)
  <2> HIDE DEF threats
  <2> QED BY <1>8, <1>9
<1> HIDE DEF Chain, groups, references, threats
<1> QED BY <1>10, <1>11

\* A chain has a region and an endpoint of the rows that its claims rest on, and the
\* indicator of an endpoint, unless its lists are cut, and calls signals independent over
\* two tables only; what the export calls a threat is named in a chain with regions.
THEOREM ChainsRestOnRows == Spec => []ChainsShowEvidence
<1>1. TypeOK /\ SummaryMade => ChainsShowEvidence
  <2> SUFFICES ASSUME TypeOK, SummaryMade, summary # Pending, NEW others \in {{}, Others}
               PROVE  ChainsTell(Reported(artifacts), ExportOf(artifacts, Reported(artifacts)),
                                 ChainReferences(ExportOf(artifacts, Reported(artifacts))), others)
    BY DEF ChainsShowEvidence
  <2>1. ExportOf(artifacts, Reported(artifacts)) = Exported(artifacts)
    BY DEF Exported
  <2> DEFINE references == ChainReferences(Exported(artifacts))
             groups == ProcessGroups(RiskFindings(artifacts, Reported(artifacts), summary, others))
             chains == Chains(groups, artifacts, references)
  <2>2. ASSUME NEW chain \in chains PROVE EvidenceListed(chain)
    <3>1. PICK g \in groups :
            /\ g.process = "this"
            /\ chain.groups = g.groups /\ chain.regions = ChainRegions(artifacts)
            /\ chain.endpoints = ChainEndpoints(artifacts) /\ chain.references = references
            /\ chain.interpretation = Interpretation(g.groups)
      <4> DEFINE Chain(g) ==
                   [groups |-> g.groups, regions |-> ChainRegions(artifacts),
                    rules |-> ChainRules(artifacts), endpoints |-> ChainEndpoints(artifacts),
                    references |-> references, interpretation |-> Interpretation(g.groups)]
                 own == {g \in FirstFindings(groups, Limit.processes) : g.process = "this"}
      <4> HIDE DEF groups, references
      <4>1. chains = {Chain(g) : g \in own}
        BY DEF Chains
      <4>2. own \subseteq groups /\ \A g \in own : g.process = "this"
        BY DEF FirstFindings
      <4> HIDE DEF chains, own
      <4>3. PICK g \in own : chain = Chain(g)
        BY <4>1
      <4>4. Chain(g).groups = g.groups /\ Chain(g).regions = ChainRegions(artifacts)
            /\ Chain(g).endpoints = ChainEndpoints(artifacts) /\ Chain(g).references = references
            /\ Chain(g).interpretation = Interpretation(g.groups)
        OBVIOUS
      <4> HIDE DEF Chain
      <4> QED BY <4>2, <4>3, <4>4
    <3>2. \A group \in g.groups : Claimed(group)
      <4>1. \A f \in others : f.rule = 0 /\ f.process # "this"
        BY ReportAssumption
      <4>2. Reported(artifacts) \in SUBSET Findings(artifacts)
        BY DEF Reported, Told
      <4> QED BY <3>1, <4>1, <4>2, GroupsAreClaimed
    <3> HIDE DEF groups
    <3> QED BY <3>1, <3>2, ClaimsListed
  <2>3. others = {} => ThreatsListed(chains, ThreatRules(Exported(artifacts)))
    BY ThreatsAreListed
  <2> HIDE DEF chains
  <2>4. ChainsTell(Reported(artifacts), Exported(artifacts), references, others)
    BY <2>2, <2>3 DEF ChainsTell, chains
  <2> QED BY <2>1, <2>4
<1> QED BY <1>1, RiskTypeCorrect, SummaryOfTables, PTL DEF Spec

-----------------------------------------------------------------------------
(* The sections account for what they are about. *)

\* The size of two disjoint sets together.
LEMMA DisjointUnion ==
  ASSUME NEW S, NEW T, IsFiniteSet(S), IsFiniteSet(T), S \cap T = {}
  PROVE  IsFiniteSet(S \cup T) /\ Cardinality(S \cup T) = Cardinality(S) + Cardinality(T)
<1>1. Cardinality(S \cap T) = 0
  BY FS_EmptySet
<1>2. Cardinality(S) \in Nat /\ Cardinality(T) \in Nat
  BY FS_CardinalityType
<1> DEFINE a == Cardinality(S)
           b == Cardinality(T)
           c == Cardinality(S \cap T)
           n == Cardinality(S \cup T)
<1>3. IsFiniteSet(S \cup T) /\ n = a + b - c
  BY FS_Union
<1>4. a \in Nat /\ b \in Nat /\ c = 0
  BY <1>1, <1>2
<1> HIDE DEF a, b, c, n
<1>5. n = a + b
  BY <1>3, <1>4
<1> QED BY <1>3, <1>5 DEF a, b, n

\* The counts of lines that partition a set.
LEMMA CountsAdd ==
  ASSUME NEW S, IsFiniteSet(S), NEW lines, IsFiniteSet(lines), NEW part,
         \A l \in lines : part[l] \subseteq S /\ l.count = Cardinality(part[l]),
         \A l, m \in lines : l # m => part[l] \cap part[m] = {},
         \A x \in S : \E l \in lines : x \in part[l]
  PROVE  Counted(lines) = Cardinality(S)
<1> DEFINE count == [l \in lines |-> l.count]
           Rest(s, rest) == IF s = {} THEN 0
                            ELSE (CHOOSE x \in s : TRUE).count + rest[s \ {CHOOSE x \in s : TRUE}]
           iter == CHOOSE h : h = [s \in SUBSET lines |-> Rest(s, h)]
           Whole(s) == UNION {part[l] : l \in s}
<1>1. Counted(lines) = iter[lines]
  BY DEF Counted, MapThenSumSet, MapThenFoldSet
<1>2. \A s \in SUBSET lines : \A h : Rest(s, h) = Folded(count, s, h)
  BY DEF Folded, Taken
<1>3. PICK F : IsSum(F, count, lines)
  BY SumExists
<1>4. F = [s \in SUBSET lines |-> Rest(s, F)]
  <2> HIDE DEF Rest, count
  <2> QED BY <1>2, <1>3 DEF IsSum
<1>5. iter = [s \in SUBSET lines |-> Rest(s, iter)]
  <2> HIDE DEF Rest
  <2> QED BY <1>4
<1>6. IsSum(iter, count, lines)
  <2> HIDE DEF Rest, iter, count
  <2> QED BY <1>2, <1>5 DEF IsSum
<1> HIDE DEF iter
<1>7. \A l \in lines : IsFiniteSet(part[l]) /\ count[l] = Cardinality(part[l]) /\ count[l] \in Nat
  BY FS_Subset, FS_CardinalityType
<1> HIDE DEF count
<1>8. \A s \in SUBSET lines : Whole(s) \subseteq S /\ IsFiniteSet(Whole(s))
  BY FS_Subset
<1> DEFINE Bad == {s \in SUBSET lines : iter[s] # Cardinality(Whole(s))}
<1>9. Bad = {}
  <2>1. SUFFICES ASSUME Bad # {} PROVE FALSE
    OBVIOUS
  <2>2. PICK s \in Bad : \A r \in Bad : Cardinality(s) <= Cardinality(r)
    <3>1. Bad \in SUBSET (SUBSET lines)
      OBVIOUS
    <3> HIDE DEF Bad
    <3> QED BY <2>1, <3>1, SmallestSet
  <2>3. s \in SUBSET lines /\ iter[s] # Cardinality(Whole(s))
    OBVIOUS
  <2>4. iter[s] = Folded(count, s, iter)
    BY <1>6, <2>3 DEF IsSum
  <2>5. s # {}
    <3>1. Whole({}) = {}
      OBVIOUS
    <3>2. s = {} => iter[s] = 0
      BY <2>4 DEF Folded
    <3> HIDE DEF Whole
    <3> QED BY <2>3, <3>1, <3>2, FS_EmptySet
  <2> DEFINE x == Taken(s)
             r == s \ {Taken(s)}
  <2>6. x \in s /\ r \in SUBSET lines /\ Cardinality(r) = Cardinality(s) - 1 /\ Cardinality(s) \in Nat
    BY <2>3, <2>5, LessByOne
  <2>7. r \notin Bad
    <3>1. ~(Cardinality(s) <= Cardinality(r))
      BY <2>6
    <3> HIDE DEF r, Bad
    <3> QED BY <2>2, <3>1
  <2>8. iter[r] = Cardinality(Whole(r))
    BY <2>6, <2>7
  <2>9. iter[s] = count[x] + iter[r]
    BY <2>4, <2>5 DEF Folded
  <2>10. Whole(s) = part[x] \cup Whole(r) /\ part[x] \cap Whole(r) = {}
    <3>1. \A l \in r : l # x /\ l \in lines
      BY <2>3
    <3>2. s = {x} \cup r
      BY <2>6
    <3> HIDE DEF x, r
    <3> QED BY <2>3, <2>6, <3>1, <3>2
  <2>11. IsFiniteSet(part[x]) /\ IsFiniteSet(Whole(r)) /\ count[x] = Cardinality(part[x])
    <3> HIDE DEF x, r, Whole
    <3> QED BY <1>7, <1>8, <2>3, <2>6
  <2>12. Cardinality(Whole(s)) = Cardinality(part[x]) + Cardinality(Whole(r))
    <3> HIDE DEF x, r, Whole
    <3> QED BY <2>10, <2>11, DisjointUnion
  <2> HIDE DEF x, r, Whole
  <2> QED BY <2>3, <2>8, <2>9, <2>11, <2>12
<1>10. Whole(lines) = S
  OBVIOUS
<1>11. iter[lines] = Cardinality(Whole(lines))
  <2>1. lines \in SUBSET lines
    OBVIOUS
  <2> HIDE DEF Whole
  <2> QED BY <1>9, <2>1
<1> QED BY <1>1, <1>10, <1>11

-----------------------------------------------------------------------------
(* Connections and the indicators that link them. *)

\* Connections with a finding are the public ones.
LEMMA ConnectionsFound ==
  ASSUME NEW arts \in Tables, NEW i \in DOMAIN arts["network"]
  PROVE  On(Reported(arts), "network", i) # {} <=> arts["network"][i] \in Public
<1>1. ByRow(arts, 10, "network", Public, "endpoint")
  BY RowRules
<1>2. ASSUME NEW f \in On(Reported(arts), "network", i) PROVE arts["network"][i] \in Public
  <2>1. f \in Findings(arts) /\ TableOf(f) = "network" /\ f.place[2] = i
    BY DEF On, Reported, Told
  <2>2. f.place[1] = 10
    BY <2>1 DEF TableOf
  <2>3. PICK k \in Rows(arts, "network", Public) : f.place = <<10, k, 0>>
    BY <1>1, <2>1, <2>2 DEF ByRow
  <2>4. k = i
    BY <2>1, <2>3
  <2> QED BY <2>3, <2>4 DEF Rows
<1>3. ASSUME arts["network"][i] \in Public PROVE On(Reported(arts), "network", i) # {}
  <2>1. i \in Rows(arts, "network", Public)
    BY <1>3 DEF Rows
  <2>2. PICK f \in Findings(arts) : f.place = <<10, i, 0>>
    BY <1>1, <2>1 DEF ByRow
  <2>3. f.place[1] = 10 /\ f.place[2] = i
    BY <2>2
  <2>4. f \in Reported(arts)
    BY <2>3 DEF Reported, Told
  <2>5. TableOf(f) = "network"
    BY <2>3 DEF TableOf
  <2> QED BY <2>3, <2>4, <2>5 DEF On
<1> QED BY <1>2, <1>3

\* Where the values of indicators come from.
FromConnection(arts, d) ==
  \E i \in Rows(arts, "network", Public) : d.value \in RemoteEnd(arts["network"][i])

\* The value of a draft is an end of a public connection, or one of another kind.
LEMMA ValueOrigin ==
  ASSUME NEW arts \in Tables, NEW d \in DraftsOf(arts, Reported(arts))
  PROVE  \/ FromConnection(arts, d)
         \/ d.value \in OtherValues /\ d.type \notin {"ip_address", "network_endpoint"}
<1> DEFINE findings == Reported(arts)
           Other == d.value \in OtherValues /\ d.type \notin {"ip_address", "network_endpoint"}
<1>1. CASE d \in NetworkIocs(arts, findings)
  <2>1. PICK i \in DOMAIN arts["network"] :
          /\ arts["network"][i] \in Public \/ On(findings, "network", i) # {}
          /\ d.value \in RemoteEnd(arts["network"][i])
    <3> HIDE DEF findings
    <3>1. PICK i \in DOMAIN arts["network"] :
            /\ arts["network"][i] \in Public \/ On(findings, "network", i) # {}
            /\ \E c : d \in NetworkDrafts(i, arts["network"][i], c)
      <4> DEFINE Of(i, c) == NetworkDrafts(i, arts["network"][i], c)
                 High(i) == Surety(findings, "network", i, "medium")
                 Low(i) == Lower(Surety(findings, "network", i, "low"), 40)
      <4>1. PICK i \in DOMAIN arts["network"] :
              \/ arts["network"][i] \in Public /\ d \in Of(i, High(i))
              \/ /\ arts["network"][i] \notin Public /\ On(findings, "network", i) # {}
                 /\ d \in Of(i, Low(i))
        BY <1>1, NetworkForm
      <4>2. \E c : d \in Of(i, c)
        <5> HIDE DEF Of, High, Low
        <5> QED BY <4>1
      <4> QED BY <4>1, <4>2
    <3>2. d.value \in RemoteEnd(arts["network"][i])
      BY <3>1, ConnectionDrafts DEF Draft, RemoteEnd
    <3> QED BY <3>1, <3>2
  <2>2. arts["network"][i] \in Public
    BY <2>1, ConnectionsFound
  <2>3. i \in Rows(arts, "network", Public)
    BY <2>2 DEF Rows
  <2> QED BY <2>1, <2>3 DEF FromConnection
<1>2. CASE d \in CommandIocs(arts, findings)
  <2>1. PICK i \in DOMAIN arts["command"] :
          \E c : d = Draft(i, "command_line", arts["command"][i].text, "command", c, "threat_ioc")
    BY <1>2 DEF CommandIocs
  <2>2. d.value = arts["command"][i].text /\ d.type = "command_line"
    BY <2>1 DEF Draft
  <2>3. arts["command"][i] \in RowsOf("command")
    BY RowsTyped DEF Table
  <2> QED BY <2>2, <2>3 DEF OtherValues
<1>3. CASE d \in ModuleIocs(arts, findings)
  <2>1. PICK i \in DOMAIN arts["module"] :
          \E c, role : d = Draft(i, "module_path", arts["module"][i].path, "module", c, role)
    BY <1>3 DEF ModuleIocs
  <2>2. d.value = arts["module"][i].path /\ d.type = "module_path"
    BY <2>1 DEF Draft
  <2>3. arts["module"][i] \in RowsOf("module")
    BY RowsTyped DEF Table
  <2> QED BY <2>2, <2>3 DEF OtherValues
<1>4. CASE d \in ProcessIocs(arts, findings)
  <2>1. PICK i \in DOMAIN arts["process"] :
          \E sure, type, value :
            /\ d = Draft(i, type, value, arts["process"][i].plugin, sure, "investigation_artifact")
            /\ <<type, value>> \in {<<"process_name", "name">>, <<"pid", "pid">>,
                                    <<"file_path", arts["process"][i].path>>}
    <3> DEFINE As(i, type, value, sure) ==
                 Draft(i, type, value, arts["process"][i].plugin, sure, "investigation_artifact")
               Sure(i) == ConfidenceFor[WorstSeverity(On(findings, "process", i), "medium")]
               Of(i) == {As(i, "process_name", "name", Sure(i))}
                          \cup (IF On(findings, "process", i) = {} THEN {}
                                ELSE {As(i, "pid", "pid", Min({Sure(i), 70}))})
                          \cup (IF arts["process"][i].path = "none" THEN {}
                                ELSE {As(i, "file_path", arts["process"][i].path, Sure(i))})
    <3>1. PICK i \in DOMAIN arts["process"] : d \in Of(i)
      BY <1>4 DEF ProcessIocs
    <3>2. \E sure : \/ d = As(i, "process_name", "name", sure) \/ d = As(i, "pid", "pid", sure)
                    \/ d = As(i, "file_path", arts["process"][i].path, sure)
      <4> HIDE DEF As, Sure
      <4> QED BY <3>1
    <3> QED BY <3>2
  <2>2. d.value \in {"name", "pid", arts["process"][i].path}
        /\ d.type \in {"process_name", "pid", "file_path"}
    BY <2>1 DEF Draft
  <2>3. arts["process"][i] \in RowsOf("process")
    BY RowsTyped DEF Table
  <2> QED BY <2>2, <2>3 DEF OtherValues
<1>5. CASE d \in YaraIocs(arts, findings)
  <2>1. PICK i \in DOMAIN arts["yara"] :
          \E sure, role : d = Draft(i, "yara_rule", arts["yara"][i].rule, arts["yara"][i].plugin, sure, role)
    BY <1>5 DEF YaraIocs
  <2>2. d.value = arts["yara"][i].rule /\ d.type = "yara_rule"
    BY <2>1 DEF Draft
  <2>3. arts["yara"][i].rule \in YaraRule
    BY RowsTyped, RowAssumption DEF Table
  <2> QED BY <2>2, <2>3 DEF OtherValues
<1>6. CASE d \in RegionIocs(arts, findings)
  <2>1. PICK i \in DOMAIN arts["memory_region"] :
          \E sure : d = Draft(i, "memory_region", arts["memory_region"][i].range,
                              arts["memory_region"][i].plugin, sure, "investigation_artifact")
    BY <1>6 DEF RegionIocs
  <2>2. d.value = arts["memory_region"][i].range /\ d.type = "memory_region"
    BY <2>1 DEF Draft
  <2>3. arts["memory_region"][i] \in RowsOf("memory_region")
    BY RowsTyped DEF Table
  <2> QED BY <2>2, <2>3 DEF OtherValues
<1>7. CASE d \in PluginReferences(arts, findings)
  <2> DEFINE Plugins == {RowPlugin(r.table, r) : r \in Row} \cup {r.plugin : r \in RowsOf("yara")}
  <2>1. \A t \in Table : \A i \in DOMAIN arts[t] : RowPlugin(t, arts[t][i]) \in Plugins
    <3> SUFFICES ASSUME NEW t \in Table, NEW i \in DOMAIN arts[t]
                 PROVE  RowPlugin(t, arts[t][i]) \in Plugins
      OBVIOUS
    <3>1. arts[t][i] \in Row /\ arts[t][i].table = t
      BY RowsTyped
    <3> HIDE DEF RowPlugin
    <3> QED BY <3>1
  <2>2. \A f \in findings : PluginOf(arts, f) \in Plugins
    <3> SUFFICES ASSUME NEW f \in findings PROVE PluginOf(arts, f) \in Plugins
      OBVIOUS
    <3>1. TableOf(f) \in Table /\ f.place[2] \in DOMAIN arts[TableOf(f)]
      BY FindingIndex DEF Reported, Told
    <3> HIDE DEF Plugins, RowPlugin, TableOf
    <3> QED BY <2>1, <3>1 DEF PluginOf
  <2>3. \A i \in JobSummaries(arts) : arts["yara"][i].plugin \in Plugins
    <3> SUFFICES ASSUME NEW i \in JobSummaries(arts) PROVE arts["yara"][i].plugin \in Plugins
      OBVIOUS
    <3>1. i \in DOMAIN arts["yara"]
      BY DEF JobSummaries
    <3>2. arts["yara"][i] \in RowsOf("yara")
      BY <3>1, RowsTyped DEF Table
    <3> QED BY <3>2
  <2>4. \A plugin \in ContextPlugins(arts) : plugin \in Plugins
    <3>1. "memory_region" \in Table /\ "module" \in Table
      BY DEF Table
    <3> HIDE DEF Plugins, RowPlugin
    <3> QED BY <2>1, <3>1 DEF ContextPlugins
  <2>5. PICK plugin \in Plugins : \E at, severity : d = Reference(at, plugin, severity)
    <3> HIDE DEF Plugins, Reference, findings
    <3> QED BY <1>7, <2>2, <2>3, <2>4 DEF PluginReferences
  <2>6. d.value = plugin /\ d.type = "plugin_reference"
    BY <2>5 DEF Reference, Draft
  <2>7. Plugins \subseteq OtherValues
    BY DEF OtherValues
  <2> HIDE DEF Plugins
  <2> QED BY <2>5, <2>6, <2>7
<1> QED BY <1>1, <1>2, <1>3, <1>4, <1>5, <1>6, <1>7 DEF DraftsOf

\* The connections that the report takes for linked are the public ones.
LEMMA LinkedArePublic ==
  ASSUME NEW arts \in Tables
  PROVE  LinkedConnections(arts, Reported(arts), Exported(arts)) = Rows(arts, "network", Public)
<1> DEFINE linked == LinkedConnections(arts, Reported(arts), Exported(arts))
<1>1. ASSUME NEW i \in linked PROVE i \in Rows(arts, "network", Public)
  <2>1. i \in DOMAIN arts["network"]
    BY DEF LinkedConnections
  <2> DEFINE row == arts["network"][i]
  <2>2. row \in RowsOf("network")
    BY <2>1, RowsTyped DEF Table
  <2>3. CASE On(Reported(arts), "network", i) # {}
    BY <2>1, <2>3, ConnectionsFound DEF Rows
  <2>4. CASE \E ioc \in Exported(arts) : ioc.value \in RemoteEnd(row)
    <3>1. PICK ioc \in Exported(arts) : ioc.value \in RemoteEnd(row)
      BY <2>4
    <3>2. PICK d \in DraftsOf(arts, Reported(arts)) : ioc = Record(d)
      BY ExportForm DEF Exported, Deduplicated
    <3>3. d.value \in RemoteEnd(row)
      BY <3>1, <3>2 DEF Record
    <3>4. FromConnection(arts, d)
      <4>1. d.value \notin OtherValues
        BY <2>2, <3>3, EndsAssumption
      <4> QED BY <4>1, ValueOrigin
    <3>5. PICK k \in Rows(arts, "network", Public) : d.value \in RemoteEnd(arts["network"][k])
      BY <3>4 DEF FromConnection
    <3>6. arts["network"][k] \in Public
      BY <3>5 DEF Rows
    <3>7. RemoteEnd(row) \cap RemoteEnd(arts["network"][k]) # {}
      BY <3>3, <3>5
    <3>8. row \in Public
      BY <2>2, <3>6, <3>7, EndsAssumption
    <3> QED BY <2>1, <3>8 DEF Rows
  <2> QED BY <2>3, <2>4 DEF LinkedConnections, RemoteEnd
<1>2. ASSUME NEW i \in Rows(arts, "network", Public) PROVE i \in linked
  <2>1. i \in DOMAIN arts["network"] /\ arts["network"][i] \in Public
    BY DEF Rows
  <2> QED BY <2>1, ConnectionsFound DEF LinkedConnections
<1> QED BY <1>1, <1>2

-----------------------------------------------------------------------------
(* The lines of connections. *)

\* What NetworkLines makes of a row, part by part.
Similar(rows, i) == {k \in DOMAIN rows : SameConnection(rows[k], rows[i])}
LineScore(rows, linked, i) == NetworkScore(rows[i], i \in linked)
Better(rows, linked, i, k) ==
  \/ LineScore(rows, linked, i) > LineScore(rows, linked, k)
  \/ LineScore(rows, linked, i) = LineScore(rows, linked, k) /\ i <= k
BestRows(rows, linked) ==
  {i \in DOMAIN rows : \A k \in Similar(rows, i) : Better(rows, linked, i, k)}
Ahead(rows, linked, i, k) ==
  \/ LineScore(rows, linked, i) > LineScore(rows, linked, k)
  \/ LineScore(rows, linked, i) = LineScore(rows, linked, k)
       /\ Min(Similar(rows, i)) < Min(Similar(rows, k))
Line(rows, linked, i) ==
  [at |-> i, linked |-> Similar(rows, i) \cap linked # {}, count |-> Cardinality(Similar(rows, i)),
   position |-> Cardinality({k \in BestRows(rows, linked) : Ahead(rows, linked, k, i)})]

\* A line for the best of each class of similar rows.
LEMMA NetworkLinesForm ==
  \A rows, linked :
    NetworkLines(rows, linked) = {Line(rows, linked, i) : i \in BestRows(rows, linked)}
<1> TAKE rows, linked
<1> DEFINE score   == [i \in DOMAIN rows |-> NetworkScore(rows[i], i \in linked)]
           like(i) == {k \in DOMAIN rows : SameConnection(rows[k], rows[i])}
           ahead(i, k) == score[i] > score[k] \/ (score[i] = score[k] /\ Min(like(i)) < Min(like(k)))
           best    == {i \in DOMAIN rows : \A k \in like(i) :
                         score[i] > score[k] \/ (score[i] = score[k] /\ i <= k)}
           L(i) == [at |-> i, linked |-> like(i) \cap linked # {}, count |-> Cardinality(like(i)),
                    position |-> Cardinality({k \in best : ahead(k, i)})]
<1>1. NetworkLines(rows, linked) = {L(i) : i \in best}
  BY DEF NetworkLines
<1>2. \A i : like(i) = Similar(rows, i)
  BY DEF Similar
<1>3. \A i \in DOMAIN rows : score[i] = LineScore(rows, linked, i)
  BY DEF LineScore
<1> HIDE DEF score
<1>4. best = BestRows(rows, linked)
  <2>1. \A i : \A k \in like(i) : k \in DOMAIN rows
    OBVIOUS
  <2> HIDE DEF like
  <2> QED BY <1>2, <1>3, <2>1 DEF BestRows, Better
<1>5. \A i, k \in DOMAIN rows : ahead(i, k) <=> Ahead(rows, linked, i, k)
  <2> HIDE DEF like
  <2> QED BY <1>2, <1>3 DEF Ahead
<1>6. best \subseteq DOMAIN rows
  OBVIOUS
<1> HIDE DEF ahead, best
<1>7. \A i \in best : {k \in best : ahead(k, i)} = {k \in BestRows(rows, linked) : Ahead(rows, linked, k, i)}
  BY <1>4, <1>5, <1>6
<1> HIDE DEF like
<1>8. \A i \in best : L(i) = Line(rows, linked, i)
  BY <1>2, <1>7 DEF Line
<1> HIDE DEF L
<1> QED BY <1>1, <1>4, <1>8

\* Being similar is an equivalence.
LEMMA SimilarClasses ==
  \A rows : \A i, k \in DOMAIN rows :
    /\ i \in Similar(rows, i)
    /\ k \in Similar(rows, i) => Similar(rows, k) = Similar(rows, i)
<1>1. \A r, s, t : /\ SameConnection(r, r)
                   /\ SameConnection(r, s) => SameConnection(s, r)
                   /\ SameConnection(r, s) /\ SameConnection(s, t) => SameConnection(r, t)
  <2> DEFINE Q(r) == Listening(r) /\ Loose(r)
  <2>1. \A r, s : SameConnection(r, s) <=> r = s \/ (Q(r) /\ Q(s))
    BY DEF SameConnection
  <2> HIDE DEF Q
  <2> QED BY <2>1
<1> QED BY <1>1, Zenon DEF Similar

\* Scores are within bounds, above the others' for public rows if those are the linked.
Scored(rows, linked) ==
  /\ \E n \in Nat : DOMAIN rows = 1..n
  /\ \A i \in DOMAIN rows :
       /\ i \in linked => rows[i].public /\ LineScore(rows, linked, i) \in 50..120
       /\ i \notin linked => ~rows[i].public /\ LineScore(rows, linked, i) \in (-40)..30

\* The scores of linked connections lie above those of the others.
LEMMA ConnectionScores ==
  ASSUME NEW arts \in Tables
  PROVE  Scored(arts["network"], Rows(arts, "network", Public))
<1> DEFINE rows == arts["network"]
           linked == Rows(arts, "network", Public)
<1>1. DOMAIN rows = 1..Len(rows) /\ Len(rows) \in Nat
  BY RowsFinite DEF Table
<1>2. ASSUME NEW i \in DOMAIN rows
      PROVE  /\ i \in linked => rows[i].public /\ LineScore(rows, linked, i) \in 50..120
             /\ i \notin linked => ~rows[i].public /\ LineScore(rows, linked, i) \in (-40)..30
  <2>1. i \in linked <=> rows[i].public
    <3>1. rows[i] \in RowsOf("network")
      BY RowsTyped DEF Table
    <3> QED BY <3>1 DEF Rows, Public
  <2> HIDE DEF linked
  <2> DEFINE a == IF Loose(rows[i]) THEN -15 ELSE 15
             b == IF rows[i].state = "active" THEN 15 ELSE IF Listening(rows[i]) THEN -25 ELSE 0
  <2>2. a \in (-15)..15 /\ b \in (-25)..15
    OBVIOUS
  <2>3. LineScore(rows, linked, i) =
          (IF rows[i].public THEN 60 ELSE 0) + a + b + (IF i \in linked THEN 30 ELSE 0)
    BY DEF LineScore, NetworkScore
  <2> HIDE DEF a, b
  <2>4. CASE i \in linked
    <3>1. LineScore(rows, linked, i) = 60 + a + b + 30
      BY <2>1, <2>3, <2>4
    <3> QED BY <2>1, <2>2, <2>4, <3>1
  <2>5. CASE i \notin linked
    <3>1. LineScore(rows, linked, i) = 0 + a + b + 0
      BY <2>1, <2>3, <2>5
    <3> QED BY <2>1, <2>2, <2>5, <3>1
  <2> QED BY <2>4, <2>5
<1> QED BY <1>1, <1>2 DEF Scored

\* Scores are integers within bounds.
LEMMA ScoreInt ==
  ASSUME NEW rows, NEW linked, Scored(rows, linked)
  PROVE  /\ \A i \in DOMAIN rows : LineScore(rows, linked, i) \in (-40)..120
         /\ DOMAIN rows \in SUBSET Nat /\ IsFiniteSet(DOMAIN rows)
<1>1. PICK n \in Nat : DOMAIN rows = 1..n
  BY DEF Scored
<1>2. IsFiniteSet(DOMAIN rows) /\ DOMAIN rows \in SUBSET Nat
  BY <1>1, FS_Interval
<1> QED BY <1>2 DEF Scored

\* Among some rows there is a best one.
LEMMA BestExists ==
  ASSUME NEW rows, NEW linked, Scored(rows, linked), NEW T \in SUBSET (DOMAIN rows), T # {}
  PROVE  \E i \in T : \A k \in T : Better(rows, linked, i, k)
<1> DEFINE score(i) == LineScore(rows, linked, i)
           Lacks == {120 - score(i) : i \in T}
<1>1. \A i \in T : score(i) \in (-40)..120 /\ i \in Nat
  BY ScoreInt
<1> HIDE DEF score
<1>2. PICK a \in Lacks : \A b \in Lacks : a <= b
  <2>1. Lacks # {} /\ Lacks \in SUBSET Nat
    BY <1>1
  <2> HIDE DEF Lacks
  <2> QED BY <2>1, LeastNumber
<1> DEFINE Top == {i \in T : 120 - score(i) = a}
<1>3. PICK i \in Top : \A k \in Top : i <= k
  <2>1. Top # {} /\ Top \in SUBSET Nat
    BY <1>1
  <2> HIDE DEF Top
  <2> QED BY <2>1, LeastNumber
<1>4. ASSUME NEW k \in T PROVE score(i) > score(k) \/ (score(i) = score(k) /\ i <= k)
  <2>1. score(i) \in (-40)..120 /\ score(k) \in (-40)..120
    BY <1>1
  <2>2. 120 - score(i) = a /\ a <= 120 - score(k)
    BY <1>2
  <2>3. 120 - score(k) = a => i <= k
    BY <1>3
  <2> DEFINE s == score(i)
             t == score(k)
  <2>4. s \in (-40)..120 /\ t \in (-40)..120 /\ 120 - s = a /\ a <= 120 - t
    BY <2>1, <2>2
  <2>5. 120 - t = a => i <= k
    BY <2>3
  <2> HIDE DEF s, t
  <2>6. s > t \/ (s = t /\ i <= k)
    BY <2>4, <2>5
  <2> QED BY <2>6 DEF s, t
<1> QED BY <1>4 DEF Better, score

\* Each class of similar rows has one line.
LEMMA LinesPartition ==
  ASSUME NEW rows, NEW linked, Scored(rows, linked)
  PROVE  /\ \A k \in DOMAIN rows : \E i \in BestRows(rows, linked) : k \in Similar(rows, i)
         /\ \A i, k \in BestRows(rows, linked) :
              i # k => Similar(rows, i) \cap Similar(rows, k) = {}
<1>1. ASSUME NEW k \in DOMAIN rows
      PROVE  \E i \in BestRows(rows, linked) : k \in Similar(rows, i)
  <2> DEFINE T == Similar(rows, k)
  <2>1. k \in T /\ T \in SUBSET (DOMAIN rows)
    BY SimilarClasses DEF Similar
  <2>2. PICK i \in T : \A m \in T : Better(rows, linked, i, m)
    <3> HIDE DEF T
    <3> QED BY <2>1, BestExists
  <2>3. i \in DOMAIN rows /\ Similar(rows, i) = T
    BY <2>1, SimilarClasses
  <2>4. i \in BestRows(rows, linked)
    BY <2>2, <2>3 DEF BestRows
  <2> QED BY <2>1, <2>3, <2>4
<1>2. ASSUME NEW i \in BestRows(rows, linked), NEW k \in BestRows(rows, linked),
             Similar(rows, i) \cap Similar(rows, k) # {}
      PROVE  i = k
  <2>1. i \in DOMAIN rows /\ k \in DOMAIN rows
    BY DEF BestRows
  <2>2. PICK m : m \in Similar(rows, i) /\ m \in Similar(rows, k)
    BY <1>2
  <2>3. m \in DOMAIN rows
    BY <2>2 DEF Similar
  <2>4. Similar(rows, i) = Similar(rows, k)
    BY <2>1, <2>2, <2>3, SimilarClasses
  <2>5. i \in Similar(rows, k) /\ k \in Similar(rows, i)
    BY <2>1, <2>4, SimilarClasses
  <2>6. Better(rows, linked, i, k) /\ Better(rows, linked, k, i)
    BY <2>5 DEF BestRows
  <2> DEFINE a == LineScore(rows, linked, i)
             b == LineScore(rows, linked, k)
  <2>7. a \in (-40)..120 /\ b \in (-40)..120 /\ i \in Nat /\ k \in Nat
    BY <2>1, ScoreInt
  <2>8. (a > b \/ (a = b /\ i <= k)) /\ (b > a \/ (b = a /\ k <= i))
    BY <2>6 DEF Better
  <2> HIDE DEF a, b
  <2> QED BY <2>7, <2>8
<1> QED BY <1>1, <1>2

\* A line is that of its row.
LEMMA LinesFinite ==
  ASSUME NEW rows, NEW linked, Scored(rows, linked)
  PROVE  /\ IsFiniteSet(BestRows(rows, linked)) /\ IsFiniteSet(NetworkLines(rows, linked))
         /\ \A l \in NetworkLines(rows, linked) :
              l.at \in BestRows(rows, linked) /\ l = Line(rows, linked, l.at)
<1> DEFINE best == BestRows(rows, linked)
           h == [i \in best |-> Line(rows, linked, i)]
<1>1. IsFiniteSet(best)
  <2>1. best \in SUBSET (DOMAIN rows)
    BY DEF BestRows
  <2> QED BY <2>1, ScoreInt, FS_Subset
<1>2. NetworkLines(rows, linked) = {h[i] : i \in best} /\ h = [i \in best |-> h[i]]
  <2> HIDE DEF best
  <2>1. h = [i \in best |-> h[i]] /\ {h[i] : i \in best} = {Line(rows, linked, i) : i \in best}
    OBVIOUS
  <2>2. NetworkLines(rows, linked) = {Line(rows, linked, i) : i \in best}
    BY NetworkLinesForm DEF best
  <2> QED BY <2>1, <2>2
<1>3. IsFiniteSet(NetworkLines(rows, linked))
  <2> HIDE DEF h, best
  <2> QED BY <1>1, <1>2, ImageFinite
<1>4. \A i : Line(rows, linked, i).at = i
  BY DEF Line
<1>5. \A l \in NetworkLines(rows, linked) : l.at \in best /\ l = Line(rows, linked, l.at)
  <2>1. NetworkLines(rows, linked) = {Line(rows, linked, i) : i \in best}
    BY NetworkLinesForm
  <2> HIDE DEF best
  <2> QED BY <1>4, <2>1
<1> QED BY <1>1, <1>3, <1>5

\* The lines count each connection once.
LEMMA ConnectionsAccounted ==
  ASSUME NEW rows, NEW linked, Scored(rows, linked)
  PROVE  Counted(NetworkLines(rows, linked)) = Cardinality(DOMAIN rows)
<1> DEFINE lines == NetworkLines(rows, linked)
           part == [l \in lines |-> Similar(rows, l.at)]
<1>1. IsFiniteSet(lines) /\ IsFiniteSet(DOMAIN rows)
  BY LinesFinite, ScoreInt
<1>2. \A l \in lines : l.at \in BestRows(rows, linked) /\ l = Line(rows, linked, l.at)
  BY LinesFinite
<1>3. \A l \in lines : part[l] = Similar(rows, l.at)
  OBVIOUS
<1>4. \A i \in BestRows(rows, linked) : Line(rows, linked, i) \in lines /\ Line(rows, linked, i).at = i
  BY NetworkLinesForm DEF Line
<1> HIDE DEF part, lines
<1>5. ASSUME NEW l \in lines PROVE part[l] \subseteq DOMAIN rows /\ l.count = Cardinality(part[l])
  <2>1. Line(rows, linked, l.at).count = Cardinality(Similar(rows, l.at))
    BY DEF Line
  <2> QED BY <1>2, <1>3, <2>1 DEF Similar
<1>6. ASSUME NEW l \in lines, NEW m \in lines, l # m PROVE part[l] \cap part[m] = {}
  <2>1. l.at # m.at
    BY <1>2, <1>6
  <2> QED BY <1>2, <1>3, <2>1, LinesPartition
<1>7. ASSUME NEW k \in DOMAIN rows PROVE \E l \in lines : k \in part[l]
  <2>1. PICK i \in BestRows(rows, linked) : k \in Similar(rows, i)
    BY LinesPartition
  <2> QED BY <1>3, <1>4, <2>1
<1> QED BY <1>1, <1>5, <1>6, <1>7, CountsAdd DEF lines

\* A line linked to a finding comes before the others.
LEMMA ConnectionsKept ==
  ASSUME NEW rows, NEW linked, Scored(rows, linked)
  PROVE  LinkedKept(NetworkLines(rows, linked))
<1> DEFINE lines == NetworkLines(rows, linked)
           best == BestRows(rows, linked)
           score(i) == LineScore(rows, linked, i)
<1>1. SUFFICES ASSUME NEW l \in Displayed(lines), NEW m \in lines \ Displayed(lines), m.linked, ~l.linked
               PROVE  FALSE
  BY DEF LinkedKept
<1> DEFINE i == l.at
           k == m.at
<1>2. i \in best /\ k \in best /\ l = Line(rows, linked, i) /\ m = Line(rows, linked, k)
  BY LinesFinite DEF Displayed
<1>3. /\ l.linked <=> Similar(rows, i) \cap linked # {}
      /\ m.linked <=> Similar(rows, k) \cap linked # {}
      /\ l.position = Cardinality({b \in best : Ahead(rows, linked, b, i)})
      /\ m.position = Cardinality({b \in best : Ahead(rows, linked, b, k)})
  <2> HIDE DEF i, k, best
  <2>1. \A x : /\ Line(rows, linked, x).linked <=> Similar(rows, x) \cap linked # {}
               /\ Line(rows, linked, x).position
                    = Cardinality({b \in BestRows(rows, linked) : Ahead(rows, linked, b, x)})
    BY DEF Line
  <2> QED BY <1>2, <2>1 DEF best
<1> HIDE DEF i, k
<1>4. i \in DOMAIN rows /\ k \in DOMAIN rows
  BY <1>2 DEF BestRows
<1>5. score(i) \in (-40)..30
  <2>1. i \notin linked
    BY <1>1, <1>3, <1>4, SimilarClasses
  <2> QED BY <1>4, <2>1 DEF Scored
<1>6. score(k) \in 50..120
  <2>1. PICK x \in Similar(rows, k) : x \in linked
    BY <1>1, <1>3
  <2>2. x \in DOMAIN rows
    BY DEF Similar
  <2>3. score(x) \in 50..120 /\ score(k) \in (-40)..120
    BY <1>4, <2>1, <2>2, ScoreInt DEF Scored
  <2>4. Better(rows, linked, k, x)
    BY <1>2, <2>1 DEF BestRows
  <2>5. score(k) > score(x) \/ score(k) = score(x)
    BY <2>4 DEF Better
  <2> HIDE DEF score
  <2> QED BY <2>3, <2>5
<1> DEFINE A == {b \in best : Ahead(rows, linked, b, k)}
           B == {b \in best : Ahead(rows, linked, b, i)}
<1>7. A \subseteq B
  <2> SUFFICES ASSUME NEW b \in best, Ahead(rows, linked, b, k) PROVE Ahead(rows, linked, b, i)
    OBVIOUS
  <2>1. score(b) \in (-40)..120
    BY ScoreInt DEF BestRows
  <2>2. score(b) > score(k) \/ score(b) = score(k)
    BY DEF Ahead
  <2>3. score(b) > score(i)
    <3> HIDE DEF score
    <3> QED BY <1>5, <1>6, <2>1, <2>2
  <2> QED BY <2>3 DEF Ahead
<1>8. IsFiniteSet(B)
  <2>1. IsFiniteSet(best) /\ B \in SUBSET best
    BY LinesFinite
  <2> HIDE DEF B, best
  <2> QED BY <2>1, FS_Subset
<1>9. m.position <= l.position /\ m.position \in Nat /\ l.position \in Nat
  <2>1. m.position = Cardinality(A) /\ l.position = Cardinality(B)
    BY <1>3
  <2> HIDE DEF A, B
  <2> QED BY <1>7, <1>8, <2>1, FS_Subset, FS_CardinalityType
<1>10. l.position < Limit.display /\ ~(m.position < Limit.display)
  BY DEF Displayed
<1>11. Limit.display \in Nat
  BY ReportAssumption
<1> DEFINE p == l.position
           q == m.position
           n == Limit.display
<1>12. q <= p /\ q \in Nat /\ p \in Nat /\ p < n /\ ~(q < n) /\ n \in Nat
  BY <1>9, <1>10, <1>11
<1> HIDE DEF p, q, n
<1> QED BY <1>12

\* A set of numbers has a least.
LEMMA LeastMember ==
  ASSUME NEW S \in SUBSET Nat, S # {}
  PROVE  Min(S) \in S /\ \A x \in S : Min(S) <= x
<1>1. \E x \in S : \A y \in S : x <= y
  BY LeastNumber
<1> QED BY <1>1 DEF Min

\* The first line is public, if any connection is.
LEMMA PublicFirst ==
  ASSUME NEW rows, NEW linked, Scored(rows, linked), NEW x \in DOMAIN rows, x \in linked
  PROVE  \E l \in Displayed(NetworkLines(rows, linked)) : rows[l.at].public
<1> DEFINE best == BestRows(rows, linked)
           score(i) == LineScore(rows, linked, i)
           Lacks == {120 - score(i) : i \in best}
<1>1. \A i \in best : i \in DOMAIN rows /\ score(i) \in (-40)..120
  BY ScoreInt DEF BestRows
<1>2. PICK y \in best : x \in Similar(rows, y)
  BY LinesPartition
<1>3. score(y) \in 50..120
  <2>1. score(x) \in 50..120
    BY DEF Scored
  <2>2. score(y) > score(x) \/ score(y) = score(x)
    BY <1>2 DEF BestRows, Better
  <2> HIDE DEF score, best
  <2> QED BY <1>1, <2>1, <2>2
<1> HIDE DEF score, best
<1>4. PICK a \in Lacks : \A b \in Lacks : a <= b
  <2>1. Lacks # {} /\ Lacks \in SUBSET Nat
    BY <1>1, <1>2
  <2> HIDE DEF Lacks
  <2> QED BY <2>1, LeastNumber
<1> DEFINE Top == {i \in best : 120 - score(i) = a}
           Starts == {Min(Similar(rows, i)) : i \in Top}
<1>5. \A i \in best : Min(Similar(rows, i)) \in Nat
  <2> SUFFICES ASSUME NEW i \in best PROVE Min(Similar(rows, i)) \in Nat
    OBVIOUS
  <2>1. Similar(rows, i) \in SUBSET Nat /\ Similar(rows, i) # {}
    BY <1>1, SimilarClasses, ScoreInt DEF Similar
  <2> QED BY <2>1, LeastMember
<1>6. PICK p \in Starts : \A q \in Starts : p <= q
  <2>1. Starts # {} /\ Starts \in SUBSET Nat
    BY <1>4, <1>5
  <2> HIDE DEF Starts
  <2> QED BY <2>1, LeastNumber
<1>7. PICK i \in Top : Min(Similar(rows, i)) = p
  BY <1>6
<1>8. i \in best /\ 120 - score(i) = a
  BY <1>7
<1>9. score(i) \in 50..120
  <2>1. a <= 120 - score(y)
    BY <1>2, <1>4
  <2> QED BY <1>1, <1>2, <1>3, <1>8, <2>1
<1>10. ASSUME NEW k \in best, Ahead(rows, linked, k, i) PROVE FALSE
  <2> DEFINE s == Min(Similar(rows, k))
             t == Min(Similar(rows, i))
  <2>1. score(k) > score(i) \/ (score(k) = score(i) /\ s < t)
    BY <1>10 DEF Ahead, score
  <2>2. score(k) \in (-40)..120 /\ score(i) \in (-40)..120 /\ s \in Nat /\ t \in Nat
    BY <1>1, <1>5, <1>8
  <2>3. a <= 120 - score(k)
    BY <1>4
  <2>4. 120 - score(k) = a => t <= s
    BY <1>6, <1>7
  <2> DEFINE u == score(k)
             v == score(i)
  <2>5. u > v \/ (u = v /\ s < t)
    BY <2>1
  <2>6. u \in (-40)..120 /\ v \in (-40)..120 /\ s \in Nat /\ t \in Nat
    BY <2>2
  <2>7. 120 - v = a /\ a <= 120 - u /\ (120 - u = a => t <= s)
    BY <1>8, <2>3, <2>4
  <2> HIDE DEF s, t, u, v
  <2> QED BY <2>5, <2>6, <2>7
<1> DEFINE l == Line(rows, linked, i)
<1>11. l \in NetworkLines(rows, linked) /\ l.at = i /\ l.position = 0
  <2>1. {k \in BestRows(rows, linked) : Ahead(rows, linked, k, i)} = {}
    BY <1>10 DEF best
  <2>2. l.position = Cardinality({}) /\ l.at = i
    BY <2>1 DEF Line
  <2> QED BY <1>8, <2>2, FS_EmptySet, NetworkLinesForm DEF best
<1>12. l \in Displayed(NetworkLines(rows, linked))
  <2>1. 0 < Limit.display
    BY ReportAssumption
  <2> HIDE DEF l
  <2> QED BY <1>11, <2>1 DEF Displayed
<1>13. rows[i].public
  <2>1. i \in linked
    <3>1. i \in DOMAIN rows
      BY <1>1, <1>8
    <3>2. i \notin linked => score(i) \in (-40)..30
      BY <3>1 DEF Scored, score
    <3> QED BY <1>9, <3>2
  <2> QED BY <1>1, <1>8, <2>1 DEF Scored
<1> HIDE DEF l
<1> QED BY <1>11, <1>12, <1>13

-----------------------------------------------------------------------------
(* The findings on top and those left out. *)

\* The rows of risk_findings are finitely many.
LEMMA ContextFinite ==
  ASSUME NEW arts \in Tables PROVE IsFiniteSet(ContextPlugins(arts))
<1> DEFINE Of(t) == {RowPlugin(t, arts[t][i]) : i \in DOMAIN arts[t]}
           P == ContextPlugins(arts)
<1>1. \A t \in Table : IsFiniteSet(Of(t))
  <2> SUFFICES ASSUME NEW t \in Table PROVE IsFiniteSet(Of(t))
    OBVIOUS
  <2> DEFINE g == [i \in DOMAIN arts[t] |-> RowPlugin(t, arts[t][i])]
  <2>1. g = [i \in DOMAIN arts[t] |-> g[i]] /\ Of(t) = {g[i] : i \in DOMAIN arts[t]}
    OBVIOUS
  <2>2. IsFiniteSet(DOMAIN arts[t])
    BY RowsFinite
  <2> HIDE DEF g, Of
  <2> QED BY <2>1, <2>2, ImageFinite
<1>2. P = UNION {Of(t) : t \in {"memory_region", "module"}}
  BY DEF ContextPlugins
<1>3. P = Of("memory_region") \cup Of("module")
  <2> HIDE DEF Of, P
  <2> QED BY <1>2
<1>4. "memory_region" \in Table /\ "module" \in Table
  BY DEF Table
<1> HIDE DEF P, Of
<1>5. IsFiniteSet(P)
  BY <1>1, <1>3, <1>4, FS_Union
<1> QED BY <1>5 DEF P

LEMMA RiskRowsFinite ==
  ASSUME NEW arts \in Tables, NEW findings \in SUBSET Findings(arts), NEW sum,
         NEW others, IsFiniteSet(others)
  PROVE  IsFiniteSet(RiskFindings(arts, findings, sum, others))
<1>1. IsFiniteSet(findings)
  BY FindingsFinite, FS_Subset
<1>2. IsFiniteSet(OfProcess(findings))
  <2> DEFINE h == [f \in findings |->
                     FindingRow(f.place[1], "this", SeverityOf(f), f.score, {Category(f.place[1])}, f.place)]
  <2>1. OfProcess(findings) = {h[f] : f \in findings}
    BY DEF OfProcess
  <2>2. h = [f \in findings |-> h[f]]
    OBVIOUS
  <2> HIDE DEF h
  <2> QED BY <1>1, <2>1, <2>2, ImageFinite
<1>3. IsFiniteSet(OfJob(arts))
  <2> DEFINE R == Representatives(arts, JobSummaries(arts))
             severity(i) == YaraSeverity(Metadata[arts["yara"][i].rule], FALSE)
             h == [i \in R |-> FindingRow(14, "none", severity(i), SeverityScore[severity(i)], {}, <<14, i, 0>>)]
             P == ContextPlugins(arts)
             k == [plugin \in P |->
                     FindingRow(ContextRule(plugin), "none", "medium", 5, {}, <<ContextRule(plugin), 0, 0>>)]
  <2>1. OfJob(arts) = {h[i] : i \in R} \cup {k[plugin] : plugin \in P}
    BY DEF OfJob
  <2>2. h = [i \in R |-> h[i]] /\ k = [plugin \in P |-> k[plugin]]
    OBVIOUS
  <2>3. IsFiniteSet(R)
    <3>1. R \in SUBSET (DOMAIN arts["yara"])
      BY DEF Representatives, JobSummaries
    <3>2. IsFiniteSet(DOMAIN arts["yara"])
      BY RowsFinite DEF Table
    <3> HIDE DEF R
    <3> QED BY <3>1, <3>2, FS_Subset
  <2>4. IsFiniteSet(P)
    BY ContextFinite
  <2> HIDE DEF h, k, R, P
  <2>5. IsFiniteSet({h[i] : i \in R})
    BY <2>2, <2>3, ImageFinite
  <2>6. IsFiniteSet({k[plugin] : plugin \in P})
    BY <2>2, <2>4, ImageFinite
  <2>7. IsFiniteSet({h[i] : i \in R} \cup {k[plugin] : plugin \in P})
    BY <2>5, <2>6, FS_Union
  <2> QED BY <2>1, <2>7
<1>4. IsFiniteSet(OfSummary(sum))
  <2> DEFINE row == FindingRow(0, "this", sum.severity, sum.score, sum.groups, <<18, 0, 0>>)
  <2>1. OfSummary(sum) = {} \/ OfSummary(sum) = {row}
    BY DEF OfSummary
  <2> HIDE DEF row
  <2> QED BY <2>1, FS_Singleton, FS_EmptySet
<1>5. IsFiniteSet(OfProcess(findings) \cup OfJob(arts))
  BY <1>2, <1>3, FS_Union
<1>6. IsFiniteSet(OfProcess(findings) \cup OfJob(arts) \cup OfSummary(sum))
  BY <1>4, <1>5, FS_Union
<1>7. IsFiniteSet(OfProcess(findings) \cup OfJob(arts) \cup OfSummary(sum) \cup others)
  BY <1>6, FS_Union
<1> QED BY <1>7 DEF RiskFindings

\* A finite set and a part of it.
LEMMA Parted ==
  ASSUME NEW S, IsFiniteSet(S), NEW T \in SUBSET S
  PROVE  /\ Cardinality(S) = Cardinality(T) + Cardinality(S \ T)
         /\ Cardinality(T) \in Nat /\ Cardinality(S \ T) \in Nat /\ IsFiniteSet(T)
<1>1. IsFiniteSet(T) /\ IsFiniteSet(S \ T)
  BY FS_Subset
<1>2. S = T \cup (S \ T) /\ T \cap (S \ T) = {}
  OBVIOUS
<1>3. Cardinality(T \cup (S \ T)) = Cardinality(T) + Cardinality(S \ T)
  BY <1>1, <1>2, DisjointUnion
<1>4. Cardinality(T) \in Nat /\ Cardinality(S \ T) \in Nat
  BY <1>1, FS_CardinalityType
<1>5. Cardinality(T \cup (S \ T)) = Cardinality(S)
  BY <1>2
<1> QED BY <1>1, <1>3, <1>4, <1>5

\* Findings are on top or counted as left out.
LEMMA FindingsAccounted ==
  ASSUME NEW rows, IsFiniteSet(rows) PROVE KeepsFindings(rows)
<1> DEFINE C == Candidates(rows)
           T == TopFindings(rows)
<1>1. C \in SUBSET rows /\ T \in SUBSET C
  BY DEF TopFindings, FirstFindings, Foremost, Candidates, Summaries
<1>2. Omitted(rows) = Cardinality(rows \ C) + Cardinality(C \ T)
  BY DEF Omitted
<1>3. KeepsFindings(rows) <=> Cardinality(T) + Omitted(rows) = Cardinality(rows)
  BY DEF KeepsFindings
<1> HIDE DEF C, T
<1>4. /\ Cardinality(rows) = Cardinality(C) + Cardinality(rows \ C)
      /\ Cardinality(C) \in Nat /\ Cardinality(rows \ C) \in Nat /\ IsFiniteSet(C)
  BY <1>1, Parted
<1>5. /\ Cardinality(C) = Cardinality(T) + Cardinality(C \ T)
      /\ Cardinality(T) \in Nat /\ Cardinality(C \ T) \in Nat
  BY <1>1, <1>4, Parted
<1> DEFINE a == Cardinality(rows \ C)
           b == Cardinality(C \ T)
           c == Cardinality(T)
           d == Cardinality(C)
           e == Cardinality(rows)
<1>6. e = d + a /\ d = c + b /\ a \in Nat /\ b \in Nat /\ c \in Nat
  BY <1>4, <1>5
<1>7. c + (a + b) = e
  <2> HIDE DEF a, b, c, d, e
  <2> QED BY <1>6
<1> QED BY <1>2, <1>3, <1>7

-----------------------------------------------------------------------------
(* The lines of modules and of YARA rules: rows that look the same share   *)
(* one, at the first of them.                                              *)

FirstLike(S, p) == {i \in S : \A m \in S : p[m] = p[i] => i <= m}

\* Each value has one first index.
LEMMA FirstOfEach ==
  ASSUME NEW S \in SUBSET Nat, NEW p
  PROVE  /\ \A k \in S : \E i \in FirstLike(S, p) : p[i] = p[k]
         /\ \A i, k \in FirstLike(S, p) : p[i] = p[k] => i = k
<1>1. ASSUME NEW k \in S PROVE \E i \in FirstLike(S, p) : p[i] = p[k]
  <2> DEFINE T == {m \in S : p[m] = p[k]}
  <2>1. PICK i \in T : \A m \in T : i <= m
    <3>1. T # {} /\ T \in SUBSET Nat
      OBVIOUS
    <3> HIDE DEF T
    <3> QED BY <3>1, LeastNumber
  <2> QED BY <2>1 DEF FirstLike
<1>2. ASSUME NEW i \in FirstLike(S, p), NEW k \in FirstLike(S, p), p[i] = p[k] PROVE i = k
  <2>1. i <= k /\ k <= i /\ i \in Nat /\ k \in Nat
    BY <1>2 DEF FirstLike
  <2> QED BY <2>1
<1> QED BY <1>1, <1>2

\* What is ahead of one line and of no other.
LEMMA Earlier ==
  ASSUME NEW B, IsFiniteSet(B), NEW A \in SUBSET B, NEW l, NEW m,
         l.position = Cardinality(B), m.position = Cardinality(A),
         l.position < Limit.display
  PROVE  m.position < Limit.display
<1>1. Cardinality(A) <= Cardinality(B) /\ Cardinality(A) \in Nat /\ Cardinality(B) \in Nat
  BY FS_Subset, FS_CardinalityType
<1>2. Limit.display \in Nat
  BY ReportAssumption
<1> QED BY <1>1, <1>2

Paths(arts) == [i \in DOMAIN arts["module"] |-> arts["module"][i].path]
AlikeModules(arts, findings, i) ==
  {k \in SelectedModules(arts, findings) : arts["module"][k].path = arts["module"][i].path}
LinkedModules(arts, findings) ==
  {i \in SelectedModules(arts, findings) : On(findings, "module", i) # {}}
RawLine(arts, findings, i) ==
  [at |-> i, count |-> Cardinality(AlikeModules(arts, findings, i)),
   linked |-> AlikeModules(arts, findings, i) \cap LinkedModules(arts, findings) # {},
   priority |-> ModulePriority(i \in KnownModules(arts, SelectedModules(arts, findings)),
                  AlikeModules(arts, findings, i) \cap LinkedModules(arts, findings) # {})]
RawLines(arts, findings) ==
  {RawLine(arts, findings, i) : i \in FirstLike(SelectedModules(arts, findings), Paths(arts))}
AheadOf(l, m) == \/ l.priority > m.priority
                 \/ l.priority = m.priority /\ l.count > m.count
                 \/ l.priority = m.priority /\ l.count = m.count /\ l.at < m.at
Placed(l, lines) ==
  [at |-> l.at, count |-> l.count, linked |-> l.linked,
   position |-> Cardinality({m \in lines : AheadOf(m, l)})]

\* The lines of modules, each at its position.
LEMMA ModuleLinesForm ==
  \A arts, findings :
    ModuleLines(arts, findings)
      = {Placed(l, RawLines(arts, findings)) : l \in RawLines(arts, findings)}
<1> TAKE arts, findings
<1> DEFINE selected == SelectedModules(arts, findings)
           known    == KnownModules(arts, selected)
           linked   == {i \in selected : On(findings, "module", i) # {}}
           like(i)  == {k \in selected : arts["module"][k].path = arts["module"][i].path}
           first    == {k \in selected : \A m \in like(k) : k <= m}
           raw(i)   == [at |-> i, count |-> Cardinality(like(i)), linked |-> like(i) \cap linked # {},
                        priority |-> ModulePriority(i \in known, like(i) \cap linked # {})]
           lines    == {raw(i) : i \in first}
           ahead(l, m) == \/ l.priority > m.priority
                          \/ l.priority = m.priority /\ l.count > m.count
                          \/ l.priority = m.priority /\ l.count = m.count /\ l.at < m.at
           placed(l) == [at |-> l.at, count |-> l.count, linked |-> l.linked,
                         position |-> Cardinality({m \in lines : ahead(m, l)})]
<1>1. ModuleLines(arts, findings) = {placed(l) : l \in lines}
  BY DEF ModuleLines
<1>2. first = FirstLike(selected, Paths(arts))
  <2>1. \A i \in selected : Paths(arts)[i] = arts["module"][i].path
    BY DEF Paths, SelectedModules
  <2> HIDE DEF selected
  <2> QED BY <2>1 DEF FirstLike
<1>3. \A i : raw(i) = RawLine(arts, findings, i)
  BY DEF RawLine, AlikeModules, LinkedModules
<1> HIDE DEF first, raw
<1>4. lines = RawLines(arts, findings)
  BY <1>2, <1>3 DEF RawLines
<1> HIDE DEF lines
<1>5. \A l : placed(l) = Placed(l, RawLines(arts, findings))
  BY <1>4 DEF Placed, AheadOf
<1> HIDE DEF placed
<1> QED BY <1>1, <1>4, <1>5

\* The modules that are listed, and what is made of them, are finitely many.
LEMMA ModulesSelected ==
  ASSUME NEW arts \in Tables, NEW findings
  PROVE  /\ SelectedModules(arts, findings) \in SUBSET Nat
         /\ SelectedModules(arts, findings) \in SUBSET (DOMAIN arts["module"])
         /\ IsFiniteSet(SelectedModules(arts, findings))
         /\ IsFiniteSet(FirstLike(SelectedModules(arts, findings), Paths(arts)))
         /\ IsFiniteSet(RawLines(arts, findings)) /\ IsFiniteSet(ModuleLines(arts, findings))
         /\ \A i \in SelectedModules(arts, findings) : Paths(arts)[i] = arts["module"][i].path
<1> DEFINE S == SelectedModules(arts, findings)
           F == FirstLike(S, Paths(arts))
<1>1. S \in SUBSET (DOMAIN arts["module"])
  BY DEF SelectedModules
<1>2. DOMAIN arts["module"] = 1..Len(arts["module"]) /\ IsFiniteSet(DOMAIN arts["module"])
  BY RowsFinite DEF Table
<1>3. IsFiniteSet(S) /\ S \in SUBSET Nat
  <2> HIDE DEF S
  <2> QED BY <1>1, <1>2, FS_Subset
<1>4. IsFiniteSet(F)
  <2>1. F \in SUBSET S
    BY DEF FirstLike
  <2> HIDE DEF F, S
  <2> QED BY <1>3, <2>1, FS_Subset
<1>5. IsFiniteSet(RawLines(arts, findings))
  <2> DEFINE h == [i \in F |-> RawLine(arts, findings, i)]
  <2>1. h = [i \in F |-> h[i]] /\ RawLines(arts, findings) = {h[i] : i \in F}
    BY DEF RawLines
  <2> HIDE DEF h, F
  <2> QED BY <1>4, <2>1, ImageFinite
<1>6. IsFiniteSet(ModuleLines(arts, findings))
  <2> DEFINE R == RawLines(arts, findings)
             h == [l \in R |-> Placed(l, R)]
  <2>1. h = [l \in R |-> h[l]] /\ ModuleLines(arts, findings) = {h[l] : l \in R}
    BY ModuleLinesForm
  <2> HIDE DEF h, R
  <2> QED BY <1>5, <2>1, ImageFinite DEF R
<1>7. \A i \in S : Paths(arts)[i] = arts["module"][i].path
  BY <1>1 DEF Paths
<1> QED BY <1>1, <1>3, <1>4, <1>5, <1>6, <1>7

\* The lines count each listed module once.
LEMMA ModulesAccounted ==
  ASSUME NEW arts \in Tables, NEW findings
  PROVE  Accounted(ModuleLines(arts, findings), Cardinality(SelectedModules(arts, findings)))
<1> DEFINE S == SelectedModules(arts, findings)
           F == FirstLike(S, Paths(arts))
           R == RawLines(arts, findings)
           lines == ModuleLines(arts, findings)
           like(i) == AlikeModules(arts, findings, i)
           part == [l \in lines |-> like(l.at)]
<1>1. IsFiniteSet(S) /\ IsFiniteSet(lines) /\ S \in SUBSET Nat
  BY ModulesSelected
<1>2. \A l \in lines : l.at \in F /\ l.count = Cardinality(like(l.at)) /\ l = Placed(RawLine(arts, findings, l.at), R)
  <2> SUFFICES ASSUME NEW l \in lines
               PROVE  l.at \in F /\ l.count = Cardinality(like(l.at)) /\ l = Placed(RawLine(arts, findings, l.at), R)
    OBVIOUS
  <2>1. PICK r \in R : l = Placed(r, R)
    BY ModuleLinesForm
  <2>2. PICK i \in F : r = RawLine(arts, findings, i)
    BY <2>1 DEF RawLines
  <2>3. l.at = i /\ l.count = Cardinality(like(i))
    <3>1. l.at = r.at /\ l.count = r.count
      BY <2>1 DEF Placed
    <3>2. r.at = i /\ r.count = Cardinality(like(i))
      BY <2>2 DEF RawLine
    <3> QED BY <3>1, <3>2
  <2> HIDE DEF F, R, like
  <2> QED BY <2>1, <2>2, <2>3
<1>3. \A l \in lines : part[l] = like(l.at)
  OBVIOUS
<1>4. \A i \in F : \E l \in lines : l.at = i
  <2> SUFFICES ASSUME NEW i \in F PROVE \E l \in lines : l.at = i
    OBVIOUS
  <2>1. RawLine(arts, findings, i) \in R /\ RawLine(arts, findings, i).at = i
    BY DEF RawLines, RawLine
  <2> DEFINE l == Placed(RawLine(arts, findings, i), R)
  <2>2. l \in lines
    BY <2>1, ModuleLinesForm
  <2>3. l.at = i
    BY <2>1 DEF Placed
  <2> QED BY <2>2, <2>3
<1>5. \A i : \A k \in like(i) : k \in S /\ arts["module"][k].path = arts["module"][i].path
  BY DEF AlikeModules
<1>6. \A i \in S : Paths(arts)[i] = arts["module"][i].path
  BY ModulesSelected
<1>7. F \subseteq S
  BY DEF FirstLike
<1>8. \A k \in S : \A i : arts["module"][i].path = arts["module"][k].path => k \in like(i)
  BY DEF AlikeModules
<1>9. /\ \A k \in S : \E i \in F : Paths(arts)[i] = Paths(arts)[k]
      /\ \A i, k \in F : Paths(arts)[i] = Paths(arts)[k] => i = k
  <2> HIDE DEF S
  <2> QED BY <1>1, FirstOfEach
<1> HIDE DEF part, lines, like, S, F, R
<1>10. \A l \in lines : part[l] \subseteq S /\ l.count = Cardinality(part[l])
  BY <1>2, <1>3, <1>5
<1>11. ASSUME NEW l \in lines, NEW m \in lines, l # m PROVE part[l] \cap part[m] = {}
  <2>1. SUFFICES ASSUME NEW k \in S, k \in like(l.at), k \in like(m.at) PROVE FALSE
    BY <1>3, <1>5
  <2>2. Paths(arts)[l.at] = Paths(arts)[m.at]
    BY <1>2, <1>5, <1>6, <1>7, <2>1
  <2>3. l.at = m.at
    BY <1>2, <1>9, <2>2
  <2> QED BY <1>2, <1>11, <2>3
<1>12. ASSUME NEW k \in S PROVE \E l \in lines : k \in part[l]
  <2>1. PICK i \in F : Paths(arts)[i] = Paths(arts)[k]
    BY <1>9
  <2>2. PICK l \in lines : l.at = i
    BY <1>4, <2>1
  <2>3. arts["module"][i].path = arts["module"][k].path
    BY <1>6, <1>7, <2>1
  <2> QED BY <1>3, <1>8, <2>2, <2>3
<1>13. Counted(lines) = Cardinality(S)
  BY <1>1, <1>10, <1>11, <1>12, CountsAdd DEF lines, S
<1> QED BY <1>13 DEF Accounted, lines, S

\* A line that a finding is about comes before the others.
LEMMA ModulesKept ==
  ASSUME NEW arts \in Tables
  PROVE  LinkedKept(ModuleLines(arts, Reported(arts)))
<1> DEFINE findings == Reported(arts)
           S == SelectedModules(arts, findings)
           R == RawLines(arts, findings)
           lines == ModuleLines(arts, findings)
           like(i) == AlikeModules(arts, findings, i)
           linked == LinkedModules(arts, findings)
<1>1. SUFFICES ASSUME NEW l \in Displayed(lines), NEW m \in lines \ Displayed(lines), m.linked, ~l.linked
               PROVE  FALSE
  BY DEF LinkedKept
<1>2. /\ \E r \in R : l = Placed(r, R)
      /\ \E r \in R : m = Placed(r, R)
  BY ModuleLinesForm DEF Displayed
<1>3. PICK r \in R : l = Placed(r, R)
  BY <1>2
<1>4. PICK q \in R : m = Placed(q, R)
  BY <1>2
<1>5. ~r.linked /\ q.linked
  BY <1>1, <1>3, <1>4 DEF Placed
<1>6. \A x \in R : /\ x.priority \in {0, 10, 35, 50}
                   /\ x.linked => x.priority = 50
                   /\ ~x.linked => x.priority \in {0, 35}
  <2> SUFFICES ASSUME NEW x \in R
               PROVE  /\ x.priority \in {0, 10, 35, 50}
                      /\ x.linked => x.priority = 50
                      /\ ~x.linked => x.priority \in {0, 35}
    OBVIOUS
  <2>1. PICK i \in FirstLike(S, Paths(arts)) : x = RawLine(arts, findings, i)
    BY DEF RawLines
  <2> DEFINE known == i \in KnownModules(arts, S)
             found == like(i) \cap linked # {}
  <2>2. x.priority = ModulePriority(known, found) /\ (x.linked <=> found)
    BY <2>1 DEF RawLine
  <2>3. ASSUME found PROVE ~known
    <3>1. PICK k \in S : arts["module"][k].path = arts["module"][i].path /\ On(findings, "module", k) # {}
      BY <2>3 DEF AlikeModules, LinkedModules
    <3>2. k \in DOMAIN arts["module"]
      BY DEF SelectedModules
    <3>3. arts["module"][k] \in Dropped
      BY <3>1, <3>2, FoundModules
    <3>4. arts["module"][k].path = "dropped"
      BY <3>3 DEF Dropped, Writable, Microsoft
    <3>5. ASSUME known PROVE FALSE
      <4>1. arts["module"][i].path = "microsoft"
        BY <3>5 DEF KnownModules, Microsoft
      <4> QED BY <3>1, <3>4, <4>1
    <3> QED BY <3>5
  <2> HIDE DEF known, found
  <2> QED BY <2>2, <2>3 DEF ModulePriority
<1> DEFINE A == {x \in R : AheadOf(x, q)}
           B == {x \in R : AheadOf(x, r)}
<1>7. A \in SUBSET B
  <2> SUFFICES ASSUME NEW x \in R, AheadOf(x, q) PROVE AheadOf(x, r)
    OBVIOUS
  <2>1. q.priority = 50 /\ r.priority \in {0, 35} /\ x.priority \in {0, 10, 35, 50}
    <3> HIDE DEF R
    <3> QED BY <1>5, <1>6
  <2>2. x.priority > q.priority \/ x.priority = q.priority
    BY DEF AheadOf
  <2>3. x.priority > r.priority
    BY <2>1, <2>2
  <2> QED BY <2>3 DEF AheadOf
<1>8. IsFiniteSet(B)
  <2>1. IsFiniteSet(R) /\ B \in SUBSET R
    BY ModulesSelected
  <2> HIDE DEF B, R
  <2> QED BY <2>1, FS_Subset
<1>9. l.position = Cardinality(B) /\ m.position = Cardinality(A)
  BY <1>3, <1>4 DEF Placed
<1>10. l.position < Limit.display /\ ~(m.position < Limit.display)
  BY DEF Displayed
<1> HIDE DEF A, B
<1> QED BY <1>7, <1>8, <1>9, <1>10, Earlier

\* Rules and plugins of the first matches.
LEMMA MatchesAccounted ==
  ASSUME NEW arts \in Tables
  PROVE  Accounted(YaraLines(arts), Min({Len(arts["yara"]), Limit.rows}))
<1> DEFINE row(i) == arts["yara"][i]
           seen == {i \in DOMAIN arts["yara"] : i <= Limit.rows}
           like(i) == {k \in seen : row(k).rule = row(i).rule /\ row(k).plugin = row(i).plugin}
           R == Representatives(arts, seen)
           L(i) == [rule |-> row(i).rule, plugin |-> row(i).plugin, count |-> Cardinality(like(i))]
           lines == YaraLines(arts)
           p == [i \in seen |-> <<row(i).rule, row(i).plugin>>]
           Part(l) == {k \in seen : row(k).rule = l.rule /\ row(k).plugin = l.plugin}
           part == [l \in lines |-> Part(l)]
<1>1. lines = {L(i) : i \in R}
  BY DEF YaraLines
<1>2. DOMAIN arts["yara"] = 1..Len(arts["yara"]) /\ Len(arts["yara"]) \in Nat
      /\ IsFiniteSet(DOMAIN arts["yara"])
  BY RowsFinite DEF Table
<1>3. seen \in SUBSET Nat /\ IsFiniteSet(seen) /\ R \in SUBSET seen /\ IsFiniteSet(R)
  <2>1. seen \in SUBSET (DOMAIN arts["yara"]) /\ R \in SUBSET seen
    BY DEF Representatives
  <2> HIDE DEF seen, R
  <2> QED BY <1>2, <2>1, FS_Subset
<1>4. R = FirstLike(seen, p)
  <2>1. \A i \in seen : p[i] = <<row(i).rule, row(i).plugin>>
    OBVIOUS
  <2>2. R = {i \in seen : \A k \in seen : k < i => <<row(k).rule, row(k).plugin>> # <<row(i).rule, row(i).plugin>>}
    BY DEF Representatives
  <2>3. \A i, k \in seen : k < i <=> ~(i <= k)
    BY <1>3
  <2> HIDE DEF seen, p, R, row
  <2> QED BY <2>1, <2>2, <2>3 DEF FirstLike
<1>5. /\ \A k \in seen : \E i \in R : p[i] = p[k]
      /\ \A i, k \in R : p[i] = p[k] => i = k
  <2> HIDE DEF seen, p, R
  <2> QED BY <1>3, <1>4, FirstOfEach
<1>6. \A i, k \in seen : p[i] = p[k] <=> row(i).rule = row(k).rule /\ row(i).plugin = row(k).plugin
  <2>1. \A i \in seen : p[i] = <<row(i).rule, row(i).plugin>>
    OBVIOUS
  <2> HIDE DEF seen, p, row
  <2> QED BY <2>1
<1>7. IsFiniteSet(lines)
  <2> DEFINE h == [i \in R |-> L(i)]
  <2>1. h = [i \in R |-> h[i]] /\ lines = {h[i] : i \in R}
    BY <1>1
  <2> HIDE DEF h, R, lines
  <2> QED BY <1>3, <2>1, ImageFinite
<1>8. \A i : L(i).rule = row(i).rule /\ L(i).plugin = row(i).plugin /\ Part(L(i)) = like(i)
             /\ L(i).count = Cardinality(like(i))
  OBVIOUS
<1>9. \A l \in lines : part[l] = Part(l)
  OBVIOUS
<1>10. \A l : \A k : k \in Part(l) <=> k \in seen /\ row(k).rule = l.rule /\ row(k).plugin = l.plugin
  OBVIOUS
<1> HIDE DEF part, Part, L, like, R, seen, lines, p, row
<1>11. \A l \in lines : part[l] \subseteq seen /\ l.count = Cardinality(part[l])
  BY <1>1, <1>8, <1>9, <1>10
<1>12. ASSUME NEW l \in lines, NEW m \in lines, l # m PROVE part[l] \cap part[m] = {}
  <2>1. PICK i \in R : l = L(i)
    BY <1>1
  <2>2. PICK k \in R : m = L(k)
    BY <1>1
  <2>3. SUFFICES ASSUME NEW x \in seen, x \in Part(l), x \in Part(m) PROVE FALSE
    BY <1>9, <1>10
  <2>4. row(i).rule = row(k).rule /\ row(i).plugin = row(k).plugin
    BY <1>8, <1>10, <2>1, <2>2, <2>3
  <2>5. i = k
    BY <1>3, <1>5, <1>6, <2>4
  <2> QED BY <1>12, <2>1, <2>2, <2>5
<1>13. ASSUME NEW x \in seen PROVE \E l \in lines : x \in part[l]
  <2>1. PICK i \in R : p[i] = p[x]
    BY <1>5
  <2>2. row(x).rule = L(i).rule /\ row(x).plugin = L(i).plugin
    BY <1>3, <1>6, <1>8, <2>1
  <2>3. L(i) \in lines
    BY <1>1
  <2> QED BY <1>9, <1>10, <2>2, <2>3
<1>14. Counted(lines) = Cardinality(seen)
  BY <1>3, <1>7, <1>11, <1>12, <1>13, CountsAdd
<1>15. Cardinality(seen) = Min({Len(arts["yara"]), Limit.rows})
  <2> DEFINE n == Len(arts["yara"])
             m == Limit.rows
  <2>1. n \in Nat /\ m \in Nat
    BY <1>2, ReportAssumption
  <2>2. {n, m} \in SUBSET Nat /\ {n, m} # {}
    BY <2>1
  <2>3. Min({n, m}) \in {n, m} /\ \A x \in {n, m} : Min({n, m}) <= x
    BY <2>2, LeastMember
  <2> DEFINE least == Min({n, m})
  <2>4. seen = {i \in 1..n : i <= m}
    BY <1>2 DEF seen
  <2> HIDE DEF least
  <2>5. (least = n \/ least = m) /\ least <= n /\ least <= m
    BY <2>3 DEF least
  <2> HIDE DEF n, m
  <2>6. seen = 1..least /\ least \in Nat
    BY <2>1, <2>4, <2>5
  <2>7. Cardinality(1..least) = least
    <3>1. 0 \in Int /\ 1 \in Int /\ least \in Int
      BY <2>6
    <3> QED BY <2>6, <3>1, FS_Interval
  <2> QED BY <2>6, <2>7 DEF least, n, m
<1> QED BY <1>14, <1>15 DEF Accounted, lines

-----------------------------------------------------------------------------
(* The lines of indicators. *)

\* Finitely many finite sets have a finite union.
LEMMA UnionFinite ==
  ASSUME NEW S, IsFiniteSet(S), NEW h, h = [x \in S |-> h[x]], \A x \in S : IsFiniteSet(h[x])
  PROVE  IsFiniteSet(UNION {h[x] : x \in S})
<1>1. IsFiniteSet({h[x] : x \in S})
  BY ImageFinite
<1>2. \A T \in {h[x] : x \in S} : IsFiniteSet(T)
  OBVIOUS
<1> QED BY <1>1, <1>2, FS_UNION

\* One draft, or a few, for each of some rows.
LEMMA TableDrafts ==
  ASSUME NEW arts \in Tables, NEW findings \in SUBSET Findings(arts)
  PROVE  /\ IsFiniteSet(NetworkIocs(arts, findings)) /\ IsFiniteSet(CommandIocs(arts, findings))
         /\ IsFiniteSet(ModuleIocs(arts, findings)) /\ IsFiniteSet(ProcessIocs(arts, findings))
         /\ IsFiniteSet(YaraIocs(arts, findings)) /\ IsFiniteSet(RegionIocs(arts, findings))
<1>1. \A t \in Table : \A S \in SUBSET (DOMAIN arts[t]) : IsFiniteSet(S)
  BY RowsFinite, FS_Subset
<1>2. /\ \A S \in SUBSET (DOMAIN arts["network"]) : IsFiniteSet(S)
      /\ \A S \in SUBSET (DOMAIN arts["command"]) : IsFiniteSet(S)
      /\ \A S \in SUBSET (DOMAIN arts["module"]) : IsFiniteSet(S)
      /\ \A S \in SUBSET (DOMAIN arts["process"]) : IsFiniteSet(S)
      /\ \A S \in SUBSET (DOMAIN arts["yara"]) : IsFiniteSet(S)
      /\ \A S \in SUBSET (DOMAIN arts["memory_region"]) : IsFiniteSet(S)
  <2>1. \A t \in {"network", "command", "module", "process", "yara", "memory_region"} : t \in Table
    BY DEF Table
  <2> QED BY <1>1, <2>1
<1>3. \A x, y : IsFiniteSet({x, y})
  <2> TAKE x, y
  <2>1. IsFiniteSet({x}) /\ IsFiniteSet({y})
    BY FS_Singleton
  <2>2. IsFiniteSet({x} \cup {y})
    BY <2>1, FS_Union
  <2>3. {x, y} = {x} \cup {y}
    OBVIOUS
  <2> QED BY <2>2, <2>3
<1>4. IsFiniteSet(NetworkIocs(arts, findings))
  <2> DEFINE S == DOMAIN arts["network"]
             row(i) == arts["network"][i]
             linked(i) == On(findings, "network", i)
             sure(i) == IF row(i) \in Public
                          THEN ConfidenceFor[WorstSeverity(linked(i), IF row(i) \in Public THEN "medium" ELSE "low")]
                          ELSE Min({ConfidenceFor[WorstSeverity(linked(i), IF row(i) \in Public THEN "medium" ELSE "low")], 40})
             Of(i) == IF row(i) \in Public \/ linked(i) # {} THEN NetworkDrafts(i, row(i), sure(i)) ELSE {}
             h == [i \in S |-> Of(i)]
  <2>1. NetworkIocs(arts, findings) = UNION {Of(i) : i \in S}
    BY DEF NetworkIocs
  <2>2. \A i : IsFiniteSet(Of(i))
    <3>1. ASSUME NEW i, NEW r, NEW c PROVE IsFiniteSet(NetworkDrafts(i, r, c))
      <4> DEFINE Ip  == Draft(i, "ip_address", r.address, "network", c, "threat_ioc")
                 End == Draft(i, "network_endpoint", r.endpoint, "network", c, "threat_ioc")
      <4>1. NetworkDrafts(i, r, c) = {Ip} \cup (IF HasPort(r) THEN {End} ELSE {})
        BY DEF NetworkDrafts
      <4>2. IsFiniteSet({Ip}) /\ IsFiniteSet(IF HasPort(r) THEN {End} ELSE {})
        BY FS_Singleton, FS_EmptySet
      <4> HIDE DEF Ip, End
      <4> QED BY <4>1, <4>2, FS_Union
    <3> HIDE DEF row, linked, sure
    <3> QED BY <3>1, FS_EmptySet
  <2> HIDE DEF Of
  <2>3. h = [i \in S |-> h[i]] /\ {Of(i) : i \in S} = {h[i] : i \in S} /\ \A i \in S : h[i] = Of(i)
    OBVIOUS
  <2>4. IsFiniteSet(S)
    BY <1>2
  <2> HIDE DEF h, S
  <2> QED BY <2>1, <2>2, <2>3, <2>4, UnionFinite
<1>5. IsFiniteSet(CommandIocs(arts, findings))
  <2> DEFINE S == {k \in DOMAIN arts["command"] :
                     arts["command"][k] \in ListedCommand \/ On(findings, "command", k) # {}}
             sure(i) == ConfidenceFor[WorstSeverity(On(findings, "command", i),
                          IF arts["command"][i] \in ListedCommand THEN "high" ELSE "medium")]
             h == [i \in S |-> Draft(i, "command_line", arts["command"][i].text, "command", sure(i), "threat_ioc")]
  <2>1. CommandIocs(arts, findings) = {h[i] : i \in S} /\ h = [i \in S |-> h[i]]
    BY DEF CommandIocs
  <2>2. IsFiniteSet(S)
    BY <1>2
  <2> HIDE DEF h, S
  <2> QED BY <2>1, <2>2, ImageFinite
<1>6. IsFiniteSet(ModuleIocs(arts, findings))
  <2> DEFINE S == {k \in DOMAIN arts["module"] :
                     \/ On(findings, "module", k) # {}
                     \/ arts["module"][k] \in ListedModule \ Microsoft}
             h == [i \in S |-> Draft(i, "module_path", arts["module"][i].path, "module",
                                     ConfidenceFor[WorstSeverity(On(findings, "module", i), "medium")],
                                     IF arts["module"][i] \in Microsoft
                                       THEN "investigation_artifact" ELSE "threat_ioc")]
  <2>1. ModuleIocs(arts, findings) = {h[i] : i \in S} /\ h = [i \in S |-> h[i]]
    BY DEF ModuleIocs
  <2>2. IsFiniteSet(S)
    BY <1>2
  <2> HIDE DEF h, S
  <2> QED BY <2>1, <2>2, ImageFinite
<1>7. IsFiniteSet(ProcessIocs(arts, findings))
  <2> DEFINE S == {k \in DOMAIN arts["process"] :
                     NotedProcess(arts["process"][k], On(findings, "process", k))}
             row(i) == arts["process"][i]
             linked(i) == On(findings, "process", i)
             sure(i) == ConfidenceFor[WorstSeverity(linked(i), "medium")]
             As(i, type, value, c) == Draft(i, type, value, row(i).plugin, c, "investigation_artifact")
             Name(i) == {As(i, "process_name", "name", sure(i))}
             Pid(i) == IF linked(i) = {} THEN {} ELSE {As(i, "pid", "pid", Min({sure(i), 70}))}
             Path(i) == IF row(i).path = "none" THEN {} ELSE {As(i, "file_path", row(i).path, sure(i))}
             Of(i) == Name(i) \cup Pid(i) \cup Path(i)
             h == [i \in S |-> Of(i)]
  <2>1. ProcessIocs(arts, findings) = UNION {Of(i) : i \in S}
    BY DEF ProcessIocs
  <2>2. \A i : IsFiniteSet(Of(i))
    <3> TAKE i
    <3>1. IsFiniteSet(Name(i))
      BY FS_Singleton
    <3>2. IsFiniteSet(Pid(i))
      <4> HIDE DEF As, sure, linked
      <4> QED BY FS_Singleton, FS_EmptySet
    <3>3. IsFiniteSet(Path(i))
      <4> HIDE DEF As, sure, row
      <4> QED BY FS_Singleton, FS_EmptySet
    <3> HIDE DEF Name, Pid, Path
    <3>4. IsFiniteSet(Name(i) \cup Pid(i))
      BY <3>1, <3>2, FS_Union
    <3> QED BY <3>3, <3>4, FS_Union
  <2> HIDE DEF Of
  <2>3. h = [i \in S |-> h[i]] /\ {Of(i) : i \in S} = {h[i] : i \in S} /\ \A i \in S : h[i] = Of(i)
    OBVIOUS
  <2>4. IsFiniteSet(S)
    BY <1>2
  <2> HIDE DEF h, S
  <2> QED BY <2>1, <2>2, <2>3, <2>4, UnionFinite
<1>8. IsFiniteSet(YaraIocs(arts, findings))
  <2> DEFINE S == DOMAIN arts["yara"]
             declared(i) == Metadata[arts["yara"][i].rule].severity
             sure(i) == ConfidenceFor[IF declared(i) = "none" THEN "high" ELSE declared(i)]
             role(i) == YaraRole(arts, arts["yara"][i].rule, On(findings, "yara", i))
             h == [i \in S |-> Draft(i, "yara_rule", arts["yara"][i].rule, arts["yara"][i].plugin,
                                     IF role(i) = "threat_ioc" THEN sure(i) ELSE Min({sure(i), 55}), role(i))]
  <2>1. YaraIocs(arts, findings) = {h[i] : i \in S} /\ h = [i \in S |-> h[i]]
    BY Zenon DEF YaraIocs
  <2>2. IsFiniteSet(S)
    BY <1>2
  <2> HIDE DEF h, S
  <2> QED BY <2>1, <2>2, ImageFinite
<1>9. IsFiniteSet(RegionIocs(arts, findings))
  <2> DEFINE S == {k \in DOMAIN arts["memory_region"] :
                     \/ MalfindRow(arts["memory_region"][k])
                     \/ On(findings, "memory_region", k) # {}}
             region(i) == arts["memory_region"][i]
             sure(i) == ConfidenceFor[WorstSeverity(On(findings, "memory_region", i),
                                                    IF MalfindRow(region(i)) THEN "high" ELSE "medium")]
             h == [i \in S |-> Draft(i, "memory_region", region(i).range, region(i).plugin,
                                     IF region(i).plugin \in VadContextPlugins
                                       THEN Min({sure(i), ConfidenceFor["medium"]}) ELSE sure(i),
                                     "investigation_artifact")]
  <2>1. RegionIocs(arts, findings) = {h[i] : i \in S} /\ h = [i \in S |-> h[i]]
    BY DEF RegionIocs
  <2>2. IsFiniteSet(S)
    BY <1>2
  <2> HIDE DEF h, S
  <2> QED BY <2>1, <2>2, ImageFinite
<1> QED BY <1>4, <1>5, <1>6, <1>7, <1>8, <1>9

LEMMA ReferencesFinite ==
  ASSUME NEW arts \in Tables, NEW findings \in SUBSET Findings(arts)
  PROVE  IsFiniteSet(PluginReferences(arts, findings))
<1> DEFINE J == JobSummaries(arts)
           P == ContextPlugins(arts)
           h == [f \in findings |-> Reference(f.place[2], PluginOf(arts, f), SeverityOf(f))]
           k == [i \in J |-> Reference(i, arts["yara"][i].plugin,
                                       YaraSeverity(Metadata[arts["yara"][i].rule], FALSE))]
           m == [plugin \in P |-> Reference(0, plugin, "medium")]
<1>1. PluginReferences(arts, findings)
        = {h[f] : f \in findings} \cup {k[i] : i \in J} \cup {m[plugin] : plugin \in P}
  BY DEF PluginReferences
<1>2. h = [f \in findings |-> h[f]] /\ k = [i \in J |-> k[i]] /\ m = [plugin \in P |-> m[plugin]]
  OBVIOUS
<1>3. IsFiniteSet(findings)
  BY FindingsFinite, FS_Subset
<1>4. IsFiniteSet(J)
  <2>1. J \in SUBSET (DOMAIN arts["yara"])
    BY DEF JobSummaries
  <2>2. IsFiniteSet(DOMAIN arts["yara"])
    BY RowsFinite DEF Table
  <2> HIDE DEF J
  <2> QED BY <2>1, <2>2, FS_Subset
<1>5. IsFiniteSet(P)
  BY ContextFinite
<1> HIDE DEF h, k, m, J, P
<1>6. IsFiniteSet({h[f] : f \in findings})
  BY <1>2, <1>3, ImageFinite
<1>7. IsFiniteSet({k[i] : i \in J})
  BY <1>2, <1>4, ImageFinite
<1>8. IsFiniteSet({m[plugin] : plugin \in P})
  BY <1>2, <1>5, ImageFinite
<1> DEFINE X == {h[f] : f \in findings}
           Y == {k[i] : i \in J}
           Z == {m[plugin] : plugin \in P}
<1>9. PluginReferences(arts, findings) = X \cup Y \cup Z
      /\ IsFiniteSet(X) /\ IsFiniteSet(Y) /\ IsFiniteSet(Z)
  BY <1>1, <1>6, <1>7, <1>8
<1> HIDE DEF X, Y, Z
<1>10. IsFiniteSet(X \cup Y)
  BY <1>9, FS_Union
<1> QED BY <1>9, <1>10, FS_Union

\* The export is finite.
LEMMA ExportFinite ==
  ASSUME NEW arts \in Tables
  PROVE  IsFiniteSet(Exported(arts)) /\ \A ioc \in Exported(arts) : ioc.role \in Roles
<1> DEFINE findings == Reported(arts)
           drafts == DraftsOf(arts, findings)
           D == {x \in drafts : \A e \in drafts : Key(e) = Key(x) => Preferred(x, e)}
           h == [d \in D |-> Record(d)]
<1>1. findings \in SUBSET Findings(arts)
  BY DEF Reported, Told
<1>2. IsFiniteSet(drafts)
  <2> HIDE DEF findings
  <2> DEFINE a == NetworkIocs(arts, findings)
             b == CommandIocs(arts, findings)
             c == ModuleIocs(arts, findings)
             d == ProcessIocs(arts, findings)
             e == YaraIocs(arts, findings)
             f == RegionIocs(arts, findings)
             g == PluginReferences(arts, findings)
  <2>1. drafts = a \cup b \cup c \cup d \cup e \cup f \cup g
    BY DEF DraftsOf
  <2>2. /\ IsFiniteSet(a) /\ IsFiniteSet(b) /\ IsFiniteSet(c) /\ IsFiniteSet(d)
        /\ IsFiniteSet(e) /\ IsFiniteSet(f) /\ IsFiniteSet(g)
    BY <1>1, TableDrafts, ReferencesFinite
  <2> HIDE DEF a, b, c, d, e, f, g
  <2>3. IsFiniteSet(a \cup b)
    BY <2>2, FS_Union
  <2>4. IsFiniteSet(a \cup b \cup c)
    BY <2>2, <2>3, FS_Union
  <2>5. IsFiniteSet(a \cup b \cup c \cup d)
    BY <2>2, <2>4, FS_Union
  <2>6. IsFiniteSet(a \cup b \cup c \cup d \cup e)
    BY <2>2, <2>5, FS_Union
  <2>7. IsFiniteSet(a \cup b \cup c \cup d \cup e \cup f)
    BY <2>2, <2>6, FS_Union
  <2> QED BY <2>1, <2>2, <2>7, FS_Union
<1>3. Exported(arts) = {h[d] : d \in D} /\ h = [d \in D |-> h[d]] /\ D \in SUBSET drafts
  BY ExportForm DEF Exported, Deduplicated
<1>4. \A d \in drafts : d.role \in Roles
  BY DraftRoles
<1>5. \A d \in D : h[d].role = d.role
  BY DEF Record
<1> HIDE DEF h, D, drafts
<1>6. IsFiniteSet(D)
  BY <1>2, <1>3, FS_Subset
<1>7. IsFiniteSet({h[d] : d \in D})
  BY <1>3, <1>6, ImageFinite
<1> QED BY <1>3, <1>4, <1>5, <1>7

\* Each type has a line of its own.
LEMMA TypesAccounted ==
  ASSUME NEW iocs, IsFiniteSet(iocs), NEW roles
  PROVE  Counted(IocLines(iocs, roles)) = Cardinality({ioc \in iocs : ioc.role \in roles})
<1> DEFINE wanted == {ioc \in iocs : ioc.role \in roles}
           like(type) == {ioc \in wanted : ioc.type = type}
           types == {ioc.type : ioc \in wanted}
           L(type) == [type |-> type, count |-> Cardinality(like(type)),
                       lowest |-> Min({ioc.confidence : ioc \in like(type)}),
                       highest |-> Max({ioc.confidence : ioc \in like(type)})]
           lines == IocLines(iocs, roles)
           part == [l \in lines |-> like(l.type)]
<1>1. lines = {L(type) : type \in types}
  BY DEF IocLines
<1>2. IsFiniteSet(wanted)
  <2>1. wanted \in SUBSET iocs
    OBVIOUS
  <2> HIDE DEF wanted
  <2> QED BY <2>1, FS_Subset
<1>3. IsFiniteSet(types)
  <2> DEFINE h == [ioc \in wanted |-> ioc.type]
  <2>1. h = [ioc \in wanted |-> h[ioc]] /\ types = {h[ioc] : ioc \in wanted}
    OBVIOUS
  <2> HIDE DEF h, wanted, types
  <2> QED BY <1>2, <2>1, ImageFinite
<1>4. IsFiniteSet(lines)
  <2> DEFINE h == [type \in types |-> L(type)]
  <2>1. h = [type \in types |-> h[type]] /\ lines = {h[type] : type \in types}
    BY <1>1
  <2> HIDE DEF h, lines, types
  <2> QED BY <1>3, <2>1, ImageFinite
<1>5. \A type : L(type).type = type /\ L(type).count = Cardinality(like(type))
  OBVIOUS
<1>6. \A l \in lines : part[l] = like(l.type)
  OBVIOUS
<1>7. \A type : \A ioc : ioc \in like(type) <=> ioc \in wanted /\ ioc.type = type
  OBVIOUS
<1>8. \A ioc \in wanted : ioc.type \in types
  OBVIOUS
<1> HIDE DEF part, like, L, lines, types, wanted
<1>9. \A l \in lines : part[l] \subseteq wanted /\ l.count = Cardinality(part[l])
  BY <1>1, <1>5, <1>6, <1>7
<1>10. \A l, m \in lines : l # m => part[l] \cap part[m] = {}
  BY <1>1, <1>5, <1>6, <1>7
<1>11. \A x \in wanted : \E l \in lines : x \in part[l]
  BY <1>1, <1>5, <1>6, <1>7, <1>8
<1>12. Counted(lines) = Cardinality(wanted)
  BY <1>2, <1>4, <1>9, <1>10, <1>11, CountsAdd
<1> QED BY <1>12 DEF lines, wanted

\* Indicators are threats or context.
LEMMA RolesAccounted ==
  ASSUME NEW arts \in Tables
  PROVE  Counted(IocLines(Exported(arts), Threats)) + Counted(IocLines(Exported(arts), Contexts))
           = Cardinality(Exported(arts))
<1> DEFINE E == Exported(arts)
           T == {ioc \in E : ioc.role \in Threats}
           C == {ioc \in E : ioc.role \in Contexts}
<1>1. IsFiniteSet(E) /\ \A ioc \in E : ioc.role \in Roles
  BY ExportFinite
<1>2. T \in SUBSET E /\ C = E \ T
  <2> HIDE DEF E
  <2> QED BY <1>1 DEF Roles, Threats, Contexts
<1>3. Counted(IocLines(E, Threats)) = Cardinality(T) /\ Counted(IocLines(E, Contexts)) = Cardinality(C)
  <2> HIDE DEF E
  <2> QED BY <1>1, TypesAccounted
<1> HIDE DEF E, T, C
<1>4. /\ Cardinality(E) = Cardinality(T) + Cardinality(E \ T)
      /\ Cardinality(T) \in Nat /\ Cardinality(E \ T) \in Nat
  BY <1>1, <1>2, Parted
<1>5. Cardinality(C) = Cardinality(E \ T)
  BY <1>2
<1> QED BY <1>3, <1>4, <1>5 DEF E

\* The sections count every row, match, indicator and finding they are about, those that
\* similar ones stand for or a limit leaves out included, and no limit takes away what a
\* finding is about while it keeps what none is about; connections are linked by their
\* ends, which read like nothing else in the export.
THEOREM SectionsAccount == Spec => []SectionsKeepEvidence
<1>1. TypeOK => SectionsKeepEvidence
  <2> SUFFICES ASSUME TypeOK, summary # Pending
               PROVE  Keeps(Reported(artifacts), ExportOf(artifacts, Reported(artifacts)))
    BY DEF SectionsKeepEvidence
  <2>1. PICK arts : arts = artifacts
    OBVIOUS
  <2>2. arts \in Tables
    BY <2>1 DEF TypeOK, Tables
  <2> DEFINE findings == Reported(arts)
             iocs == Exported(arts)
             linked == LinkedConnections(arts, findings, iocs)
             rows == arts["network"]
  <2>3. ASSUME NEW others \in {{}, Others}
        PROVE  KeepsFindings(RiskFindings(arts, findings, summary, others))
    <3>1. findings \in SUBSET Findings(arts)
      BY DEF Reported, Told
    <3>2. IsFiniteSet(others)
      BY ReportAssumption, FS_EmptySet
    <3>3. IsFiniteSet(RiskFindings(arts, findings, summary, others))
      <4> HIDE DEF findings
      <4> QED BY <2>2, <3>1, <3>2, RiskRowsFinite
    <3> QED BY <3>3, FindingsAccounted
  <2>4. KeepsConnections(NetworkLines(artifacts["network"], linked))
    <3>1. Scored(rows, linked)
      <4>1. linked = Rows(arts, "network", Public)
        BY <2>2, LinkedArePublic
      <4> QED BY <2>2, <4>1, ConnectionScores
    <3>2. Cardinality(DOMAIN rows) = Len(rows)
      <4>1. DOMAIN rows = 1..Len(rows) /\ Len(rows) \in Nat
        BY <2>2, RowsFinite DEF Table
      <4> DEFINE n == Len(rows)
      <4>2. n \in Nat
        BY <4>1
      <4> HIDE DEF n
      <4>3. Cardinality(1..n) = n
        BY <4>2, FS_Interval
      <4> QED BY <4>1, <4>3 DEF n
    <3> HIDE DEF rows, linked
    <3>3. Counted(NetworkLines(rows, linked)) = Len(rows) /\ LinkedKept(NetworkLines(rows, linked))
      BY <3>1, <3>2, ConnectionsAccounted, ConnectionsKept
    <3>4. rows = artifacts["network"]
      BY <2>1 DEF rows
    <3> QED BY <3>3, <3>4 DEF KeepsConnections, Accounted
  <2>5. KeepsModules(findings, ModuleLines(arts, findings))
    <3>1. Accounted(ModuleLines(arts, findings), Cardinality(SelectedModules(arts, findings)))
      BY <2>2, ModulesAccounted
    <3>2. LinkedKept(ModuleLines(arts, findings))
      BY <2>2, ModulesKept
    <3> QED BY <2>1, <3>1, <3>2 DEF KeepsModules
  <2>6. Accounted(YaraLines(arts), Min({Len(arts["yara"]), Limit.rows}))
    BY <2>2, MatchesAccounted
  <2>7. Counted(IocLines(iocs, Threats)) + Counted(IocLines(iocs, Contexts)) = Cardinality(iocs)
    BY <2>2, RolesAccounted
  <2>8. ExportOf(artifacts, Reported(artifacts)) = iocs /\ Reported(artifacts) = findings
    BY <2>1 DEF Exported
  <2> HIDE DEF findings, iocs
  <2> QED BY <2>1, <2>3, <2>4, <2>5, <2>6, <2>7, <2>8 DEF Keeps
<1> QED BY <1>1, RiskTypeCorrect, PTL DEF Spec

-----------------------------------------------------------------------------
(* The reasons for advice. *)

\* Finitely many scores have a bound.
LEMMA BoundExists ==
  ASSUME NEW S, IsFiniteSet(S), \A f \in S : f.score \in Nat
  PROVE  \E top \in Nat : \A f \in S : f.score \in 0..top
<1> DEFINE Bound(s, n) == n \in Nat /\ \A f \in s : f.score <= n
           Bad == {s \in SUBSET S : \A n : ~Bound(s, n)}
<1>1. S \notin Bad
  <2>1. SUFFICES ASSUME Bad # {} PROVE FALSE
    OBVIOUS
  <2>2. PICK s \in Bad : \A r \in Bad : Cardinality(s) <= Cardinality(r)
    <3>1. Bad \in SUBSET (SUBSET S)
      OBVIOUS
    <3> HIDE DEF Bad
    <3> QED BY <2>1, <3>1, SmallestSet
  <2>3. s \in SUBSET S /\ \A n : ~Bound(s, n)
    OBVIOUS
  <2>4. s # {}
    <3>1. Bound({}, 0)
      OBVIOUS
    <3> QED BY <2>3, <3>1
  <2> DEFINE x == Taken(s)
             r == s \ {Taken(s)}
  <2>5. x \in s /\ r \in SUBSET S /\ Cardinality(r) = Cardinality(s) - 1 /\ Cardinality(s) \in Nat
    BY <2>3, <2>4, LessByOne
  <2>6. r \notin Bad
    <3>1. ~(Cardinality(s) <= Cardinality(r))
      BY <2>5
    <3> HIDE DEF r, Bad
    <3> QED BY <2>2, <3>1
  <2>7. PICK n : Bound(r, n)
    BY <2>5, <2>6
  <2>8. x.score \in Nat /\ n \in Nat
    BY <2>3, <2>5, <2>7
  <2>9. \A f \in s : f = x \/ f \in r
    OBVIOUS
  <2>10. \A f \in r : f.score <= n /\ f.score \in Nat
    BY <2>5, <2>7
  <2> HIDE DEF x, r
  <2>11. Bound(s, x.score + n)
    BY <2>8, <2>9, <2>10
  <2> QED BY <2>3, <2>11
<1>2. PICK n : Bound(S, n)
  BY <1>1
<1> QED BY <1>2

\* The first of the candidates is displayed, and is as grave as any.
LEMMA GravestShown ==
  ASSUME NEW rows, IsFiniteSet(Candidates(rows)),
         \A f \in Candidates(rows) : f.severity \in Levels /\ f.score \in Nat /\ f.place \in Place,
         NEW f \in Candidates(rows), f.severity \in Alarming
  PROVE  HighOrCritical(TopFindings(rows)) # {}
<1> DEFINE C == Candidates(rows)
<1>1. PICK top \in Nat : \A g \in C : g.score \in 0..top
  BY BoundExists
<1>2. PICK w \in C : \A g \in C : ~Outranks(g, w)
  <2> HIDE DEF C
  <2>1. C # {} /\ \A g \in C : g.severity \in Levels /\ g.score \in 0..top /\ g.place \in Place
    BY <1>1 DEF C
  <2> QED BY <2>1, WorstExists
<1> HIDE DEF C
<1>3. w \in Foremost(C)
  BY <1>2 DEF Foremost
<1>4. {g \in Foremost(C) : Outranks(g, w)} = {}
  BY <1>2 DEF Foremost
<1>5. w \in FirstFindings(Foremost(C), Limit.findings)
  <2>1. Cardinality({g \in Foremost(C) : Outranks(g, w)}) = 0
    BY <1>4, FS_EmptySet
  <2>2. 0 < Limit.findings
    BY ReportAssumption
  <2> QED BY <1>3, <2>1, <2>2 DEF FirstFindings
<1>6. w \in TopFindings(rows)
  BY <1>5 DEF TopFindings, C
<1>7. w.severity \in Alarming
  <2>1. ~(Rank[f.severity] > Rank[w.severity])
    BY <1>2 DEF Outranks, C
  <2>2. w.severity \in Levels
    BY <1>2 DEF C
  <2> QED BY <2>1, <2>2 DEF Rank, Levels, Alarming
<1> QED BY <1>6, <1>7 DEF HighOrCritical

\* A grave finding counts in a group that no cap is about, or is a match.
LEMMA GraveGroups ==
  ASSUME NEW arts \in Tables, NEW u \in Findings(arts), u.score >= 8
  PROVE  \E g \in u.groups : g \notin {"network_endpoint", "suspicious_module", "module_context"}
<1>1. RowFinding(u) \/ ModuleFinding(u) \/ MatchFinding(u, 7, HasRegions(arts))
        \/ MatchFinding(u, 14, FALSE)
  BY FindingForm
<1>2. CASE RowFinding(u)
  <2>1. u.place[1] \notin {9, 10}
    <3>1. u.score \in 0..13
      BY FindingRange DEF Ranged
    <3>2. u.place[1] \in {9, 10} => u.score = 5
      BY <1>2, RuleTable DEF RowFinding
    <3> QED BY <3>1, <3>2
  <2>2. u.place[1] \in {1, 2, 3, 4, 5, 8, 11, 12, 13}
    BY <1>2, <2>1 DEF RowFinding
  <2> QED BY <1>2, <2>2, RuleTable DEF RowFinding
<1>3. CASE ModuleFinding(u)
  <2>1. "memory_region" \in u.groups
    BY <1>3 DEF ModuleFinding
  <2> QED BY <2>1
<1>4. ASSUME NEW rank, NEW correlated, MatchFinding(u, rank, correlated)
      PROVE  \E g \in u.groups : g \notin {"network_endpoint", "suspicious_module", "module_context"}
  <2>1. u.groups = {"yara_match"}
    BY <1>4 DEF MatchFinding, Alike, YaraFinding
  <2> QED BY <2>1
<1> QED BY <1>1, <1>2, <1>3, <1>4

\* The component that a grave finding leads to is grave.
LEMMA GraveComponent ==
  ASSUME NEW arts \in Tables, NEW c \in Findings(arts), c.score >= 8
  PROVE  \E u \in Unique(Findings(arts)) : u.score >= 8
<1> DEFINE S == {h \in Findings(arts) : h.key = c.key}
<1>1. PICK v \in S : \A h \in S : ~Before(h, v)
  <2>1. c \in S /\ \A h \in S : h.place \in Place
    BY FindingPlaces
  <2> HIDE DEF S
  <2> QED BY <2>1, LeastPlace
<1>2. v \in Unique(Findings(arts)) /\ v \in Findings(arts) /\ v.key = c.key
  BY <1>1 DEF Unique
<1>3. v.place[1] <= c.place[1] /\ v.place[1] \in Nat /\ c.place[1] \in Nat
  <2>1. ~Before(c, v) /\ c.place \in Place /\ v.place \in Place
    BY <1>1, <1>2, FindingPlaces
  <2> QED BY <2>1 DEF Before, Place
<1>4. Ranged(c) /\ Ranged(v)
  BY <1>2, FindingRange
<1>5. v.score >= c.score
  <2>1. CASE v.place[1] = c.place[1]
    <3>1. Alike(v, c)
      BY <1>2, <2>1, FindingsRegular DEF Regular, Determined
    <3> QED BY <1>4, <3>1 DEF Alike, Ranged
  <2>2. CASE v.place[1] # c.place[1]
    <3>1. v.place[1] = 7 /\ c.place[1] = 14
      BY <1>2, <1>3, <1>4, <2>2 DEF Ranged
    <3>2. Dominates(v, c)
      BY <1>2, <3>1, EarlierMatch
    <3> QED BY <1>4, <3>2 DEF Dominates, Ranged
  <2> QED BY <2>1, <2>2
<1>6. v.score \in 0..13 /\ c.score \in 0..13
  BY <1>4 DEF Ranged
<1> QED BY <1>2, <1>5, <1>6

\* What a grave component adds to its group is in the score of the summary.
LEMMA GraveScore ==
  ASSUME NEW D, Components(D), NEW u \in D, u.score >= 8,
         NEW g \in u.groups, g \notin {"network_endpoint", "suspicious_module", "module_context"},
         EvidenceGroups(D) # {"yara_match"}
  PROVE  /\ Capped(SumFunction(GroupScore(D)), EvidenceGroups(D)) \in Nat
         /\ Capped(SumFunction(GroupScore(D)), EvidenceGroups(D)) >= 8
<1> DEFINE H == EvidenceGroups(D)
           h == GroupScore(D)
           f == [x \in {g} |-> u.score]
<1>1. h = [x \in H |-> BestScore(D, x)]
  BY DEF GroupScore, BestScore
<1>2. \A x \in H : BestScore(D, x) \in Nat
  <2>1. \A v \in D : Dominates(v, v)
    BY DEF Components, Dominates
  <2> QED BY <2>1, BestScoreGrows DEF Components
<1>3. IsFiniteSet(H)
  <2>1. H \subseteq EvidenceGroup
    BY DEF EvidenceGroups, Components
  <2> QED BY <2>1, GroupsFinite, FS_Subset
<1>4. g \in H
  BY DEF EvidenceGroups
<1>5. u.score \in Nat /\ u.score \in 0..13
  BY DEF Components
<1>6. u.score <= BestScore(D, g)
  <2> DEFINE T == {v.score : v \in {c \in D : g \in c.groups}}
  <2>1. T \in SUBSET (0..13) /\ u.score \in T
    BY DEF Components
  <2>2. BestScore(D, g) = Max(T)
    BY DEF BestScore
  <2> HIDE DEF T
  <2> QED BY <2>1, <2>2, GreatestNumber
<1>7. SumFunction(f) = u.score
  <2>1. DOMAIN f = {g} /\ f[g] = u.score /\ f[g] \in Int
    BY <1>5
  <2> HIDE DEF f
  <2> QED BY <2>1, SumOfOne
<1>8. SumFunction(h) \in Nat /\ SumFunction(f) <= SumFunction(h)
  <2>1. DOMAIN h = H /\ \A x \in DOMAIN h : h[x] \in Nat
    <3> HIDE DEF H, h
    <3> QED BY <1>1, <1>2
  <2>2. DOMAIN f = {g} /\ f[g] = u.score
    OBVIOUS
  <2>3. h[g] = BestScore(D, g)
    <3> HIDE DEF H, h
    <3> QED BY <1>1, <1>4
  <2>4. \A x \in DOMAIN f : f[x] \in Nat /\ f[x] <= h[x]
    <3> HIDE DEF f, h
    <3> QED BY <1>5, <1>6, <2>2, <2>3
  <2> HIDE DEF f, h, H
  <2> QED BY <1>3, <1>4, <2>1, <2>2, <2>4, SumGrows
<1>9. Capped(SumFunction(h), H) = SumFunction(h)
  <2>1. /\ H \notin {{"yara_match"}, {"network_endpoint"}, {"suspicious_module"}}
        /\ ~(H \subseteq {"module_context"})
        /\ ~(H \subseteq {"suspicious_module", "module_context"})
    <3> HIDE DEF H
    <3>1. H # {"yara_match"}
      BY DEF H
    <3> QED BY <1>4, <3>1
  <2> HIDE DEF H, h
  <2> QED BY <2>1 DEF Capped
<1> DEFINE t == SumFunction(h)
<1>10. t \in Nat /\ t >= 8
  <2>1. t \in Nat /\ u.score <= t
    <3> HIDE DEF f, h
    <3> QED BY <1>7, <1>8
  <2> HIDE DEF t
  <2> QED BY <1>5, <2>1
<1> HIDE DEF h, H, f
<1> QED BY <1>9, <1>10 DEF h, H

\* The summary of a process with a grave finding is grave, unless it takes its components
\* for context or for matches alone, or is cut before a grave one.
LEMMA RisenSummary ==
  ASSUME NEW arts \in Tables, NEW c \in Findings(arts), c.score >= 8,
         ProcessSummary(arts) # NoSummary, ProcessSummary(arts).groups # {"yara_match"},
         ProcessSummary(arts).confidence # "context_only",
         \A f \in CutOff(arts) : SeverityOf(f) \notin Alarming
  PROVE  ProcessSummary(arts).severity \in Alarming
<1> DEFINE U == Unique(Findings(arts))
           D == Selected(U)
           H == EvidenceGroups(D)
           score == Capped(SumFunction(GroupScore(D)), H)
<1>1. ProcessSummary(arts) = Rated(D)
  BY DEF ProcessSummary
<1>2. PICK u \in U : u.score >= 8
  BY GraveComponent
<1>3. U \subseteq Findings(arts) /\ D \subseteq U
  BY DEF Unique, Selected
<1>4. Components(D)
  <2> HIDE DEF D, U
  <2> QED BY <1>3, FindingRange DEF Ranged, Components
<1>5. u \in D
  <2>1. u.score \in 0..13
    <3> HIDE DEF U
    <3> QED BY <1>3, FindingRange DEF Ranged
  <2>2. SeverityOf(u) \in Alarming
    BY <1>2, <2>1 DEF SeverityOf, Level, Alarming
  <2>3. CutOff(arts) = U \ D
    BY DEF CutOff
  <2> HIDE DEF U, D
  <2> QED BY <1>2, <2>2, <2>3
<1>6. PICK g \in u.groups : g \notin {"network_endpoint", "suspicious_module", "module_context"}
  <2> HIDE DEF U
  <2> QED BY <1>2, <1>3, GraveGroups
<1>7. H # {"yara_match"}
  <2>1. Rated(D).groups = H
    BY DEF Rated
  <2> HIDE DEF D, H
  <2> QED BY <1>1, <2>1
<1>8. score \in Nat /\ score >= 8
  <2> HIDE DEF D
  <2> QED BY <1>2, <1>4, <1>5, <1>6, <1>7, GraveScore
<1>9. Rated(D).severity = SummarySeverity(D, H, score)
      /\ Rated(D).confidence = Confidence(D, H, SummarySeverity(D, H, score))
  BY DEF Rated
<1> HIDE DEF D, H, score
<1>10. ~ContextOnly(D, H)
  BY <1>1, <1>9 DEF Confidence
<1>11. Level(score) \in Alarming
  BY <1>8 DEF Level, Alarming
<1>12. SummarySeverity(D, H, score) \in Alarming
  BY <1>10, <1>11 DEF SummarySeverity, Alarming
<1> QED BY <1>1, <1>9, <1>12

\* What is reported for the job as a whole is no alarm.
LEMMA JobQuiet ==
  ASSUME NEW arts \in Tables, NEW f \in OfJob(arts)
  PROVE  /\ f.severity \in {"low", "medium"} /\ f.score \in Nat /\ f.place \in Place
         /\ f.process = "none" /\ f.rule \in 14..17
<1>1. CASE \E i \in Representatives(arts, JobSummaries(arts)) :
             f = FindingRow(14, "none", YaraSeverity(Metadata[arts["yara"][i].rule], FALSE),
                            SeverityScore[YaraSeverity(Metadata[arts["yara"][i].rule], FALSE)],
                            {}, <<14, i, 0>>)
  <2>1. PICK i \in Representatives(arts, JobSummaries(arts)) :
             f = FindingRow(14, "none", YaraSeverity(Metadata[arts["yara"][i].rule], FALSE),
                            SeverityScore[YaraSeverity(Metadata[arts["yara"][i].rule], FALSE)],
                            {}, <<14, i, 0>>)
    BY <1>1
  <2>2. i \in DOMAIN arts["yara"] /\ JobSummaryOnly(Metadata[arts["yara"][i].rule], FALSE)
    BY DEF Representatives, JobSummaries
  <2>3. i \in Nat
    BY <2>2, RowsFinite DEF Table
  <2> DEFINE m == Metadata[arts["yara"][i].rule]
  <2>4. m \in YaraMetadata
    BY <2>2, MatchMetadata
  <2> HIDE DEF m
  <2>5. JobSummaryOnly(m, FALSE) => YaraSeverity(m, FALSE) \in {"low", "medium"}
    BY <2>4 DEF YaraMetadata, JobSummaryOnly, HighConfidence, YaraSeverity, Lowered, Alarming
  <2>6. YaraSeverity(m, FALSE) \in {"low", "medium"}
    BY <2>2, <2>5 DEF m
  <2>7. SeverityScore[YaraSeverity(m, FALSE)] \in Nat
    <3>1. \A severity \in {"low", "medium"} : SeverityScore[severity] \in Nat
      BY DEF SeverityScore
    <3> QED BY <2>6, <3>1
  <2>8. f.severity = YaraSeverity(m, FALSE) /\ f.score = SeverityScore[YaraSeverity(m, FALSE)]
        /\ f.place = <<14, i, 0>> /\ f.process = "none" /\ f.rule = 14
    BY <2>1 DEF FindingRow, m
  <2>9. f.place \in Place
    BY <2>3, <2>8 DEF Place
  <2>10. f.rule \in 14..17
    BY <2>8
  <2> QED BY <2>6, <2>7, <2>8, <2>9, <2>10
<1>2. CASE \E plugin \in ContextPlugins(arts) :
             f = FindingRow(ContextRule(plugin), "none", "medium", 5, {}, <<ContextRule(plugin), 0, 0>>)
  <2>1. \A plugin : ContextRule(plugin) \in 15..17
    BY DEF ContextRule
  <2>2. PICK plugin \in ContextPlugins(arts) :
             f = FindingRow(ContextRule(plugin), "none", "medium", 5, {}, <<ContextRule(plugin), 0, 0>>)
    BY <1>2
  <2>3. f.severity = "medium" /\ f.score = 5 /\ f.place = <<ContextRule(plugin), 0, 0>>
        /\ f.process = "none" /\ f.rule = ContextRule(plugin)
    BY <2>2 DEF FindingRow
  <2>4. ContextRule(plugin) \in 15..17
    BY <2>1
  <2> QED BY <2>3, <2>4 DEF Place
<1>3. \/ \E i \in Representatives(arts, JobSummaries(arts)) :
             f = FindingRow(14, "none", YaraSeverity(Metadata[arts["yara"][i].rule], FALSE),
                            SeverityScore[YaraSeverity(Metadata[arts["yara"][i].rule], FALSE)],
                            {}, <<14, i, 0>>)
      \/ \E plugin \in ContextPlugins(arts) :
             f = FindingRow(ContextRule(plugin), "none", "medium", 5, {}, <<ContextRule(plugin), 0, 0>>)
  <2> HIDE DEF FindingRow
  <2> QED BY DEF OfJob
<1> QED BY <1>1, <1>2, <1>3

\* The rows that the report reads have severities, scores and places.
RowTyped(f) == f.severity \in Levels /\ f.score \in Nat /\ f.place \in Place

LEMMA RiskRowsTyped ==
  ASSUME TypeOK, SummaryMade, summary # Pending, NEW others \in {{}, Others}
  PROVE  \A f \in RiskFindings(artifacts, Reported(artifacts), summary, others) : RowTyped(f)
<1>1. PICK arts : arts = artifacts
  OBVIOUS
<1>2. arts \in Tables
  BY <1>1 DEF TypeOK, Tables
<1>3. ASSUME NEW f \in OfProcess(Reported(arts)) PROVE RowTyped(f)
  <2>1. PICK c \in Reported(arts) :
          f = FindingRow(c.place[1], "this", SeverityOf(c), c.score, {Category(c.place[1])}, c.place)
    BY DEF OfProcess
  <2>2. c \in Findings(arts)
    BY DEF Reported, Told
  <2>3. c.place \in Place /\ c.score \in 0..13
    BY <1>2, <2>2, FindingPlaces, FindingRange DEF Ranged
  <2>4. f.severity = Level(c.score) /\ f.score = c.score /\ f.place = c.place
    BY <2>1 DEF FindingRow, SeverityOf
  <2>5. Level(c.score) \in Levels
    BY <2>3 DEF Level, Levels
  <2> QED BY <2>3, <2>4, <2>5 DEF RowTyped
<1>4. ASSUME NEW f \in OfJob(arts) PROVE RowTyped(f)
  <2>1. f.severity \in {"low", "medium"} /\ f.score \in Nat /\ f.place \in Place
    BY <1>2, JobQuiet
  <2> QED BY <2>1 DEF RowTyped, Levels
<1>5. ASSUME NEW f \in OfSummary(summary) PROVE RowTyped(f)
  <2>1. summary.severity # "none"
        /\ f = FindingRow(0, "this", summary.severity, summary.score, summary.groups, <<18, 0, 0>>)
    BY DEF OfSummary
  <2>2. f.severity = summary.severity /\ f.score = summary.score /\ f.place = <<18, 0, 0>>
    BY <2>1 DEF FindingRow
  <2>3. summary = ProcessSummary(artifacts)
    BY DEF SummaryMade
  <2>4. summary.severity \in Levels
    BY <2>1, <2>3, SummaryOK DEF Levels
  <2>5. summary.score \in Nat
    BY <1>1, <1>2, <2>1, <2>3, SummaryScore
  <2>6. <<18, 0, 0>> \in Place
    BY DEF Place
  <2> QED BY <2>2, <2>4, <2>5, <2>6 DEF RowTyped
<1>6. ASSUME NEW f \in others PROVE RowTyped(f)
  <2>1. f \in Others
    OBVIOUS
  <2> QED BY <2>1, ReportAssumption DEF RowTyped, Levels, Place
<1> QED BY <1>1, <1>3, <1>4, <1>5, <1>6 DEF RiskFindings

\* A host is to be isolated because of what is shown.
LEMMA IsolationBacked ==
  ASSUME TypeOK, SummaryMade, summary # Pending, NEW others \in {{}, Others},
         HighOrCritical(RiskFindings(artifacts, Reported(artifacts), summary, others)) # {},
         ~Understated(others)
  PROVE  HighOrCritical(TopFindings(RiskFindings(artifacts, Reported(artifacts), summary, others))) # {}
<1>1. PICK arts : arts = artifacts
  OBVIOUS
<1>2. arts \in Tables
  BY <1>1 DEF TypeOK, Tables
<1> DEFINE findings == Reported(arts)
           rows == RiskFindings(arts, findings, summary, others)
<1>3. rows = OfProcess(findings) \cup OfJob(arts) \cup OfSummary(summary) \cup others
  BY DEF RiskFindings
<1>4. findings \in SUBSET Findings(arts)
  BY DEF Reported, Told
<1>5. \A f \in others : f.rule = 0 /\ f.process # "this"
  BY ReportAssumption
<1>6. /\ \A f \in OfProcess(findings) :
            /\ f.rule \in 1..14
            /\ \E c \in findings : f.severity = Level(c.score)
      /\ \A f \in OfSummary(summary) :
            f.rule = 0 /\ f.severity = summary.severity
  <2> HIDE DEF findings
  <2>1. ASSUME NEW f \in OfProcess(findings)
        PROVE  f.rule \in 1..14 /\ \E c \in findings : f.severity = Level(c.score)
    <3>1. PICK c \in findings :
            f = FindingRow(c.place[1], "this", SeverityOf(c), c.score, {Category(c.place[1])}, c.place)
      BY DEF OfProcess
    <3>2. f.rule = c.place[1] /\ f.severity = Level(c.score)
      BY <3>1 DEF FindingRow, SeverityOf
    <3>3. c.place[1] \in 1..14
      BY <1>2, <1>4, FindingRange DEF Ranged
    <3> QED BY <3>2, <3>3
  <2>2. ASSUME NEW f \in OfSummary(summary)
        PROVE  f.rule = 0 /\ f.severity = summary.severity
    <3>1. f = FindingRow(0, "this", summary.severity, summary.score, summary.groups, <<18, 0, 0>>)
      BY DEF OfSummary
    <3> QED BY <3>1 DEF FindingRow
  <2> QED BY <2>1, <2>2
<1>7. \A f \in OfJob(arts) : f.severity \notin Alarming /\ f.rule # 0
  <2>1. \A f \in OfJob(arts) : f.severity \in {"low", "medium"} /\ f.rule \in 14..17
    BY <1>2, JobQuiet
  <2> QED BY <2>1 DEF Alarming
<1>8. \A f \in rows : RowTyped(f)
  BY <1>1, RiskRowsTyped
<1>9. IsFiniteSet(rows)
  <2>1. IsFiniteSet(others)
    BY ReportAssumption, FS_EmptySet
  <2> HIDE DEF findings
  <2> QED BY <1>2, <1>4, <2>1, RiskRowsFinite
<1> HIDE DEF rows, findings
<1>10. Candidates(rows) \subseteq rows /\ IsFiniteSet(Candidates(rows))
  <2>1. Candidates(rows) \subseteq rows
    BY DEF Candidates, Summaries
  <2> QED BY <1>9, <2>1, FS_Subset
<1>11. ASSUME NEW f \in Candidates(rows), f.severity \in Alarming
       PROVE  HighOrCritical(TopFindings(rows)) # {}
  <2>1. \A e \in Candidates(rows) : e.severity \in Levels /\ e.score \in Nat /\ e.place \in Place
    BY <1>8, <1>10 DEF RowTyped
  <2> QED BY <1>10, <1>11, <2>1, GravestShown
<1>12. PICK f \in rows : f.severity \in Alarming
  BY <1>1 DEF HighOrCritical, rows, findings
<1>13. ASSUME f \notin Candidates(rows)
       PROVE  \E s \in Candidates(rows) : s.severity \in Alarming
  <2>1. Summaries(rows) # {} /\ f \notin Summaries(rows) /\ Candidates(rows) = Summaries(rows)
    BY <1>13 DEF Candidates
  <2>2. f.rule # 0
    BY <2>1 DEF Summaries
  <2>3. f \in OfProcess(findings)
    BY <1>3, <1>5, <1>6, <1>7, <1>12, <2>2
  <2>4. PICK c \in Findings(arts) : f.severity = Level(c.score)
    BY <1>4, <1>6, <2>3
  <2>5. c.score >= 8
    <3>1. c.score \in 0..13
      BY <1>2, FindingRange DEF Ranged
    <3>2. Level(c.score) \in Alarming
      BY <1>12, <2>4
    <3> QED BY <3>1, <3>2 DEF Level, Alarming
  <2>6. summary = ProcessSummary(arts)
    BY <1>1 DEF SummaryMade
  <2>7. summary # NoSummary
    <3> SUFFICES ASSUME summary = NoSummary PROVE FALSE
      OBVIOUS
    <3>1. others = {}
      BY DEF Understated
    <3>2. OfSummary(summary) = {}
      BY DEF OfSummary, NoSummary
    <3>3. \A e \in rows : e.rule # 0
      <4>1. \A e \in OfProcess(findings) : e.rule # 0
        BY <1>6
      <4> QED BY <1>3, <1>7, <3>1, <3>2, <4>1
    <3> QED BY <2>1, <3>3 DEF Summaries
  <2>8. summary.groups # {"yara_match"} /\ summary.confidence # "context_only"
        /\ \A e \in CutOff(arts) : SeverityOf(e) \notin Alarming
    BY <1>1 DEF Understated
  <2>9. summary.severity \in Alarming
    BY <1>2, <2>5, <2>6, <2>7, <2>8, RisenSummary
  <2>10. PICK s : s \in OfSummary(summary)
    <3>1. summary.severity # "none"
      BY <2>9 DEF Alarming
    <3> QED BY <3>1 DEF OfSummary
  <2>11. s.rule = 0 /\ s.severity \in Alarming
    BY <1>6, <2>9, <2>10
  <2>12. s \in Summaries(rows)
    BY <1>3, <2>10, <2>11 DEF Summaries
  <2> QED BY <2>1, <2>11, <2>12
<1>14. HighOrCritical(TopFindings(rows)) # {}
  BY <1>11, <1>12, <1>13
<1> QED BY <1>1, <1>14 DEF rows, findings

\* Connections are to be hunted because of one that is shown.
LEMMA HuntBacked ==
  ASSUME NEW arts \in Tables, NEW carried \in Carried(Exported(arts)),
         NEW ioc \in carried, ioc.type \in {"ip_address", "network_endpoint"}
  PROVE  \E l \in Displayed(NetworkLines(arts["network"],
                              LinkedConnections(arts, Reported(arts), Exported(arts)))) :
           arts["network"][l.at].public
<1> DEFINE E == Exported(arts)
           rows == arts["network"]
           linked == LinkedConnections(arts, Reported(arts), E)
<1>1. ioc \in E
  <2> HIDE DEF E
  <2>1. carried \in {E} \/ carried \in {s \in SUBSET E : Cardinality(s) = Limit.iocs}
    BY DEF Carried, kSubset, E
  <2> QED BY <2>1
<1>2. PICK d \in DraftsOf(arts, Reported(arts)) : ioc = Record(d)
  BY <1>1, ExportForm DEF Exported, Deduplicated
<1>3. d.type \in {"ip_address", "network_endpoint"}
  BY <1>2 DEF Record
<1>4. FromConnection(arts, d)
  BY <1>3, ValueOrigin
<1>5. PICK i : i \in Rows(arts, "network", Public)
  BY <1>4 DEF FromConnection
<1>6. linked = Rows(arts, "network", Public)
  BY LinkedArePublic
<1>7. Scored(rows, linked)
  BY <1>6, ConnectionScores
<1>8. i \in DOMAIN rows /\ i \in linked
  BY <1>5, <1>6 DEF Rows
<1> HIDE DEF rows, linked
<1>9. \E l \in Displayed(NetworkLines(rows, linked)) : rows[l.at].public
  BY <1>7, <1>8, PublicFirst
<1> QED BY <1>9 DEF rows, linked

\* The report advises to isolate the host only if it shows a high or critical finding on
\* top, and to hunt connections only if it shows a public one: what is left out, by the
\* limits or for the summaries of other processes, is never all the reason there is.  The
\* exceptions are the findings that the summary of their process keeps down or out.
THEOREM AdviceHasReasons == Spec => []AdviceBacked
<1>1. TypeOK /\ SummaryMade => AdviceBacked
  <2> SUFFICES ASSUME TypeOK, SummaryMade, summary # Pending
               PROVE  Backed(Reported(artifacts), ExportOf(artifacts, Reported(artifacts)))
    BY DEF AdviceBacked
  <2>1. PICK arts : arts = artifacts
    OBVIOUS
  <2>2. arts \in Tables
    BY <2>1 DEF TypeOK, Tables
  <2>3. ExportOf(artifacts, Reported(artifacts)) = Exported(artifacts)
    BY DEF Exported
  <2> DEFINE findings == Reported(artifacts)
             iocs == Exported(artifacts)
             Listed(others) == RiskFindings(artifacts, findings, summary, others)
             lines == NetworkLines(artifacts["network"],
                                   LinkedConnections(artifacts, findings, iocs))
  <2>4. ASSUME NEW others \in {{}, Others}, NEW carried \in Carried(iocs),
               "isolate" \in Recommendations(Listed(others), carried, artifacts)
        PROVE  HighOrCritical(TopFindings(Listed(others))) # {} \/ Understated(others)
    <3>1. HighOrCritical(Listed(others)) # {}
      BY <2>4 DEF Recommendations
    <3> QED BY <3>1, IsolationBacked
  <2>5. ASSUME NEW others \in {{}, Others}, NEW carried \in Carried(iocs),
               "hunt" \in Recommendations(Listed(others), carried, artifacts)
        PROVE  PublicShown(lines)
    <3>1. \E ioc \in carried : ioc.type \in {"ip_address", "network_endpoint"}
      <4> HIDE DEF Listed
      <4> QED BY <2>5 DEF Recommendations
    <3>2. \E l \in Displayed(lines) : artifacts["network"][l.at].public
      BY <2>1, <2>2, <3>1, HuntBacked
    <3> QED BY <3>2 DEF PublicShown
  <2> HIDE DEF findings, iocs, lines
  <2> QED BY <2>3, <2>4, <2>5 DEF Backed, findings, iocs, lines
<1> QED BY <1>1, RiskTypeCorrect, SummaryOfTables, PTL DEF Spec
=============================================================================
