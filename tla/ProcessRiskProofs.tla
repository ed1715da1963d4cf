------------------------ MODULE ProcessRiskProofs --------------------------
(***************************************************************************)
(* Theorems about ProcessRisk, for any rows, any YARA rules with any       *)
(* metadata, any component limit and any number of rows.                   *)
(***************************************************************************)
EXTENDS ProcessRisk, FiniteSetTheorems, WellFoundedInduction, TLAPS

\* A rule that names no malware is not alarming by itself, whatever else its
\* metadata says (yara_risk_from_metadata, uncorrelated).
THEOREM BroadMatchesStayMedium ==
  ASSUME NEW m \in YaraMetadata, ~m.specific
  PROVE  YaraSeverity(m, FALSE) \in {"low", "medium"}
BY DEF YaraMetadata, YaraSeverity, Lowered, Alarming

\* Every severity is one that SeverityScore scores.
LEMMA YaraSeverityType ==
  ASSUME NEW m \in YaraMetadata, NEW correlated \in BOOLEAN
  PROVE  YaraSeverity(m, correlated) \in {"low", "medium", "high", "critical"}
BY DEF YaraMetadata, YaraSeverity, Lowered, Alarming

-----------------------------------------------------------------------------
(* Where a finding comes from. *)

\* The matches of a YARA rule, and what the summary reads off its metadata.
FromMatch(f) ==
  /\ f.groups = {"yara_match"}
  /\ \E i \in DOMAIN artifacts["yara"] :
       LET m == Metadata[artifacts["yara"][i].rule]
       IN /\ f.specific => m.specific
          /\ f.trusted => m.trusted /\ ~m.noisy
          /\ f.decisive => HighConfidence(m)

\* The rows of another table, which support each group the finding counts in.
FromRows(f) ==
  /\ "yara_match" \notin f.groups
  /\ ~f.specific /\ ~f.trusted /\ ~f.decisive
  /\ EvidenceTables(artifacts) \ {"yara"} # {}
  /\ "memory_region" \in f.groups => Has(artifacts, "memory_region", Suspicious)
  /\ "network_endpoint" \in f.groups => Has(artifacts, "network", Public)
  /\ "suspicious_command" \in f.groups =>
       Has(artifacts, "command", Encoded \cup LinkableCommand)

\* A row in a table is evidence there, by the table's own test.
LEMMA RowsAreEvidence ==
  /\ Has(artifacts, "memory_region", Suspicious) => "memory_region" \in EvidenceTables(artifacts)
  /\ Has(artifacts, "network", Public) => "network" \in EvidenceTables(artifacts)
  /\ Has(artifacts, "command", Telling)
       => "command" \in EvidenceTables(artifacts)
  /\ Has(artifacts, "module", Dropped) => "module" \in EvidenceTables(artifacts)
  /\ artifacts["process"] # <<>> => "process" \in EvidenceTables(artifacts)
  /\ artifacts["yara"] # <<>> => "yara" \in EvidenceTables(artifacts)
BY DEF EvidenceTables, Table

LEMMA CommandOrigin == \A f \in CommandFindings(artifacts) : FromRows(f)
<1> SUFFICES ASSUME NEW f \in CommandFindings(artifacts) PROVE FromRows(f)
  OBVIOUS
<1>1. PICK i \in DOMAIN artifacts["command"] :
        \/ artifacts["command"][i] \in Encoded /\ f.groups = {"suspicious_command"}
        \/ artifacts["command"][i] \in Keyword /\ f.groups = {"suspicious_command_keywords"}
  BY DEF CommandFindings, Single, Rows, Finding
<1>2. ~f.specific /\ ~f.trusted /\ ~f.decisive
  BY DEF CommandFindings, Single, Rows, Finding
<1>3. Has(artifacts, "command", Telling)
  BY <1>1 DEF Has, Rows, Encoded, Keyword, Telling
<1>4. "suspicious_command" \in f.groups =>
        Has(artifacts, "command", Encoded \cup LinkableCommand)
  BY <1>1 DEF Has, Rows
<1> QED BY <1>1, <1>2, <1>3, <1>4, RowsAreEvidence DEF FromRows

LEMMA RegionOrigin ==
  ASSUME NEW rank \in {3, 8}
  PROVE  \A f \in RegionFindings(artifacts, rank) : FromRows(f)
<1> SUFFICES ASSUME NEW f \in RegionFindings(artifacts, rank) PROVE FromRows(f)
  OBVIOUS
<1>1. /\ f.groups = {"memory_region"} /\ ~f.specific /\ ~f.trusted /\ ~f.decisive
      /\ \E i \in DOMAIN artifacts["memory_region"] : artifacts["memory_region"][i] \in Malfind
  BY DEF RegionFindings, Single, Rows, Finding
<1>2. Has(artifacts, "memory_region", Suspicious)
  BY <1>1 DEF Has, Rows, Malfind
<1> QED BY <1>1, <1>2, RowsAreEvidence DEF FromRows

LEMMA CorrelationOrigin == \A f \in CorrelationFindings(artifacts) : FromRows(f)
<1> SUFFICES ASSUME NEW f \in CorrelationFindings(artifacts) PROVE FromRows(f)
  OBVIOUS
<1>1. /\ ~f.specific /\ ~f.trusted /\ ~f.decisive
      /\ \E i \in DOMAIN artifacts["memory_region"] : artifacts["memory_region"][i] \in Suspicious
  BY DEF CorrelationFindings, Linked, Rows, Finding
<1>2. \/ /\ f.groups = {"memory_region", "network_endpoint"}
         /\ \E k \in DOMAIN artifacts["network"] : artifacts["network"][k] \in Public
      \/ /\ f.groups = {"memory_region", "suspicious_command"}
         /\ \E k \in DOMAIN artifacts["command"] : artifacts["command"][k] \in LinkableCommand
      \/ f.groups = {"memory_region", "suspicious_module"}
      \/ f.groups = {"memory_region", "module_context"}
  BY DEF CorrelationFindings, Linked, Rows, Finding
<1>3. Has(artifacts, "memory_region", Suspicious)
  BY <1>1 DEF Has, Rows
<1>4. "network_endpoint" \in f.groups => Has(artifacts, "network", Public)
  BY <1>2 DEF Has, Rows
<1>5. "suspicious_command" \in f.groups =>
        Has(artifacts, "command", Encoded \cup LinkableCommand)
  BY <1>2 DEF Has, Rows
<1>6. "yara_match" \notin f.groups
  BY <1>2
<1> QED BY <1>1, <1>3, <1>4, <1>5, <1>6, RowsAreEvidence DEF FromRows

LEMMA TableOrigin == \A f \in TableFindings(artifacts) : FromRows(f)
<1> SUFFICES ASSUME NEW f \in TableFindings(artifacts) PROVE FromRows(f)
  OBVIOUS
<1>1. ~f.specific /\ ~f.trusted /\ ~f.decisive
  BY DEF TableFindings, Single, Rows, Finding
<1>2. \/ /\ f.groups = {"suspicious_module"}
         /\ \E i \in DOMAIN artifacts["module"] : artifacts["module"][i] \in Dropped
      \/ /\ f.groups = {"network_endpoint"}
         /\ \E i \in DOMAIN artifacts["network"] : artifacts["network"][i] \in Public
  BY DEF TableFindings, Single, Rows, Finding
<1>3. \/ f.groups = {"suspicious_module"} /\ Has(artifacts, "module", Dropped)
      \/ f.groups = {"network_endpoint"} /\ Has(artifacts, "network", Public)
  BY <1>2 DEF Has, Rows
<1> QED BY <1>1, <1>3, RowsAreEvidence DEF FromRows

LEMMA ProcessOrigin == \A f \in ProcessFindings(artifacts) : FromRows(f)
<1> SUFFICES ASSUME NEW f \in ProcessFindings(artifacts) PROVE FromRows(f)
  OBVIOUS
<1>1. ~f.specific /\ ~f.trusted /\ ~f.decisive
  BY DEF ProcessFindings, Single, Rows, Finding
<1>2. /\ f.groups \in {{"win_system_process_wrong_path"}, {"win_suspicious_parent_child"},
                        {"win_psscan_only_process"}}
      /\ \E i : i \in DOMAIN artifacts["process"]
  BY DEF ProcessFindings, Hidden, Single, Rows, Finding
<1>3. artifacts["process"] # <<>>
  BY <1>2
<1> QED BY <1>1, <1>2, <1>3, RowsAreEvidence DEF FromRows

LEMMA YaraOrigin ==
  ASSUME NEW rank, NEW matches \in SUBSET (DOMAIN artifacts["yara"]), NEW correlated
  PROVE  \A f \in YaraFindings(artifacts, rank, matches, correlated) : FromMatch(f)
<1> SUFFICES ASSUME NEW f \in YaraFindings(artifacts, rank, matches, correlated)
             PROVE  FromMatch(f)
  OBVIOUS
<1>1. PICK i \in DOMAIN artifacts["yara"] :
        LET m    == Metadata[artifacts["yara"][i].rule]
            seen == ReadSeverity(m, correlated)
        IN /\ f.groups = {"yara_match"}
           /\ f.specific = m.specific
           /\ f.trusted = (m.trusted /\ ~m.noisy /\ seen \in Alarming)
           /\ f.decisive = (HighConfidence(m) /\ seen = "critical")
  BY DEF YaraFindings, Representatives
<1> QED BY <1>1 DEF FromMatch

LEMMA FindingOrigin == \A f \in Findings(artifacts) : FromMatch(f) \/ FromRows(f)
<1>1. /\ MemoryMatches(artifacts) \subseteq DOMAIN artifacts["yara"]
      /\ ProcessMatches(artifacts) \subseteq DOMAIN artifacts["yara"]
  BY DEF MemoryMatches, ProcessMatches
<1> QED BY <1>1, CommandOrigin, RegionOrigin, CorrelationOrigin, TableOrigin, ProcessOrigin,
          YaraOrigin DEF Findings

-----------------------------------------------------------------------------
(* The gate. *)

\* What a summary of components that come from the rows may be called critical for.
LEMMA CriticalRows ==
  ASSUME NEW C \in SUBSET Findings(artifacts),
         CriticalAllowed(C, EvidenceGroups(C))
  PROVE  Grave(artifacts)
<1> DEFINE G == EvidenceGroups(C)
<1> DEFINE Specific == SpecificMatches(artifacts) # {}
           Trusted  == TrustedMatches(artifacts) # {}
<1>1. \A f \in C : FromMatch(f) \/ FromRows(f)
  BY FindingOrigin
<1>2. \A f \in C : /\ f.specific => Specific
                   /\ f.trusted => Trusted
                   /\ f.decisive => Specific /\ Trusted
  BY <1>1 DEF FromMatch, FromRows, SpecificMatches, TrustedMatches, HighConfidence
<1>3. \A g \in G : g # "yara_match" => EvidenceTables(artifacts) \ {"yara"} # {}
  BY <1>1 DEF EvidenceGroups, FromMatch, FromRows
<1>4. \E g \in G : g # "yara_match"
  <2>1. SUFFICES ASSUME G \subseteq {"yara_match"} PROVE FALSE
    OBVIOUS
  <2>2. IsFiniteSet({"yara_match"}) /\ Cardinality({"yara_match"}) = 1
    BY FS_Singleton
  <2>3. Cardinality(G) <= 1 /\ Cardinality(G) \in Nat
    BY <2>1, <2>2, FS_Subset, FS_CardinalityType
  <2> QED BY <2>3 DEF CriticalAllowed
<1>5. \E f \in C : FromMatch(f)
  BY <1>1 DEF CriticalAllowed, EvidenceGroups, FromRows, DecisiveYara
<1>6. artifacts["yara"] # <<>>
  BY <1>5 DEF FromMatch
<1>7. Cardinality(EvidenceTables(artifacts)) >= 2
  <2>1. PICK t \in EvidenceTables(artifacts) : t # "yara"
    BY <1>3, <1>4
  <2>2. {t, "yara"} \subseteq EvidenceTables(artifacts)
    BY <1>6, <2>1, RowsAreEvidence
  <2>3. IsFiniteSet({"yara"}) /\ Cardinality({"yara"}) = 1
    BY FS_Singleton
  <2>4. Cardinality({"yara"} \cup {t}) = 2
    BY <2>1, <2>3, FS_AddElement
  <2>5. IsFiniteSet(EvidenceTables(artifacts))
    <3>1. IsFiniteSet({"process", "network", "module", "memory_region", "command", "yara"})
      <4>1. IsFiniteSet({"process"})
        BY FS_Singleton
      <4>2. IsFiniteSet({"process"} \cup {"network"} \cup {"module"})
        BY <4>1, FS_AddElement
      <4>3. IsFiniteSet({"process"} \cup {"network"} \cup {"module"} \cup {"memory_region"})
        BY <4>2, FS_AddElement
      <4>4. IsFiniteSet({"process"} \cup {"network"} \cup {"module"} \cup {"memory_region"}
                          \cup {"command"})
        BY <4>3, FS_AddElement
      <4>5. IsFiniteSet({"process"} \cup {"network"} \cup {"module"} \cup {"memory_region"}
                          \cup {"command"} \cup {"yara"})
        BY <4>4, FS_AddElement
      <4>6. {"process"} \cup {"network"} \cup {"module"} \cup {"memory_region"}
              \cup {"command"} \cup {"yara"}
              = {"process", "network", "module", "memory_region", "command", "yara"}
        OBVIOUS
      <4> QED BY <4>5, <4>6
    <3> QED BY <3>1, FS_Subset DEF EvidenceTables, Table
  <2>6. {"yara"} \cup {t} \subseteq EvidenceTables(artifacts)
    BY <2>2
  <2> QED BY <2>4, <2>5, <2>6, FS_Subset, FS_CardinalityType
<1>8. ASSUME "memory_region" \in G PROVE Has(artifacts, "memory_region", Suspicious)
  <2>1. PICK f \in C : "memory_region" \in f.groups
    BY <1>8 DEF EvidenceGroups
  <2>2. FromRows(f)
    BY <1>1, <2>1 DEF FromMatch
  <2> QED BY <2>1, <2>2 DEF FromRows
<1>9. ASSUME "network_endpoint" \in G PROVE Has(artifacts, "network", Public)
  <2>1. PICK f \in C : "network_endpoint" \in f.groups
    BY <1>9 DEF EvidenceGroups
  <2>2. FromRows(f)
    BY <1>1, <2>1 DEF FromMatch
  <2> QED BY <2>1, <2>2 DEF FromRows
<1>10. ASSUME "suspicious_command" \in G
       PROVE  Has(artifacts, "command", Encoded \cup LinkableCommand)
  <2>1. PICK f \in C : "suspicious_command" \in f.groups
    BY <1>10 DEF EvidenceGroups
  <2>2. FromRows(f)
    BY <1>1, <2>1 DEF FromMatch
  <2> QED BY <2>1, <2>2 DEF FromRows
<1>11. CASE DecisiveYara(C)
  BY <1>2, <1>6, <1>7, <1>11 DEF DecisiveYara, Grave
<1>12. CASE TrustedYara(C) /\ SpecificYara(C)
  BY <1>2, <1>6, <1>7, <1>12 DEF TrustedYara, SpecificYara, Grave
<1>13. CASE "memory_region" \in G /\ ("network_endpoint" \in G \/ "suspicious_command" \in G)
  BY <1>6, <1>7, <1>8, <1>9, <1>10, <1>13 DEF Grave
<1> QED BY <1>11, <1>12, <1>13 DEF CriticalAllowed

LEMMA SummaryOK ==
  /\ ProcessSummary(artifacts).severity \in {"none", "low", "medium", "high", "critical"}
  /\ ProcessSummary(artifacts).confidence \in
       {"none", "context_only", "suspicious", "probable_malware"}
BY DEF ProcessSummary, Rated, NoSummary, SummarySeverity, Level, Confidence

\* The types of the rows, the severity and the confidence.
THEOREM RiskTypeCorrect == Spec => []TypeOK
<1>1. Init => TypeOK
  BY DEF Init, TypeOK, Pending
<1>2. TypeOK /\ [Next]_vars => TypeOK'
  <2> SUFFICES ASSUME TypeOK, [Next]_vars PROVE TypeOK'
    OBVIOUS
  <2>1. CASE \E r \in Row : StoreRow(r)
    <3>1. PICK r \in Row : StoreRow(r)
      BY <2>1
    <3>2. r.table \in Table
      BY RowAssumption
    <3>3. artifacts' \in [Table -> Seq(Row)]
      BY <3>1, <3>2 DEF StoreRow, TypeOK
    <3>4. \A t \in Table : \A i \in DOMAIN artifacts'[t] : artifacts'[t][i].table = t
      <4> SUFFICES ASSUME NEW t \in Table, NEW i \in DOMAIN artifacts'[t]
                   PROVE  artifacts'[t][i].table = t
        OBVIOUS
      <4>1. CASE t = r.table
        <5>1. artifacts'[t] = Append(artifacts[t], r) /\ artifacts[t] \in Seq(Row)
          BY <3>1, <4>1 DEF StoreRow, TypeOK
        <5> QED BY <4>1, <5>1 DEF TypeOK
      <4>2. CASE t # r.table
        BY <3>1, <4>2 DEF StoreRow, TypeOK
      <4> QED BY <4>1, <4>2
    <3> QED BY <3>1, <3>3, <3>4 DEF StoreRow, TypeOK
  <2>2. CASE RunDetection
    <3>1. UNCHANGED <<benign, artifacts>>
      BY <2>2 DEF RunDetection
    <3>2. /\ summary'.severity \in {"pending", "none", "low", "medium", "high", "critical"}
          /\ summary'.confidence \in {"none", "context_only", "suspicious", "probable_malware"}
      BY <2>2, SummaryOK DEF RunDetection
    <3> QED BY <3>1, <3>2 DEF TypeOK
  <2>3. CASE UNCHANGED vars
    BY <2>3 DEF TypeOK, vars
  <2> QED BY <2>1, <2>2, <2>3 DEF Next
<1> QED BY <1>1, <1>2, PTL DEF Spec

\* No process is called critical on one kind of evidence, or on matches that are
\* neither trusted and malware-specific nor next to suspicious memory with a
\* connection or a command: whatever rows the plugins store, whatever the rules'
\* metadata, and wherever the component limit cuts.
THEOREM CriticalGate == Spec => []CriticalIsCorroborated
<1>1. Init => CriticalIsCorroborated
  BY DEF Init, CriticalIsCorroborated, Pending
<1>2. CriticalIsCorroborated /\ [Next]_vars => CriticalIsCorroborated'
  <2> SUFFICES ASSUME CriticalIsCorroborated, [Next]_vars PROVE CriticalIsCorroborated'
    OBVIOUS
  <2>1. CASE \E r \in Row : StoreRow(r)
    BY <2>1 DEF StoreRow, CriticalIsCorroborated, Pending
  <2>2. CASE RunDetection
    <3> SUFFICES ASSUME ProcessSummary(artifacts).severity = "critical" PROVE Grave(artifacts)
      BY <2>2 DEF RunDetection, CriticalIsCorroborated
    <3> DEFINE C == Selected(Unique(Findings(artifacts)))
    <3>1. C \in SUBSET Findings(artifacts)
      BY DEF Selected, Unique
    <3>2. CriticalAllowed(C, EvidenceGroups(C))
      BY DEF NoSummary, ProcessSummary, Rated, SummarySeverity, Level
    <3> QED BY <3>1, <3>2, CriticalRows
  <2>3. CASE UNCHANGED vars
    BY <2>3 DEF CriticalIsCorroborated, vars
  <2> QED BY <2>1, <2>2, <2>3 DEF Next
<1> QED BY <1>1, <1>2, PTL DEF Spec

-----------------------------------------------------------------------------
(* A known benign process. *)

\* A fold takes the only element of a set; its value is the one function that the
\* recursion on the subsets of that set allows.
LEMMA SumOfOne ==
  ASSUME NEW f, NEW g, DOMAIN f = {g}, f[g] \in Int
  PROVE  SumFunction(f) = f[g]
<1> DEFINE Sum(s, rest) == IF s = {} THEN 0
                           ELSE f[CHOOSE x \in s : TRUE] + rest[s \ {CHOOSE x \in s : TRUE}]
           iter == CHOOSE h : h = [s \in SUBSET {g} |-> Sum(s, h)]
           sums == [s \in SUBSET {g} |-> IF s = {} THEN 0 ELSE f[g] + 0]
<1>1. SumFunction(f) = iter[{g}]
  BY DEF SumFunction, SumFunctionOnSet, FoldFunctionOnSet, MapThenFoldSet
<1>2. \A s \in SUBSET {g} : s = {} \/ s = {g}
  OBVIOUS
<1>3. {g} \ {CHOOSE x \in {g} : TRUE} = {} /\ (CHOOSE x \in {g} : TRUE) = g
  OBVIOUS
<1>4. sums = [s \in SUBSET {g} |-> Sum(s, sums)]
  <2>1. \A s \in SUBSET {g} : sums[s] = Sum(s, sums)
    BY <1>2, <1>3
  <2> HIDE DEF Sum
  <2> QED BY <2>1
<1>5. iter = [s \in SUBSET {g} |-> Sum(s, iter)]
  <2> HIDE DEF Sum, sums
  <2> QED BY <1>4
<1>6. iter[{g}] = Sum({g}, iter) /\ iter[{}] = Sum({}, iter)
  <2> HIDE DEF Sum, iter
  <2> QED BY <1>5
<1> HIDE DEF iter
<1>7. iter[{}] = 0
  BY <1>6
<1>8. iter[{g}] = f[g] + 0
  BY <1>3, <1>6, <1>7
<1> QED BY <1>1, <1>8

LEMMA SumOfNone ==
  ASSUME NEW f, DOMAIN f = {}
  PROVE  SumFunction(f) = 0
<1> DEFINE Sum(s, rest) == IF s = {} THEN 0
                           ELSE f[CHOOSE x \in s : TRUE] + rest[s \ {CHOOSE x \in s : TRUE}]
           iter == CHOOSE h : h = [s \in SUBSET {} |-> Sum(s, h)]
           sums == [s \in SUBSET {} |-> 0]
<1>1. SumFunction(f) = iter[{}]
  BY DEF SumFunction, SumFunctionOnSet, FoldFunctionOnSet, MapThenFoldSet
<1>2. \A s \in SUBSET {} : s = {}
  OBVIOUS
<1>3. sums = [s \in SUBSET {} |-> Sum(s, sums)]
  BY <1>2
<1>4. iter = [s \in SUBSET {} |-> Sum(s, iter)]
  <2> HIDE DEF Sum, sums
  <2> QED BY <1>3
<1>5. iter[{}] = Sum({}, iter)
  <2> HIDE DEF Sum, iter
  <2> QED BY <1>4
<1> HIDE DEF iter
<1> QED BY <1>1, <1>5

\* A cap holds.
LEMMA CapHolds ==
  ASSUME NEW score \in Int, NEW cap \in Int
  PROVE  Min({score, cap}) \in Int /\ Min({score, cap}) <= cap
<1>1. \E x \in {score, cap} : \A y \in {score, cap} : x =< y
  BY DEF Min
<1>2. Min({score, cap}) \in {score, cap} /\ \A y \in {score, cap} : Min({score, cap}) =< y
  BY <1>1 DEF Min
<1> QED BY <1>2

\* Matches of rules that are not malware-specific, and findings taken for context.
Harmless(f) ==
  /\ ~f.specific
  /\ f.groups \cap {"network_endpoint", "suspicious_command", "suspicious_module"} = {}
  /\ f.context \/ (f.groups = {"yara_match"} /\ f.score \in {2, 5, 8, 13})

OnlyContext ==
  /\ benign
  /\ EvidenceTables(artifacts) \subseteq {"memory_region", "yara"}
  /\ SpecificMatches(artifacts) = {}

LEMMA ContextTables ==
  ASSUME OnlyContext
  PROVE  /\ Rows(artifacts, "network", Public) = {}
         /\ Rows(artifacts, "command", Encoded) = {}
         /\ Rows(artifacts, "command", Keyword) = {}
         /\ Rows(artifacts, "command", LinkableCommand) = {}
         /\ Rows(artifacts, "module", Dropped) = {}
         /\ artifacts["process"] = <<>>
<1>1. ~Has(artifacts, "network", Public) /\ ~Has(artifacts, "command", Telling)
      /\ ~Has(artifacts, "module", Dropped) /\ artifacts["process"] = <<>>
  BY RowsAreEvidence DEF OnlyContext
<1>2. Encoded \subseteq Telling /\ Keyword \subseteq Telling /\ LinkableCommand \subseteq Telling
  BY DEF Encoded, Keyword, LinkableCommand, Telling
<1> QED BY <1>1, <1>2 DEF Has, Rows

LEMMA HarmlessMatches ==
  ASSUME TypeOK, OnlyContext, NEW rank, NEW matches \in SUBSET (DOMAIN artifacts["yara"]),
         NEW correlated \in BOOLEAN
  PROVE  \A f \in YaraFindings(artifacts, rank, matches, correlated) : Harmless(f)
<1> SUFFICES ASSUME NEW f \in YaraFindings(artifacts, rank, matches, correlated)
             PROVE  Harmless(f)
  OBVIOUS
<1>1. PICK i \in DOMAIN artifacts["yara"] :
        LET m == Metadata[artifacts["yara"][i].rule]
        IN /\ f.groups = {"yara_match"}
           /\ f.score = SeverityScore[YaraSeverity(m, correlated)]
           /\ f.specific = m.specific
  BY DEF YaraFindings, Representatives
<1>2. artifacts["yara"][i] \in Row /\ artifacts["yara"][i].table = "yara"
  BY DEF TypeOK, Table
<1>3. Metadata[artifacts["yara"][i].rule] \in YaraMetadata
  BY <1>2, RowAssumption, MetadataAssumption
<1>4. f.score \in {2, 5, 8, 13}
  BY <1>1, <1>3, YaraSeverityType DEF SeverityScore
<1>5. ~f.specific
  BY <1>1, <1>3 DEF OnlyContext, SpecificMatches, YaraMetadata
<1> QED BY <1>1, <1>4, <1>5 DEF Harmless

LEMMA HarmlessFindings ==
  ASSUME TypeOK, OnlyContext
  PROVE  \A f \in Findings(artifacts) : Harmless(f)
<1>1. /\ CommandFindings(artifacts) = {} /\ TableFindings(artifacts) = {}
      /\ ProcessFindings(artifacts) = {}
  <2>1. \A wanted : Rows(artifacts, "process", wanted) = {}
    BY ContextTables DEF Rows
  <2>2. Hidden(artifacts) = {}
    BY <2>1 DEF Hidden
  <2>3. \A rank, table, field, score, groups, context :
          Single(artifacts, rank, table, {}, field, score, groups, context) = {}
    BY DEF Single
  <2> QED BY <2>1, <2>2, <2>3, ContextTables DEF CommandFindings, TableFindings, ProcessFindings
<1>2. \A rank : \A f \in RegionFindings(artifacts, rank) : Harmless(f)
  BY DEF RegionFindings, Single, Finding, Harmless, OnlyContext
<1>3. \A f \in CorrelationFindings(artifacts) : Harmless(f)
  BY ContextTables DEF CorrelationFindings, Linked, Finding, Harmless
<1>4. /\ MemoryMatches(artifacts) \subseteq DOMAIN artifacts["yara"]
      /\ ProcessMatches(artifacts) \subseteq DOMAIN artifacts["yara"]
  BY DEF MemoryMatches, ProcessMatches
<1>5. \A f \in YaraFindings(artifacts, 7, MemoryMatches(artifacts), HasRegions(artifacts)) :
        Harmless(f)
  BY <1>4, HarmlessMatches DEF HasRegions
<1>6. \A f \in YaraFindings(artifacts, 14, ProcessMatches(artifacts), FALSE) : Harmless(f)
  BY <1>4, HarmlessMatches
<1> QED BY <1>1, <1>2, <1>3, <1>5, <1>6 DEF Findings

\* Matches alone stay below the cap of their group.
LEMMA MatchesAreCapped ==
  ASSUME NEW C, C # {}, \A f \in C : f.groups = {"yara_match"} /\ f.score \in {2, 5, 8, 13}
  PROVE  /\ EvidenceGroups(C) = {"yara_match"}
         /\ Capped(SumFunction(GroupScore(C)), {"yara_match"}) \in Int
         /\ Capped(SumFunction(GroupScore(C)), {"yara_match"}) <= 5
<1>1. EvidenceGroups(C) = {"yara_match"}
  BY DEF EvidenceGroups
<1> DEFINE scores == {f.score : f \in {c \in C : "yara_match" \in c.groups}}
<1>2. scores # {} /\ scores \subseteq {2, 5, 8, 13}
  OBVIOUS
<1>3. \E x \in scores : \A y \in scores : x >= y
  <2> HIDE DEF scores
  <2>1. CASE 13 \in scores
    BY <1>2, <2>1
  <2>2. CASE 13 \notin scores /\ 8 \in scores
    BY <1>2, <2>2
  <2>3. CASE 13 \notin scores /\ 8 \notin scores /\ 5 \in scores
    BY <1>2, <2>3
  <2>4. CASE scores = {2}
    BY <2>4
  <2> QED BY <1>2, <2>1, <2>2, <2>3, <2>4
<1>4. Max(scores) \in Int
  <2> HIDE DEF scores
  <2>1. Max(scores) \in scores
    BY <1>3 DEF Max
  <2>2. \A x \in scores : x \in Int
    BY <1>2
  <2> QED BY <2>1, <2>2
<1>5. DOMAIN GroupScore(C) = {"yara_match"} /\ GroupScore(C)["yara_match"] = Max(scores)
  BY <1>1 DEF GroupScore
<1>6. SumFunction(GroupScore(C)) \in Int
  <2> HIDE DEF scores
  <2> QED BY <1>4, <1>5, SumOfOne
<1> QED BY <1>1, <1>6, CapHolds DEF Capped

LEMMA HarmlessSummary ==
  ASSUME TypeOK, OnlyContext
  PROVE  ProcessSummary(artifacts).severity \notin Alarming
<1> DEFINE C == Selected(Unique(Findings(artifacts)))
           G == EvidenceGroups(C)
           score == Capped(SumFunction(GroupScore(C)), G)
<1>1. \A f \in C : Harmless(f)
  BY HarmlessFindings DEF Selected, Unique
<1>2. SummarySeverity(C, G, score) \notin Alarming
  <2> HIDE DEF C
  <2>1. CASE \E f \in C : f.context
    <3>1. ContextOnly(C, G)
      BY <1>1, <2>1 DEF ContextOnly, SpecificYara, EvidenceGroups, Harmless
    <3> QED BY <3>1 DEF SummarySeverity, Alarming
  <2>2. CASE C = {}
    <3>1. G = {}
      BY <2>2 DEF EvidenceGroups
    <3>2. SumFunction(GroupScore(C)) = 0
      BY <3>1, SumOfNone DEF GroupScore
    <3>3. score \in Int /\ score <= 4
      BY <3>1, <3>2, CapHolds DEF Capped
    <3> HIDE DEF score, G
    <3>4. Level(score) \in {"medium", "low"}
      BY <3>3 DEF Level
    <3> QED BY <3>4 DEF SummarySeverity, Alarming
  <2>3. CASE C # {} /\ \A f \in C : ~f.context
    <3>1. \A f \in C : f.groups = {"yara_match"} /\ f.score \in {2, 5, 8, 13}
      BY <1>1, <2>3 DEF Harmless
    <3>2. G = {"yara_match"} /\ score \in Int /\ score <= 5
      BY <2>3, <3>1, MatchesAreCapped
    <3> HIDE DEF score, G
    <3>3. Level(score) \in {"medium", "low"}
      BY <3>2 DEF Level
    <3> QED BY <3>3 DEF SummarySeverity, Alarming
  <2> QED BY <2>1, <2>2, <2>3
<1>3. NoSummary.severity \notin Alarming
  BY DEF NoSummary, Alarming
<1> QED BY <1>2, <1>3 DEF ProcessSummary, Rated

\* However many suspicious regions, modules of Microsoft's and matches of rules that
\* name no malware a known benign process has, it is never called high or critical.
THEOREM BenignStaysContext == Spec => []BenignMemoryStaysContext
<1>1. Init => BenignMemoryStaysContext
  BY DEF Init, BenignMemoryStaysContext, Pending, Alarming
<1>2. TypeOK /\ BenignMemoryStaysContext /\ [Next]_vars => BenignMemoryStaysContext'
  <2> SUFFICES ASSUME TypeOK, BenignMemoryStaysContext, [Next]_vars
               PROVE  BenignMemoryStaysContext'
    OBVIOUS
  <2>1. CASE \E r \in Row : StoreRow(r)
    BY <2>1 DEF StoreRow, BenignMemoryStaysContext, Pending, Alarming
  <2>2. CASE RunDetection
    <3>1. UNCHANGED <<benign, artifacts>> /\ summary' = ProcessSummary(artifacts)
      BY <2>2 DEF RunDetection
    <3>2. OnlyContext => summary'.severity \notin Alarming
      BY <3>1, HarmlessSummary
    <3> QED BY <3>1, <3>2 DEF BenignMemoryStaysContext, OnlyContext, EvidenceTables, Has, Rows, SpecificMatches
  <2>3. CASE UNCHANGED vars
    BY <2>3 DEF BenignMemoryStaysContext, vars, EvidenceTables, Has, Rows, SpecificMatches
  <2> QED BY <2>1, <2>2, <2>3 DEF Next
<1> QED BY <1>1, <1>2, RiskTypeCorrect, PTL DEF Spec

-----------------------------------------------------------------------------
(* Rows that repeat rows. *)

\* The tables as the parsers fill them.
Tables == {arts \in [Table -> Seq(Row)] :
             \A t \in Table : \A i \in DOMAIN arts[t] : arts[t][i].table = t}

\* Rows of "more" that are not rows of "arts" follow them, and each is the copy of one.
Repeated(arts, more) ==
  \A t \in Table :
    /\ arts[t] = <<>> <=> more[t] = <<>>
    /\ DOMAIN arts[t] \subseteq DOMAIN more[t] /\ DOMAIN more[t] \subseteq Nat
    /\ \A i \in DOMAIN arts[t] : more[t][i] = arts[t][i]
    /\ \A i \in DOMAIN more[t] \ DOMAIN arts[t] :
         /\ \A k \in DOMAIN arts[t] : k < i
         /\ \E k \in DOMAIN arts[t] : arts[t][k] = more[t][i]

LEMMA AppendOK ==
  ASSUME NEW arts \in Tables, NEW r \in Row
  PROVE  [arts EXCEPT ![r.table] = Append(@, r)] \in Tables
<1> DEFINE more == [arts EXCEPT ![r.table] = Append(@, r)]
<1>1. r.table \in Table /\ arts \in [Table -> Seq(Row)]
  BY RowAssumption DEF Tables
<1>2. more \in [Table -> Seq(Row)]
  BY <1>1
<1>3. \A t \in Table : \A i \in DOMAIN more[t] : more[t][i].table = t
  <2> SUFFICES ASSUME NEW t \in Table, NEW i \in DOMAIN more[t] PROVE more[t][i].table = t
    OBVIOUS
  <2>1. CASE t = r.table
    <3>1. more[t] = Append(arts[t], r) /\ arts[t] \in Seq(Row)
      BY <1>1, <2>1
    <3> HIDE DEF more
    <3> QED BY <2>1, <3>1 DEF Tables
  <2>2. CASE t # r.table
    BY <1>1, <2>2 DEF Tables
  <2> QED BY <2>1, <2>2
<1> QED BY <1>2, <1>3 DEF Tables

LEMMA CopyRepeats ==
  ASSUME NEW arts \in Tables, NEW r \in Row, NEW n \in DOMAIN arts[r.table],
         arts[r.table][n] = r
  PROVE  Repeated(arts, [arts EXCEPT ![r.table] = Append(@, r)])
<1> DEFINE more == [arts EXCEPT ![r.table] = Append(@, r)]
<1> SUFFICES ASSUME NEW t \in Table
             PROVE  /\ arts[t] = <<>> <=> more[t] = <<>>
                    /\ DOMAIN arts[t] \subseteq DOMAIN more[t] /\ DOMAIN more[t] \subseteq Nat
                    /\ \A i \in DOMAIN arts[t] : more[t][i] = arts[t][i]
                    /\ \A i \in DOMAIN more[t] \ DOMAIN arts[t] :
                         /\ \A k \in DOMAIN arts[t] : k < i
                         /\ \E k \in DOMAIN arts[t] : arts[t][k] = more[t][i]
  BY DEF Repeated
<1>1. arts[t] \in Seq(Row) /\ arts \in [Table -> Seq(Row)]
  BY DEF Tables
<1>2. CASE t = r.table
  <2>1. more[t] = Append(arts[t], r)
    BY <1>1, <1>2
  <2>2. DOMAIN more[t] = 1..(Len(arts[t]) + 1) /\ DOMAIN arts[t] = 1..Len(arts[t])
        /\ Len(arts[t]) \in Nat
    BY <1>1, <2>1
  <2>3. more[t][Len(arts[t]) + 1] = r /\ \A i \in DOMAIN arts[t] : more[t][i] = arts[t][i]
    BY <1>1, <2>1
  <2>4. arts[t] # <<>> /\ more[t] # <<>>
    BY <1>2, <2>2
  <2>5. \A i \in DOMAIN more[t] \ DOMAIN arts[t] : i = Len(arts[t]) + 1
    BY <2>2
  <2> HIDE DEF more
  <2> QED BY <1>2, <2>2, <2>3, <2>4, <2>5
<1>3. CASE t # r.table
  <2>1. more[t] = arts[t]
    BY <1>1, <1>3
  <2> HIDE DEF more
  <2> QED BY <1>1, <2>1
<1> QED BY <1>2, <1>3

\* What is found on the copies besides follows what is found on the rows, under keys
\* that are taken.
Covers(found, later) ==
  /\ found \subseteq later
  /\ \A f \in later : \E g \in found : g.key = f.key /\ (g = f \/ Before(g, f))

Place == Nat \X Nat \X Nat

LEMMA BeforeTransitive ==
  ASSUME NEW f, NEW g, NEW h, f.place \in Place, g.place \in Place, h.place \in Place,
         Before(f, g), Before(g, h)
  PROVE  Before(f, h)
BY DEF Before, Place

LEMMA CoveredIsUnique ==
  ASSUME NEW found, NEW later, Covers(found, later), \A f \in later : f.place \in Place
  PROVE  Unique(found) = Unique(later)
<1>1. ASSUME NEW f \in Unique(found) PROVE f \in Unique(later)
  <2>1. f \in later
    BY <1>1 DEF Unique, Covers
  <2>2. ASSUME NEW g \in later, Before(g, f) PROVE g.key # f.key
    <3>1. PICK h \in found : h.key = g.key /\ (h = g \/ Before(h, g))
      BY DEF Covers
    <3>2. h \in later
      BY DEF Covers
    <3>3. Before(h, f)
      BY <2>1, <2>2, <3>1, <3>2, BeforeTransitive
    <3> QED BY <1>1, <3>1, <3>3 DEF Unique
  <2> QED BY <2>1, <2>2 DEF Unique
<1>2. ASSUME NEW f \in Unique(later) PROVE f \in Unique(found)
  <2>1. PICK g \in found : g.key = f.key /\ (g = f \/ Before(g, f))
    BY DEF Covers, Unique
  <2>2. g = f
    BY <2>1 DEF Covers, Unique
  <2> QED BY <2>1, <2>2 DEF Covers, Unique
<1> QED BY <1>1, <1>2

LEMMA CoversUnion ==
  ASSUME NEW F, NEW G, NEW H, NEW I, Covers(F, G), Covers(H, I)
  PROVE  Covers(F \cup H, G \cup I)
BY DEF Covers

LEMMA SingleCovers ==
  ASSUME NEW arts, NEW more, Repeated(arts, more), NEW table \in Table, NEW wanted,
         NEW rank \in Nat, NEW field, NEW score, NEW groups, NEW context
  PROVE  Covers(Single(arts, rank, table, Rows(arts, table, wanted), field, score, groups, context),
                Single(more, rank, table, Rows(more, table, wanted), field, score, groups, context))
<1> DEFINE F == Single(arts, rank, table, Rows(arts, table, wanted), field, score, groups, context)
           G == Single(more, rank, table, Rows(more, table, wanted), field, score, groups, context)
           Of(i, row) == Finding(<<rank, i, 0>>, row[field], score, groups, context)
<1>1. F = {Of(i, arts[table][i]) : i \in Rows(arts, table, wanted)}
      /\ G = {Of(i, more[table][i]) : i \in Rows(more, table, wanted)}
  BY DEF Single
<1>2. F \subseteq G
  <2>1. \A i \in Rows(arts, table, wanted) :
          i \in Rows(more, table, wanted) /\ more[table][i] = arts[table][i]
    BY DEF Rows, Repeated
  <2> HIDE DEF F, G, Of
  <2> QED BY <1>1, <2>1
<1>3. ASSUME NEW i \in Rows(more, table, wanted)
      PROVE  \E g \in F : /\ g.key = Of(i, more[table][i]).key
                          /\ g = Of(i, more[table][i]) \/ Before(g, Of(i, more[table][i]))
  <2>1. CASE i \in DOMAIN arts[table]
    BY <1>1, <2>1 DEF Rows, Repeated
  <2>2. CASE i \notin DOMAIN arts[table]
    <3>1. PICK k \in DOMAIN arts[table] : arts[table][k] = more[table][i] /\ k < i
      BY <1>3, <2>2 DEF Rows, Repeated
    <3>2. Of(k, arts[table][k]) \in F
      BY <1>1, <1>3, <3>1 DEF Rows
    <3>3. Of(k, arts[table][k]).key = Of(i, more[table][i]).key
      BY <3>1 DEF Finding
    <3>4. Before(Of(k, arts[table][k]), Of(i, more[table][i]))
      BY <3>1 DEF Before, Finding
    <3> QED BY <3>2, <3>3, <3>4
  <2> QED BY <2>1, <2>2
<1>4. Covers(F, G)
  <2> HIDE DEF F, G, Of
  <2> QED BY <1>1, <1>2, <1>3 DEF Covers
<1> QED BY <1>4

LEMMA LinkedCovers ==
  ASSUME NEW arts, NEW more, Repeated(arts, more), NEW table \in Table, NEW wanted,
         NEW rank \in Nat, NEW field, NEW score, NEW groups, NEW context
  PROVE  Covers(Linked(arts, rank, table, Rows(arts, table, wanted), field, score, groups, context),
                Linked(more, rank, table, Rows(more, table, wanted), field, score, groups, context))
<1> DEFINE F == Linked(arts, rank, table, Rows(arts, table, wanted), field, score, groups, context)
           G == Linked(more, rank, table, Rows(more, table, wanted), field, score, groups, context)
           Of(i, k, region, row) ==
             Finding(<<rank, i, k>>, <<region.range, row[field]>>, score, groups, context)
           Regions(a) == Rows(a, "memory_region", Suspicious)
<1>1. /\ F = {Of(p[1], p[2], arts["memory_region"][p[1]], arts[table][p[2]]) :
                p \in Regions(arts) \X Rows(arts, table, wanted)}
      /\ G = {Of(p[1], p[2], more["memory_region"][p[1]], more[table][p[2]]) :
                p \in Regions(more) \X Rows(more, table, wanted)}
  BY DEF Linked
<1>2. ASSUME NEW t \in Table, NEW W, NEW i \in Rows(more, t, W)
      PROVE  \E k \in Rows(arts, t, W) : arts[t][k] = more[t][i] /\ (k = i \/ k < i)
             /\ i \in Nat /\ k \in Nat
  BY DEF Rows, Repeated
<1>3. "memory_region" \in Table
  BY DEF Table
<1>4. F \subseteq G
  <2>1. \A t \in Table : \A W : \A i \in Rows(arts, t, W) : i \in Rows(more, t, W) /\ more[t][i] = arts[t][i]
    BY DEF Rows, Repeated
  <2> HIDE DEF F, G, Of
  <2> QED BY <1>1, <1>3, <2>1
<1>5. ASSUME NEW i \in Regions(more), NEW k \in Rows(more, table, wanted)
      PROVE  \E g \in F :
               LET f == Of(i, k, more["memory_region"][i], more[table][k])
               IN g.key = f.key /\ (g = f \/ Before(g, f))
  <2>1. PICK m \in Regions(arts) :
          arts["memory_region"][m] = more["memory_region"][i] /\ (m = i \/ m < i) /\ i \in Nat /\ m \in Nat
    BY <1>2, <1>3
  <2>2. PICK n \in Rows(arts, table, wanted) :
          arts[table][n] = more[table][k] /\ (n = k \/ n < k) /\ k \in Nat /\ n \in Nat
    BY <1>2
  <2> DEFINE f == Of(i, k, more["memory_region"][i], more[table][k])
             g == Of(m, n, arts["memory_region"][m], arts[table][n])
  <2>3. g \in F
    <3> HIDE DEF Of, F
    <3>1. <<m, n>> \in Regions(arts) \X Rows(arts, table, wanted)
      OBVIOUS
    <3> QED BY <1>1, <3>1
  <2>4. g.key = f.key
    BY <2>1, <2>2 DEF Finding
  <2>5. g = f \/ Before(g, f)
    <3>1. g.place = <<rank, m, n>> /\ f.place = <<rank, i, k>>
      BY DEF Finding
    <3>2. CASE m = i /\ n = k
      BY <2>1, <2>2, <3>2
    <3>3. CASE m < i \/ (m = i /\ n < k)
      <4> HIDE DEF f, g
      <4> QED BY <2>1, <2>2, <3>1, <3>3 DEF Before
    <3> QED BY <2>1, <2>2, <3>2, <3>3
  <2> HIDE DEF F, f, g
  <2> QED BY <2>3, <2>4, <2>5 DEF f
<1>6. Covers(F, G)
  <2> HIDE DEF F, G, Of
  <2> QED BY <1>1, <1>4, <1>5 DEF Covers
<1> QED BY <1>6

YaraFinding(match, rank, i, correlated) ==
  LET m    == Metadata[match.rule]
      seen == ReadSeverity(m, correlated)
  IN [place |-> <<rank, i, 0>>, key |-> <<0, <<match.rule, match.plugin>>>>,
       score |-> SeverityScore[YaraSeverity(m, correlated)],
       groups |-> {"yara_match"}, context |-> FALSE, specific |-> m.specific,
       trusted |-> m.trusted /\ ~m.noisy /\ seen \in Alarming,
       decisive |-> HighConfidence(m) /\ seen = "critical"]

LEMMA YaraForm ==
  \A arts, rank, matches, correlated :
    YaraFindings(arts, rank, matches, correlated)
      = {YaraFinding(arts["yara"][i], rank, i, correlated) : i \in Representatives(arts, matches)}
BY DEF YaraFindings, YaraFinding

LEMMA MatchesCover ==
  ASSUME NEW arts, NEW more, Repeated(arts, more), NEW wanted
  PROVE  /\ Representatives(arts, Rows(arts, "yara", wanted))
              = Representatives(more, Rows(more, "yara", wanted))
         /\ \A i \in Representatives(arts, Rows(arts, "yara", wanted)) :
              arts["yara"][i] = more["yara"][i]
<1> DEFINE R == Representatives(arts, Rows(arts, "yara", wanted))
           S == Representatives(more, Rows(more, "yara", wanted))
<1>1. "yara" \in Table
  BY DEF Table
<1>2. \A i \in R : i \in S
  BY <1>1 DEF Representatives, Rows, Repeated
<1>3. ASSUME NEW i \in S PROVE i \in R
  <2>1. i \in DOMAIN arts["yara"]
    <3>1. SUFFICES ASSUME i \notin DOMAIN arts["yara"] PROVE FALSE
      OBVIOUS
    <3>2. PICK k \in DOMAIN arts["yara"] : arts["yara"][k] = more["yara"][i] /\ k < i
      BY <1>1, <1>3, <3>1 DEF Representatives, Rows, Repeated
    <3> QED BY <1>1, <1>3, <3>2 DEF Representatives, Rows, Repeated
  <2> QED BY <1>1, <1>3, <2>1 DEF Representatives, Rows, Repeated
<1>4. R = S /\ \A i \in R : arts["yara"][i] = more["yara"][i]
  BY <1>1, <1>2, <1>3 DEF Representatives, Rows, Repeated
<1> QED BY <1>4

\* The matches that are reported for the process, as rows.
MemoryMatch(regions) ==
  {r \in RowsOf("yara") : InMemory(r) /\ ~JobSummaryOnly(Metadata[r.rule], regions)}
ProcessMatch == {r \in RowsOf("yara") : ~JobSummaryOnly(Metadata[r.rule], FALSE)}

LEMMA MatchRows ==
  ASSUME NEW arts \in Tables
  PROVE  /\ MemoryMatches(arts) = Rows(arts, "yara", MemoryMatch(HasRegions(arts)))
         /\ ProcessMatches(arts) = Rows(arts, "yara", ProcessMatch)
<1>1. \A i \in DOMAIN arts["yara"] : arts["yara"][i] \in RowsOf("yara")
  BY DEF Tables, Table, RowsOf
<1> QED BY <1>1 DEF MemoryMatches, ProcessMatches, Rows, MemoryMatch, ProcessMatch

\* Each rule's findings have natural numbers as places.
LEMMA FindingPlaces ==
  ASSUME NEW arts \in Tables
  PROVE  \A f \in Findings(arts) : f.place \in Place
<1>1. \A t \in Table : DOMAIN arts[t] \subseteq Nat
  BY DEF Tables
<1>2. \A t \in Table, rank \in Nat :
        \A rows \in SUBSET (DOMAIN arts[t]) : \A field, score, groups, context :
          \A f \in Single(arts, rank, t, rows, field, score, groups, context) : f.place \in Place
  BY <1>1 DEF Single, Finding, Place
<1>3. \A t \in Table, rank \in Nat :
        \A rows \in SUBSET (DOMAIN arts[t]) : \A field, score, groups, context :
          \A f \in Linked(arts, rank, t, rows, field, score, groups, context) : f.place \in Place
  BY <1>1 DEF Linked, Rows, Finding, Place, Table
<1>4. \A rank \in Nat : \A rows \in SUBSET (DOMAIN arts["yara"]) : \A correlated :
        \A f \in YaraFindings(arts, rank, rows, correlated) : f.place \in Place
  BY <1>1 DEF YaraFindings, Representatives, Place, Table
<1>5. \A t \in Table : \A wanted : Rows(arts, t, wanted) \subseteq DOMAIN arts[t]
  BY DEF Rows
<1>6. Hidden(arts) \subseteq DOMAIN arts["process"]
  BY DEF Hidden, Rows
<1>7. MemoryMatches(arts) \subseteq DOMAIN arts["yara"] /\ ProcessMatches(arts) \subseteq DOMAIN arts["yara"]
  BY DEF MemoryMatches, ProcessMatches
<1>8. \A f \in CommandFindings(arts) \cup TableFindings(arts) \cup ProcessFindings(arts) :
        f.place \in Place
  BY <1>2, <1>5, <1>6 DEF CommandFindings, TableFindings, ProcessFindings, Table
<1>9. \A f \in RegionFindings(arts, 3) \cup RegionFindings(arts, 8) : f.place \in Place
  BY <1>2, <1>5 DEF RegionFindings, Table
<1>10. \A f \in CorrelationFindings(arts) : f.place \in Place
  BY <1>3, <1>5 DEF CorrelationFindings, Table
<1> QED BY <1>4, <1>7, <1>8, <1>9, <1>10 DEF Findings

LEMMA FindingsCover ==
  ASSUME NEW arts \in Tables, NEW more \in Tables, Repeated(arts, more)
  PROVE  Covers(Findings(arts), Findings(more))
<1>1. \A t \in Table : \A wanted, field, score, groups, context : \A rank \in Nat :
        Covers(Single(arts, rank, t, Rows(arts, t, wanted), field, score, groups, context),
               Single(more, rank, t, Rows(more, t, wanted), field, score, groups, context))
  BY SingleCovers
<1>2. \A t \in Table : \A wanted, field, score, groups, context : \A rank \in Nat :
        Covers(Linked(arts, rank, t, Rows(arts, t, wanted), field, score, groups, context),
               Linked(more, rank, t, Rows(more, t, wanted), field, score, groups, context))
  BY LinkedCovers
<1>3. HasRegions(arts) = HasRegions(more)
  BY DEF HasRegions, Repeated, Table
<1>4. YaraFindings(arts, 7, MemoryMatches(arts), HasRegions(arts))
        = YaraFindings(more, 7, MemoryMatches(more), HasRegions(more))
  BY <1>3, MatchesCover, MatchRows DEF YaraFindings
<1>5. YaraFindings(arts, 14, ProcessMatches(arts), FALSE)
        = YaraFindings(more, 14, ProcessMatches(more), FALSE)
  <2> DEFINE R == Representatives(arts, ProcessMatches(arts))
             S == Representatives(more, ProcessMatches(more))
  <2>1. R = S /\ \A i \in R : arts["yara"][i] = more["yara"][i]
    BY MatchesCover, MatchRows
  <2> HIDE DEF R, S
  <2>2. {YaraFinding(arts["yara"][i], 14, i, FALSE) : i \in R}
          = {YaraFinding(more["yara"][i], 14, i, FALSE) : i \in S}
    BY <2>1
  <2> QED BY <2>2, YaraForm DEF R, S
<1>6. Covers(CommandFindings(arts), CommandFindings(more))
  BY <1>1, CoversUnion DEF CommandFindings, Table
<1>7. Covers(RegionFindings(arts, 3), RegionFindings(more, 3))
      /\ Covers(RegionFindings(arts, 8), RegionFindings(more, 8))
  BY <1>1 DEF RegionFindings, Table
<1>8. Covers(CorrelationFindings(arts), CorrelationFindings(more))
  BY <1>2, CoversUnion DEF CorrelationFindings, Table
<1>9. Covers(TableFindings(arts), TableFindings(more))
  BY <1>1, CoversUnion DEF TableFindings, Table
<1>10. Covers(ProcessFindings(arts), ProcessFindings(more))
  <2>1. Rows(arts, "process", Pslist) = {} <=> Rows(more, "process", Pslist) = {}
    BY DEF Rows, Repeated, Table
  <2>2. \E wanted : /\ Hidden(arts) = Rows(arts, "process", wanted)
                    /\ Hidden(more) = Rows(more, "process", wanted)
    <3>1. \A a : Rows(a, "process", {}) = {}
      BY DEF Rows
    <3> QED BY <2>1, <3>1 DEF Hidden
  <2> QED BY <1>1, <2>2, CoversUnion DEF ProcessFindings, Table
<1>11. \A F : Covers(F, F)
  BY DEF Covers
<1> QED BY <1>4, <1>5, <1>6, <1>7, <1>8, <1>9, <1>10, <1>11, CoversUnion DEF Findings

\* Repeated rows change no summary.
LEMMA RepeatedSummary ==
  ASSUME NEW arts \in Tables, NEW more \in Tables, Repeated(arts, more)
  PROVE  ProcessSummary(more) = ProcessSummary(arts)
<1>1. Unique(Findings(arts)) = Unique(Findings(more))
  BY FindingsCover, FindingPlaces, CoveredIsUnique
<1> QED BY <1>1 DEF ProcessSummary

\* A row the database already had changes nothing in the summary, not even where the
\* component limit cuts, for any rows, rules and metadata.
THEOREM RepeatsStayQuiet == Spec => RepeatsDoNotInflate
<1>1. TypeOK /\ [Next]_vars
        => [\A r \in Row :
              (StoreRow(r) /\ \E i \in DOMAIN artifacts[r.table] : artifacts[r.table][i] = r)
                => ProcessSummary(artifacts') = ProcessSummary(artifacts)]_vars
  <2> SUFFICES ASSUME TypeOK, NEW r \in Row, StoreRow(r), NEW n \in DOMAIN artifacts[r.table],
                      artifacts[r.table][n] = r
               PROVE  ProcessSummary(artifacts') = ProcessSummary(artifacts)
    OBVIOUS
  <2>1. PICK arts, more : arts = artifacts /\ more = artifacts'
    OBVIOUS
  <2>2. arts \in Tables
    BY <2>1 DEF TypeOK, Tables
  <2>3. more = [arts EXCEPT ![r.table] = Append(@, r)]
    BY <2>1 DEF StoreRow
  <2>4. Repeated(arts, more)
    <3>1. n \in DOMAIN arts[r.table] /\ arts[r.table][n] = r
      BY <2>1
    <3>2. Repeated(arts, [arts EXCEPT ![r.table] = Append(@, r)])
      BY <2>2, <3>1, CopyRepeats
    <3> QED BY <2>3, <3>2
  <2>5. more \in Tables
    BY <2>2, <2>3, AppendOK
  <2> QED BY <2>1, <2>2, <2>4, <2>5, RepeatedSummary
<1> QED BY <1>1, RiskTypeCorrect, PTL DEF Spec, RepeatsDoNotInflate

-----------------------------------------------------------------------------
(* The order of rows. *)

\* Every row of one database is in the other.
Included(arts, other) ==
  \A t \in Table : \A i \in DOMAIN arts[t] : \E k \in DOMAIN other[t] : other[t][k] = arts[t][i]
SameRows(arts, other) ==
  /\ Included(arts, other)
  /\ \A t \in Table : arts[t] = <<>> <=> other[t] = <<>>

\* Two findings of one rule that differ in the rows' places at most.
Alike(f, g) ==
  /\ f.place[1] = g.place[1] /\ f.key = g.key /\ f.score = g.score
  /\ f.groups = g.groups /\ f.context = g.context /\ f.specific = g.specific
  /\ f.trusted = g.trusted /\ f.decisive = g.decisive

Echoed(found, other) == \A f \in found : \E g \in other : Alike(f, g)

LEMMA EchoedUnion ==
  ASSUME NEW F, NEW G, NEW H, NEW I, Echoed(F, G), Echoed(H, I)
  PROVE  Echoed(F \cup H, G \cup I)
BY DEF Echoed

LEMMA LeastNumber ==
  ASSUME NEW T \in SUBSET Nat, T # {}
  PROVE  \E x \in T : \A y \in T : x <= y
<1> DEFINE Less == {p \in Nat \X Nat : p[1] < p[2]}
<1>1. IsWellFoundedOn(Less, Nat)
  BY NatLessThanWellFounded, Zenon DEF OpToRel
<1>2. PICK x \in T : \A y \in T : <<y, x>> \notin Less
  <2> HIDE DEF Less
  <2> QED BY <1>1, WFMin
<1>3. ASSUME NEW y \in T PROVE x <= y
  <2>1. x \in Nat /\ y \in Nat /\ <<y, x>> \in Nat \X Nat
    OBVIOUS
  <2>2. ~(<<y, x>>[1] < <<y, x>>[2])
    BY <1>2, <2>1
  <2> QED BY <2>1, <2>2
<1> QED BY <1>3

LEMMA LeastPlace ==
  ASSUME NEW S, S # {}, \A f \in S : f.place \in Place
  PROVE  \E f \in S : \A g \in S : ~Before(g, f)
<1>1. \A f \in S : f.place[1] \in Nat /\ f.place[2] \in Nat /\ f.place[3] \in Nat
  BY DEF Place
<1> DEFINE First == {f.place[1] : f \in S}
<1>2. PICK a \in First : \A y \in First : a <= y
  BY <1>1, LeastNumber
<1> DEFINE Second == {f.place[2] : f \in {g \in S : g.place[1] = a}}
<1>3. PICK b \in Second : \A y \in Second : b <= y
  BY <1>1, <1>2, LeastNumber
<1> DEFINE Third == {f.place[3] : f \in {g \in S : g.place[1] = a /\ g.place[2] = b}}
<1>4. PICK c \in Third : \A y \in Third : c <= y
  <2>1. Third # {} /\ Third \in SUBSET Nat
    BY <1>1, <1>3
  <2> HIDE DEF Third
  <2> QED BY <2>1, LeastNumber
<1>5. PICK f \in S : f.place[1] = a /\ f.place[2] = b /\ f.place[3] = c
  BY <1>4
<1>6. ASSUME NEW g \in S PROVE ~Before(g, f)
  <2>1. a <= g.place[1]
    BY <1>2
  <2>2. g.place[1] = a => b <= g.place[2]
    BY <1>3
  <2>3. g.place[1] = a /\ g.place[2] = b => c <= g.place[3]
    BY <1>4
  <2> QED BY <1>1, <1>5, <2>1, <2>2, <2>3 DEF Before
<1> QED BY <1>6

LEMMA SingleEchoed ==
  ASSUME NEW arts, NEW other, Included(arts, other), NEW table \in Table, NEW wanted,
         NEW rank \in Nat, NEW field, NEW score, NEW groups, NEW context
  PROVE  Echoed(Single(arts, rank, table, Rows(arts, table, wanted), field, score, groups, context),
                Single(other, rank, table, Rows(other, table, wanted), field, score, groups, context))
<1> DEFINE F == Single(arts, rank, table, Rows(arts, table, wanted), field, score, groups, context)
           G == Single(other, rank, table, Rows(other, table, wanted), field, score, groups, context)
           Of(i, row) == Finding(<<rank, i, 0>>, row[field], score, groups, context)
<1>1. F = {Of(i, arts[table][i]) : i \in Rows(arts, table, wanted)}
      /\ G = {Of(i, other[table][i]) : i \in Rows(other, table, wanted)}
  BY DEF Single
<1>2. \A i \in Rows(arts, table, wanted) :
        \E k \in Rows(other, table, wanted) : other[table][k] = arts[table][i]
  BY DEF Rows, Included
<1>3. \A i, k, row : Alike(Of(i, row), Of(k, row))
  BY DEF Alike, Finding
<1>4. Echoed(F, G)
  <2> HIDE DEF F, G, Of
  <2> QED BY <1>1, <1>2, <1>3 DEF Echoed
<1> QED BY <1>4

LEMMA LinkedEchoed ==
  ASSUME NEW arts, NEW other, Included(arts, other), NEW table \in Table, NEW wanted,
         NEW rank \in Nat, NEW field, NEW score, NEW groups, NEW context
  PROVE  Echoed(Linked(arts, rank, table, Rows(arts, table, wanted), field, score, groups, context),
                Linked(other, rank, table, Rows(other, table, wanted), field, score, groups, context))
<1> DEFINE F == Linked(arts, rank, table, Rows(arts, table, wanted), field, score, groups, context)
           G == Linked(other, rank, table, Rows(other, table, wanted), field, score, groups, context)
           Of(i, k, region, row) ==
             Finding(<<rank, i, k>>, <<region.range, row[field]>>, score, groups, context)
           Regions(a) == Rows(a, "memory_region", Suspicious)
<1>1. /\ F = {Of(p[1], p[2], arts["memory_region"][p[1]], arts[table][p[2]]) :
                p \in Regions(arts) \X Rows(arts, table, wanted)}
      /\ G = {Of(p[1], p[2], other["memory_region"][p[1]], other[table][p[2]]) :
                p \in Regions(other) \X Rows(other, table, wanted)}
  BY DEF Linked
<1>2. \A t \in Table : \A W : \A i \in Rows(arts, t, W) : \E k \in Rows(other, t, W) :
        other[t][k] = arts[t][i]
  BY DEF Rows, Included
<1>3. \A i, k, m, n, region, row : Alike(Of(i, k, region, row), Of(m, n, region, row))
  BY DEF Alike, Finding
<1>4. "memory_region" \in Table
  BY DEF Table
<1>5. Echoed(F, G)
  <2> HIDE DEF F, G, Of
  <2> SUFFICES ASSUME NEW f \in F PROVE \E g \in G : Alike(f, g)
    BY DEF Echoed
  <2>1. PICK p \in Regions(arts) \X Rows(arts, table, wanted) :
          f = Of(p[1], p[2], arts["memory_region"][p[1]], arts[table][p[2]])
    BY <1>1
  <2>2. PICK m \in Regions(other) : other["memory_region"][m] = arts["memory_region"][p[1]]
    BY <1>2, <1>4
  <2>3. PICK n \in Rows(other, table, wanted) : other[table][n] = arts[table][p[2]]
    BY <1>2
  <2> DEFINE g == Of(m, n, other["memory_region"][m], other[table][n])
  <2>4. <<m, n>> \in Regions(other) \X Rows(other, table, wanted)
    OBVIOUS
  <2>5. g \in G
    BY <1>1, <2>4
  <2>6. Alike(f, g)
    BY <1>3, <2>1, <2>2, <2>3
  <2> QED BY <2>5, <2>6
<1> QED BY <1>5

\* Of the matches of a rule and a plugin the first one stands for the others; which
\* one that is does not show.
LEMMA MatchesEchoed ==
  ASSUME NEW arts \in Tables, NEW other \in Tables, Included(arts, other), NEW wanted,
         NEW rank, NEW correlated
  PROVE  Echoed(YaraFindings(arts, rank, Rows(arts, "yara", wanted), correlated),
                YaraFindings(other, rank, Rows(other, "yara", wanted), correlated))
<1> DEFINE R == Representatives(arts, Rows(arts, "yara", wanted))
           S == Representatives(other, Rows(other, "yara", wanted))
<1>1. "yara" \in Table /\ DOMAIN other["yara"] \subseteq Nat
  BY DEF Table, Tables
<1>2. ASSUME NEW i \in R
      PROVE  \E k \in S : /\ other["yara"][k].rule = arts["yara"][i].rule
                          /\ other["yara"][k].plugin = arts["yara"][i].plugin
  <2> DEFINE T == {k \in Rows(other, "yara", wanted) :
                     /\ other["yara"][k].rule = arts["yara"][i].rule
                     /\ other["yara"][k].plugin = arts["yara"][i].plugin}
  <2>1. T # {} /\ T \subseteq Nat
    BY <1>1 DEF Representatives, Rows, Included
  <2>2. PICK k \in T : \A m \in T : k <= m
    <3> HIDE DEF T
    <3> QED BY <2>1, LeastNumber
  <2>3. \A m \in Rows(other, "yara", wanted) : m < k => m \notin T
    BY <1>1, <2>1, <2>2 DEF Rows
  <2> QED BY <2>2, <2>3 DEF Representatives
<1>3. \A i, k, match, copy : match.rule = copy.rule /\ match.plugin = copy.plugin
        => Alike(YaraFinding(match, rank, i, correlated), YaraFinding(copy, rank, k, correlated))
  BY DEF Alike, YaraFinding
<1> HIDE DEF R, S
<1>4. Echoed({YaraFinding(arts["yara"][i], rank, i, correlated) : i \in R},
             {YaraFinding(other["yara"][i], rank, i, correlated) : i \in S})
  BY <1>2, <1>3 DEF Echoed
<1> QED BY <1>4, YaraForm DEF R, S

LEMMA FindingsEchoed ==
  ASSUME NEW arts \in Tables, NEW other \in Tables, SameRows(arts, other), SameRows(other, arts)
  PROVE  Echoed(Findings(arts), Findings(other))
<1>1. \A t \in Table : \A wanted, field, score, groups, context : \A rank \in Nat :
        Echoed(Single(arts, rank, t, Rows(arts, t, wanted), field, score, groups, context),
               Single(other, rank, t, Rows(other, t, wanted), field, score, groups, context))
  BY SingleEchoed DEF SameRows
<1>2. \A t \in Table : \A wanted, field, score, groups, context : \A rank \in Nat :
        Echoed(Linked(arts, rank, t, Rows(arts, t, wanted), field, score, groups, context),
               Linked(other, rank, t, Rows(other, t, wanted), field, score, groups, context))
  BY LinkedEchoed DEF SameRows
<1>3. HasRegions(arts) = HasRegions(other)
  BY DEF HasRegions, SameRows, Table
<1>4. \A wanted, rank, correlated :
        Echoed(YaraFindings(arts, rank, Rows(arts, "yara", wanted), correlated),
               YaraFindings(other, rank, Rows(other, "yara", wanted), correlated))
  BY MatchesEchoed DEF SameRows
<1>5. Echoed(YaraFindings(arts, 7, MemoryMatches(arts), HasRegions(arts)),
             YaraFindings(other, 7, MemoryMatches(other), HasRegions(other)))
  BY <1>3, <1>4, MatchRows
<1>6. Echoed(YaraFindings(arts, 14, ProcessMatches(arts), FALSE),
             YaraFindings(other, 14, ProcessMatches(other), FALSE))
  BY <1>4, MatchRows
<1>7. Echoed(CommandFindings(arts), CommandFindings(other))
  BY <1>1, EchoedUnion DEF CommandFindings, Table
<1>8. Echoed(RegionFindings(arts, 3), RegionFindings(other, 3))
      /\ Echoed(RegionFindings(arts, 8), RegionFindings(other, 8))
  BY <1>1 DEF RegionFindings, Table
<1>9. Echoed(CorrelationFindings(arts), CorrelationFindings(other))
  BY <1>2, EchoedUnion DEF CorrelationFindings, Table
<1>10. Echoed(TableFindings(arts), TableFindings(other))
  BY <1>1, EchoedUnion DEF TableFindings, Table
<1>11. Echoed(ProcessFindings(arts), ProcessFindings(other))
  <2>1. Rows(arts, "process", Pslist) = {} <=> Rows(other, "process", Pslist) = {}
    BY DEF Rows, SameRows, Included, Table
  <2>2. \E wanted : /\ Hidden(arts) = Rows(arts, "process", wanted)
                    /\ Hidden(other) = Rows(other, "process", wanted)
    <3>1. \A a : Rows(a, "process", {}) = {}
      BY DEF Rows
    <3> QED BY <2>1, <3>1 DEF Hidden
  <2> QED BY <1>1, <2>2, EchoedUnion DEF ProcessFindings, Table
<1> QED BY <1>5, <1>6, <1>7, <1>8, <1>9, <1>10, <1>11, EchoedUnion DEF Findings

\* What the rule and the key of a finding say of the rest of it.
RuleScore == <<8, 5, IF benign THEN 5 ELSE 8, 13, 13, 0, 0, IF benign THEN 5 ELSE 8, 5, 5,
               8, 5, 8>>
RuleGroups ==
  <<{"suspicious_command"}, {"suspicious_command_keywords"}, {"memory_region"},
    {"memory_region", "network_endpoint"}, {"memory_region", "suspicious_command"}, {}, {},
    {"memory_region"}, {"suspicious_module"}, {"network_endpoint"},
    {"win_system_process_wrong_path"}, {"win_suspicious_parent_child"},
    {"win_psscan_only_process"}>>

Unmatched(f) == f.specific = FALSE /\ f.trusted = FALSE /\ f.decisive = FALSE
RowFinding(f) ==
  /\ f.place[1] \in 1..13 \ {6, 7}
  /\ f.score = RuleScore[f.place[1]]
  /\ f.groups = RuleGroups[f.place[1]]
  /\ f.place[1] \in {3, 8} => f.context = benign
  /\ f.place[1] \notin {3, 8} => f.context = FALSE
  /\ Unmatched(f)
ModuleFinding(f) ==
  /\ f.place[1] = 6
  /\ f.key[2][2] = "microsoft" =>
       f.score = 5 /\ f.groups = {"memory_region", "module_context"} /\ f.context = TRUE
  /\ f.key[2][2] # "microsoft" =>
       f.score = 10 /\ f.groups = {"memory_region", "suspicious_module"} /\ f.context = FALSE
  /\ Unmatched(f)
MatchFinding(f, rank, correlated) ==
  /\ f.place[1] = rank
  /\ \E rule, plugin : /\ f.key = <<0, <<rule, plugin>>>>
                       /\ Alike(f, YaraFinding([rule |-> rule, plugin |-> plugin], rank, 0, correlated))

Form(f) == f = [place |-> f.place, key |-> f.key, score |-> f.score, groups |-> f.groups,
                context |-> f.context, specific |-> f.specific, trusted |-> f.trusted,
                decisive |-> f.decisive]

LEMMA RuleTable ==
  /\ RuleScore[1] = 8 /\ RuleGroups[1] = {"suspicious_command"}
  /\ RuleScore[2] = 5 /\ RuleGroups[2] = {"suspicious_command_keywords"}
  /\ \A rank \in {3, 8} : /\ RuleScore[rank] = IF benign THEN 5 ELSE 8
                         /\ RuleGroups[rank] = {"memory_region"}
  /\ RuleScore[4] = 13 /\ RuleGroups[4] = {"memory_region", "network_endpoint"}
  /\ RuleScore[5] = 13 /\ RuleGroups[5] = {"memory_region", "suspicious_command"}
  /\ RuleScore[9] = 5 /\ RuleGroups[9] = {"suspicious_module"}
  /\ RuleScore[10] = 5 /\ RuleGroups[10] = {"network_endpoint"}
  /\ RuleScore[11] = 8 /\ RuleGroups[11] = {"win_system_process_wrong_path"}
  /\ RuleScore[12] = 5 /\ RuleGroups[12] = {"win_suspicious_parent_child"}
  /\ RuleScore[13] = 8 /\ RuleGroups[13] = {"win_psscan_only_process"}
BY DEF RuleScore, RuleGroups

LEMMA RowFindingOf ==
  ASSUME NEW f, NEW rank \in {1, 2, 4, 5, 9, 10, 11, 12, 13}, f.place[1] = rank,
         f.score = RuleScore[rank], f.groups = RuleGroups[rank], f.context = FALSE, Unmatched(f)
  PROVE  RowFinding(f)
BY DEF RowFinding

LEMMA SingleForm ==
  \A arts, rank, table, rows, field, score, groups, context :
    \A f \in Single(arts, rank, table, rows, field, score, groups, context) :
      /\ Form(f) /\ Unmatched(f)
      /\ f.place[1] = rank /\ f.score = score /\ f.groups = groups /\ f.context = context
BY DEF Single, Finding, Form, Unmatched

LEMMA LinkedForm ==
  \A arts, rank, table, rows, field, score, groups, context :
    \A f \in Linked(arts, rank, table, rows, field, score, groups, context) :
      /\ Form(f) /\ Unmatched(f)
      /\ f.place[1] = rank /\ f.score = score /\ f.groups = groups /\ f.context = context
      /\ \E k \in rows : f.key[2][2] = arts[table][k][field]
BY DEF Linked, Finding, Form, Unmatched

LEMMA MatchForm ==
  ASSUME NEW arts, NEW rank, NEW matches, NEW correlated
  PROVE  \A f \in YaraFindings(arts, rank, matches, correlated) :
           Form(f) /\ MatchFinding(f, rank, correlated)
<1> SUFFICES ASSUME NEW f \in YaraFindings(arts, rank, matches, correlated)
             PROVE  Form(f) /\ MatchFinding(f, rank, correlated)
  OBVIOUS
<1>1. PICK i \in Representatives(arts, matches) : f = YaraFinding(arts["yara"][i], rank, i, correlated)
  BY YaraForm
<1>2. Form(f) /\ f.place[1] = rank
  BY <1>1 DEF YaraFinding, Form
<1> DEFINE rule == arts["yara"][i].rule
           plugin == arts["yara"][i].plugin
<1>3. f.key = <<0, <<rule, plugin>>>>
  BY <1>1 DEF YaraFinding
<1>4. Alike(f, YaraFinding([rule |-> rule, plugin |-> plugin], rank, 0, correlated))
  BY <1>1 DEF YaraFinding, Alike
<1> QED BY <1>2, <1>3, <1>4 DEF MatchFinding

LEMMA FindingForm ==
  ASSUME NEW arts \in Tables
  PROVE  \A f \in Findings(arts) :
           /\ Form(f)
           /\ \/ RowFinding(f) \/ ModuleFinding(f)
              \/ MatchFinding(f, 7, HasRegions(arts)) \/ MatchFinding(f, 14, FALSE)
<1>1. \A f \in CommandFindings(arts) : Form(f) /\ RowFinding(f)
  BY RuleTable DEF CommandFindings, RowFinding, Single, Finding, Form, Unmatched
<1>2. \A f \in RegionFindings(arts, 3) \cup RegionFindings(arts, 8) : Form(f) /\ RowFinding(f)
  <2>1. SUFFICES ASSUME NEW rank \in {3, 8}, NEW f \in RegionFindings(arts, rank)
                 PROVE  Form(f) /\ RowFinding(f)
    OBVIOUS
  <2>2. Form(f) /\ Unmatched(f)
    BY SingleForm DEF RegionFindings
  <2>3. f.place[1] = rank /\ f.groups = {"memory_region"} /\ f.score = IF benign THEN 5 ELSE 8
    BY DEF RegionFindings, Single, Finding
  <2>4. f.context = benign
    BY DEF RegionFindings, Single, Finding
  <2> QED BY <2>2, <2>3, <2>4, RuleTable DEF RowFinding
<1>3. \A f \in CorrelationFindings(arts) : Form(f) /\ (RowFinding(f) \/ ModuleFinding(f))
  <2>1. \A k \in Rows(arts, "module", Dropped) : arts["module"][k].path # "microsoft"
    BY DEF Rows, Dropped, Microsoft, Writable
  <2>2. \A k \in Rows(arts, "module", Microsoft) : arts["module"][k].path = "microsoft"
    BY DEF Rows, Microsoft
  <2>3. \A f \in Linked(arts, 4, "network", Rows(arts, "network", Public), "endpoint", 13,
                        {"memory_region", "network_endpoint"}, FALSE) : Form(f) /\ RowFinding(f)
    <3>1. \A f \in Linked(arts, 4, "network", Rows(arts, "network", Public), "endpoint", 13,
                          {"memory_region", "network_endpoint"}, FALSE) :
            /\ Form(f) /\ Unmatched(f) /\ f.context = FALSE
            /\ f.place[1] = 4 /\ f.score = 13 /\ f.groups = {"memory_region", "network_endpoint"}
      BY DEF Linked, Finding, Form, Unmatched
    <3> QED BY <3>1, RuleTable, RowFindingOf
  <2>4. \A f \in Linked(arts, 5, "command", Rows(arts, "command", LinkableCommand), "text", 13,
                        {"memory_region", "suspicious_command"}, FALSE) : Form(f) /\ RowFinding(f)
    <3>1. \A f \in Linked(arts, 5, "command", Rows(arts, "command", LinkableCommand), "text", 13,
                          {"memory_region", "suspicious_command"}, FALSE) :
            /\ Form(f) /\ Unmatched(f) /\ f.context = FALSE
            /\ f.place[1] = 5 /\ f.score = 13 /\ f.groups = {"memory_region", "suspicious_command"}
      BY DEF Linked, Finding, Form, Unmatched
    <3> QED BY <3>1, RuleTable, RowFindingOf
  <2>5. \A f \in Linked(arts, 6, "module", Rows(arts, "module", Dropped), "path", 10,
                        {"memory_region", "suspicious_module"}, FALSE) : Form(f) /\ ModuleFinding(f)
    BY <2>1 DEF ModuleFinding, Linked, Finding, Form, Unmatched
  <2>6. \A f \in Linked(arts, 6, "module", Rows(arts, "module", Microsoft), "path", 5,
                        {"memory_region", "module_context"}, TRUE) : Form(f) /\ ModuleFinding(f)
    BY <2>2 DEF ModuleFinding, Linked, Finding, Form, Unmatched
  <2> QED BY <2>3, <2>4, <2>5, <2>6 DEF CorrelationFindings
<1>4. \A f \in TableFindings(arts) : Form(f) /\ RowFinding(f)
  <2>1. \A f \in TableFindings(arts) :
          /\ Form(f) /\ Unmatched(f) /\ f.context = FALSE /\ f.score = 5
          /\ \/ f.place[1] = 9 /\ f.groups = {"suspicious_module"}
             \/ f.place[1] = 10 /\ f.groups = {"network_endpoint"}
    BY DEF TableFindings, Single, Finding, Form, Unmatched
  <2> QED BY <2>1, RuleTable, RowFindingOf
<1>5. \A f \in ProcessFindings(arts) : Form(f) /\ RowFinding(f)
  <2>1. \A f \in ProcessFindings(arts) :
          /\ Form(f) /\ Unmatched(f) /\ f.context = FALSE
          /\ \/ f.place[1] = 11 /\ f.score = 8 /\ f.groups = {"win_system_process_wrong_path"}
             \/ f.place[1] = 12 /\ f.score = 5 /\ f.groups = {"win_suspicious_parent_child"}
             \/ f.place[1] = 13 /\ f.score = 8 /\ f.groups = {"win_psscan_only_process"}
    BY DEF ProcessFindings, Single, Finding, Form, Unmatched
  <2> QED BY <2>1, RuleTable, RowFindingOf
<1>6. \A f \in YaraFindings(arts, 7, MemoryMatches(arts), HasRegions(arts)) :
        Form(f) /\ MatchFinding(f, 7, HasRegions(arts))
  BY MatchForm
<1>7. \A f \in YaraFindings(arts, 14, ProcessMatches(arts), FALSE) :
        Form(f) /\ MatchFinding(f, 14, FALSE)
  BY MatchForm
<1> QED BY <1>1, <1>2, <1>3, <1>4, <1>5, <1>6, <1>7 DEF Findings

\* Findings of one rule and one key are alike.
Determined(found) ==
  \A f, g \in found : f.key = g.key /\ f.place[1] = g.place[1] => Alike(f, g)

LEMMA KeyDetermines ==
  ASSUME NEW arts \in Tables
  PROVE  Determined(Findings(arts))
<1> SUFFICES ASSUME NEW f \in Findings(arts), NEW g \in Findings(arts),
                    f.key = g.key, f.place[1] = g.place[1]
             PROVE  Alike(f, g)
  BY DEF Determined
<1>1. RowFinding(f) /\ RowFinding(g) => Alike(f, g)
  BY DEF RowFinding, Unmatched, Alike
<1>2. ModuleFinding(f) /\ ModuleFinding(g) => Alike(f, g)
  BY DEF ModuleFinding, Unmatched, Alike
<1>3. \A rank, correlated :
        MatchFinding(f, rank, correlated) /\ MatchFinding(g, rank, correlated) => Alike(f, g)
  <2> SUFFICES ASSUME NEW rank, NEW correlated,
                      MatchFinding(f, rank, correlated), MatchFinding(g, rank, correlated)
               PROVE  Alike(f, g)
    OBVIOUS
  <2> DEFINE Of(rule, plugin) ==
               YaraFinding([rule |-> rule, plugin |-> plugin], rank, 0, correlated)
  <2>1. PICK r, p : f.key = <<0, <<r, p>>>> /\ Alike(f, Of(r, p))
    BY DEF MatchFinding
  <2>2. PICK s, q : g.key = <<0, <<s, q>>>> /\ Alike(g, Of(s, q))
    BY DEF MatchFinding
  <2> HIDE DEF Of
  <2>3. <<0, <<r, p>>>> = <<0, <<s, q>>>>
    BY <2>1, <2>2, Zenon
  <2>4. r = s /\ p = q
    BY <2>3
  <2> QED BY <2>1, <2>2, <2>4 DEF Alike
<1> DEFINE Early(h) == MatchFinding(h, 7, HasRegions(arts))
           Late(h)  == MatchFinding(h, 14, FALSE)
<1>4. \A h : /\ RowFinding(h) => h.place[1] \notin {6, 7, 14}
             /\ ModuleFinding(h) => h.place[1] = 6
             /\ Early(h) => h.place[1] = 7
             /\ Late(h) => h.place[1] = 14
  <2> TAKE h
  <2>1. RowFinding(h) => h.place[1] \in 1..13 \ {6, 7}
    BY DEF RowFinding
  <2>2. ModuleFinding(h) => h.place[1] = 6
    BY DEF ModuleFinding
  <2>3. (Early(h) => h.place[1] = 7) /\ (Late(h) => h.place[1] = 14)
    BY DEF MatchFinding
  <2> HIDE DEF Early, Late
  <2> QED BY <2>1, <2>2, <2>3
<1>5. \A h \in {f, g} : RowFinding(h) \/ ModuleFinding(h) \/ Early(h) \/ Late(h)
  BY FindingForm
<1>6. (Early(f) /\ Early(g)) \/ (Late(f) /\ Late(g)) => Alike(f, g)
  BY <1>3
<1> HIDE DEF Early, Late
<1> QED BY <1>1, <1>2, <1>4, <1>5, <1>6

\* A set of findings as detection makes them.
Regular(found) ==
  /\ IsFiniteSet(found) /\ Determined(found)
  /\ \A f \in found : f.place \in Place /\ Form(f)

\* Keys tell the components of a summary apart.
LEMMA OnePerKey ==
  ASSUME NEW F, Regular(F), NEW f \in Unique(F), NEW g \in Unique(F), f.key = g.key
  PROVE  f = g
<1>1. ~Before(f, g) /\ ~Before(g, f) /\ f \in F /\ g \in F
  BY DEF Unique
<1>2. f.place \in Place /\ g.place \in Place /\ Form(f) /\ Form(g)
  BY <1>1 DEF Regular
<1>3. f.place[1] = g.place[1] /\ f.place[2] = g.place[2] /\ f.place[3] = g.place[3]
  BY <1>1, <1>2 DEF Before, Place
<1>4. f.place = g.place
  BY <1>2, <1>3 DEF Place
<1>5. Alike(f, g)
  BY <1>1, <1>3 DEF Regular, Determined
<1> QED BY <1>2, <1>4, <1>5 DEF Alike, Form

LEMMA UniqueEchoed ==
  ASSUME NEW F, NEW G, Regular(F), Regular(G), Echoed(F, G), Echoed(G, F)
  PROVE  Echoed(Unique(F), Unique(G))
<1> SUFFICES ASSUME NEW f \in Unique(F) PROVE \E g \in Unique(G) : Alike(f, g)
  BY DEF Echoed
<1>1. f \in F
  BY DEF Unique
<1>2. PICK g \in G : Alike(f, g)
  BY <1>1 DEF Echoed
<1> DEFINE S == {h \in G : h.key = f.key}
<1>3. g \in S /\ \A h \in S : h.place \in Place
  BY <1>2 DEF Alike, Regular
<1>4. PICK h \in S : \A k \in S : ~Before(k, h)
  <2> HIDE DEF S
  <2> QED BY <1>3, LeastPlace
<1>5. h \in Unique(G)
  BY <1>4 DEF Unique
<1>6. PICK e \in F : Alike(h, e)
  BY <1>4 DEF Echoed
<1>7. ~Before(e, f) /\ ~Before(g, h)
  BY <1>3, <1>4, <1>6 DEF Unique, Alike
<1>8. f.place \in Place /\ e.place \in Place /\ g.place \in Place /\ h.place \in Place
  BY <1>1, <1>3, <1>4, <1>6 DEF Regular
<1>9. f.place[1] = e.place[1]
  <2>1. f.place[1] <= e.place[1] /\ h.place[1] <= g.place[1]
    BY <1>7, <1>8 DEF Before, Place
  <2>2. e.place[1] = h.place[1] /\ f.place[1] = g.place[1]
    BY <1>2, <1>6 DEF Alike
  <2> QED BY <1>8, <2>1, <2>2 DEF Place
<1>10. Alike(f, e)
  BY <1>1, <1>4, <1>6, <1>9 DEF Regular, Determined, Alike
<1> QED BY <1>5, <1>6, <1>10 DEF Alike

LEMMA UniqueCount ==
  ASSUME NEW F, NEW G, Regular(F), Regular(G), Echoed(F, G), Echoed(G, F)
  PROVE  Cardinality(Unique(G)) = Cardinality(Unique(F))
<1> DEFINE U == Unique(F)
           V == Unique(G)
           b == [f \in U |-> CHOOSE g \in V : g.key = f.key]
<1>1. \A f \in U : b[f] \in V /\ b[f].key = f.key
  <2>1. \A f \in U : \E g \in V : g.key = f.key
    BY UniqueEchoed DEF Echoed, Alike
  <2> QED BY <2>1
<1>2. \A g \in V : \E f \in U : f.key = g.key
  BY UniqueEchoed DEF Echoed, Alike
<1>3. \A f, g \in U : f.key = g.key => f = g
  BY OnePerKey
<1>4. \A f, g \in V : f.key = g.key => f = g
  BY OnePerKey
<1>5. IsFiniteSet(U)
  BY FS_Subset DEF Regular, Unique
<1>6. b \in [U -> V]
  BY <1>1
<1> HIDE DEF U, V, b
<1>7. b \in Injection(U, V)
  BY <1>1, <1>3, <1>6 DEF Injection, IsInjective
<1>8. b \in Surjection(U, V)
  <2>1. \A g \in V : \E f \in U : b[f] = g
    BY <1>1, <1>2, <1>4
  <2> QED BY <1>6, <2>1 DEF Surjection
<1>9. ExistsBijection(U, V)
  BY <1>7, <1>8 DEF ExistsBijection, Bijection
<1>10. Cardinality(V) = Cardinality(U)
  BY <1>5, <1>9, FS_Bijection
<1> QED BY <1>10 DEF U, V

\* Without a crowd the limit cuts nothing off.
LEMMA AllSelected ==
  ASSUME NEW U, IsFiniteSet(U), Cardinality(U) <= MaxComponents,
         \A f \in U : f.place \in Place
  PROVE  Selected(U) = U
<1> SUFFICES ASSUME NEW f \in U PROVE Cardinality({g \in U : Before(g, f)}) < MaxComponents
  BY DEF Selected
<1> DEFINE T == {g \in U : Before(g, f)}
<1>1. f \notin T
  BY DEF Before, Place
<1>2. T \in SUBSET U /\ T # U
  BY <1>1
<1>3. IsFiniteSet(T) /\ Cardinality(T) <= Cardinality(U) /\ Cardinality(T) # Cardinality(U)
  <2> HIDE DEF T
  <2> QED BY <1>2, FS_Subset
<1>4. Cardinality(T) \in Nat /\ Cardinality(U) \in Nat
  <2> HIDE DEF T
  <2> QED BY <1>3, FS_CardinalityType
<1> HIDE DEF T
<1>5. Cardinality(T) < MaxComponents
  BY <1>3, <1>4, LimitAssumption
<1> QED BY <1>5 DEF T

\* The summary reads of its components what is alike.
LEMMA RatedAlike ==
  ASSUME NEW C, NEW D, Echoed(C, D), Echoed(D, C)
  PROVE  Rated(C) = Rated(D)
<1>1. EvidenceGroups(C) = EvidenceGroups(D)
  BY DEF EvidenceGroups, Echoed, Alike
<1>2. GroupScore(C) = GroupScore(D)
  <2>1. \A g : {f.score : f \in {c \in C : g \in c.groups}}
                 = {f.score : f \in {c \in D : g \in c.groups}}
    BY DEF Echoed, Alike
  <2> QED BY <1>1, <2>1 DEF GroupScore
<1>3. SpecificYara(C) <=> SpecificYara(D)
  BY DEF SpecificYara, Echoed, Alike
<1>4. TrustedYara(C) <=> TrustedYara(D)
  BY DEF TrustedYara, Echoed, Alike
<1>5. DecisiveYara(C) <=> DecisiveYara(D)
  BY DEF DecisiveYara, Echoed, Alike
<1>6. (\E f \in C : f.context) <=> \E f \in D : f.context
  BY DEF Echoed, Alike
<1>7. \A groups : /\ ContextOnly(C, groups) <=> ContextOnly(D, groups)
                  /\ CriticalAllowed(C, groups) <=> CriticalAllowed(D, groups)
  BY <1>3, <1>4, <1>5, <1>6 DEF ContextOnly, CriticalAllowed
<1>8. \A groups, score : SummarySeverity(C, groups, score) = SummarySeverity(D, groups, score)
  BY <1>7 DEF SummarySeverity
<1>9. \A groups, severity : Confidence(C, groups, severity) = Confidence(D, groups, severity)
  BY <1>3, <1>5, <1>7 DEF Confidence, ProbableMalware
<1> QED BY <1>1, <1>2, <1>8, <1>9 DEF Rated

\* Tables are finite, and so is what is found in them.
LEMMA ImageFinite ==
  ASSUME NEW S, IsFiniteSet(S), NEW h, h = [x \in S |-> h[x]]
  PROVE  IsFiniteSet({h[x] : x \in S})
<1> DEFINE T == {h[x] : x \in S}
<1>1. h \in [S -> T]
  OBVIOUS
<1>2. h \in Surjection(S, T)
  BY <1>1 DEF Surjection
<1> HIDE DEF T
<1>3. IsFiniteSet(T)
  BY <1>2, FS_Surjection
<1> QED BY <1>3 DEF T

LEMMA SingleFinite ==
  ASSUME NEW arts, NEW table, NEW rows, IsFiniteSet(rows),
         NEW rank, NEW field, NEW score, NEW groups, NEW context
  PROVE  IsFiniteSet(Single(arts, rank, table, rows, field, score, groups, context))
<1> DEFINE h == [i \in rows |->
                  Finding(<<rank, i, 0>>, arts[table][i][field], score, groups, context)]
<1>1. IsFiniteSet({h[i] : i \in rows})
  <2>1. h = [i \in rows |-> h[i]]
    OBVIOUS
  <2> HIDE DEF h
  <2> QED BY <2>1, ImageFinite
<1>2. Single(arts, rank, table, rows, field, score, groups, context) = {h[i] : i \in rows}
  BY DEF Single
<1> QED BY <1>1, <1>2

LEMMA LinkedFinite ==
  ASSUME NEW arts, IsFiniteSet(Rows(arts, "memory_region", Suspicious)),
         NEW table, NEW rows, IsFiniteSet(rows),
         NEW rank, NEW field, NEW score, NEW groups, NEW context
  PROVE  IsFiniteSet(Linked(arts, rank, table, rows, field, score, groups, context))
<1> DEFINE S == Rows(arts, "memory_region", Suspicious) \X rows
           h == [p \in S |->
                  Finding(<<rank, p[1], p[2]>>,
                          <<arts["memory_region"][p[1]].range, arts[table][p[2]][field]>>,
                          score, groups, context)]
<1>1. IsFiniteSet(S)
  BY FS_Product
<1>2. IsFiniteSet({h[p] : p \in S})
  <2>1. h = [p \in S |-> h[p]]
    OBVIOUS
  <2> HIDE DEF h, S
  <2> QED BY <1>1, <2>1, ImageFinite
<1>3. Linked(arts, rank, table, rows, field, score, groups, context) = {h[p] : p \in S}
  BY DEF Linked
<1> QED BY <1>2, <1>3

LEMMA MatchesFinite ==
  ASSUME NEW arts, NEW matches, IsFiniteSet(matches), NEW rank, NEW correlated
  PROVE  IsFiniteSet(YaraFindings(arts, rank, matches, correlated))
<1> DEFINE S == Representatives(arts, matches)
           h == [i \in S |-> YaraFinding(arts["yara"][i], rank, i, correlated)]
<1>1. IsFiniteSet(S)
  BY FS_Subset DEF Representatives
<1>2. IsFiniteSet({h[i] : i \in S})
  <2>1. h = [i \in S |-> h[i]]
    OBVIOUS
  <2> HIDE DEF h, S
  <2> QED BY <1>1, <2>1, ImageFinite
<1>3. YaraFindings(arts, rank, matches, correlated) = {h[i] : i \in S}
  BY YaraForm
<1> QED BY <1>2, <1>3

LEMMA FindingsFinite ==
  ASSUME NEW arts \in Tables
  PROVE  IsFiniteSet(Findings(arts))
<1>1. \A t \in Table : IsFiniteSet(DOMAIN arts[t])
  <2> SUFFICES ASSUME NEW t \in Table PROVE IsFiniteSet(DOMAIN arts[t])
    OBVIOUS
  <2>1. DOMAIN arts[t] = 1..Len(arts[t]) /\ Len(arts[t]) \in Nat
    BY DEF Tables
  <2> QED BY <2>1, FS_Interval
<1>2. \A t \in Table : \A wanted : IsFiniteSet(Rows(arts, t, wanted))
  BY <1>1, FS_Subset DEF Rows
<1>3. IsFiniteSet(Rows(arts, "memory_region", Suspicious))
  BY <1>2 DEF Table
<1>4. IsFiniteSet(CommandFindings(arts))
  BY <1>2, SingleFinite, FS_Union DEF CommandFindings, Table
<1>5. IsFiniteSet(RegionFindings(arts, 3)) /\ IsFiniteSet(RegionFindings(arts, 8))
  BY <1>2, SingleFinite DEF RegionFindings, Table
<1>6. IsFiniteSet(CorrelationFindings(arts))
  BY <1>2, <1>3, LinkedFinite, FS_Union DEF CorrelationFindings, Table
<1>7. IsFiniteSet(TableFindings(arts))
  BY <1>2, SingleFinite, FS_Union DEF TableFindings, Table
<1>8. IsFiniteSet(ProcessFindings(arts))
  <2>1. IsFiniteSet(Hidden(arts))
    BY <1>2, FS_EmptySet DEF Hidden, Table
  <2> QED BY <1>2, <2>1, SingleFinite, FS_Union DEF ProcessFindings, Table
<1>9. IsFiniteSet(MemoryMatches(arts)) /\ IsFiniteSet(ProcessMatches(arts))
  BY <1>2, MatchRows DEF Table
<1>10. /\ IsFiniteSet(YaraFindings(arts, 7, MemoryMatches(arts), HasRegions(arts)))
       /\ IsFiniteSet(YaraFindings(arts, 14, ProcessMatches(arts), FALSE))
  BY <1>9, MatchesFinite
<1> QED BY <1>4, <1>5, <1>6, <1>7, <1>8, <1>10, FS_Union DEF Findings

LEMMA FindingsRegular ==
  ASSUME NEW arts \in Tables
  PROVE  Regular(Findings(arts))
BY FindingsFinite, KeyDetermines, FindingPlaces, FindingForm DEF Regular

\* Tables with the same rows yield the same summary, if no component is cut off.
LEMMA SummaryOfRows ==
  ASSUME NEW arts \in Tables, NEW other \in Tables, SameRows(arts, other), SameRows(other, arts),
         ~Crowded(arts)
  PROVE  ProcessSummary(other) = ProcessSummary(arts)
<1> DEFINE U == Unique(Findings(arts))
           V == Unique(Findings(other))
<1>1. Regular(Findings(arts)) /\ Regular(Findings(other))
  BY FindingsRegular
<1>2. Echoed(Findings(arts), Findings(other)) /\ Echoed(Findings(other), Findings(arts))
  BY FindingsEchoed
<1>3. Echoed(U, V) /\ Echoed(V, U) /\ Cardinality(V) = Cardinality(U)
  BY <1>1, <1>2, UniqueEchoed, UniqueCount
<1>4. /\ IsFiniteSet(U) /\ \A f \in U : f.place \in Place
      /\ IsFiniteSet(V) /\ \A f \in V : f.place \in Place
  BY <1>1, FS_Subset DEF Regular, Unique
<1>5. Cardinality(U) <= MaxComponents
  <2>1. Cardinality(U) \in Nat /\ ~(Cardinality(U) > MaxComponents)
    BY <1>4, FS_CardinalityType DEF Crowded
  <2> QED BY <2>1, LimitAssumption
<1>6. Selected(U) = U /\ Selected(V) = V
  BY <1>3, <1>4, <1>5, AllSelected
<1>7. Rated(U) = Rated(V)
  BY <1>3, RatedAlike
<1> QED BY <1>3, <1>6, <1>7 DEF ProcessSummary

LEMMA SwapKeepsRows ==
  ASSUME NEW arts \in Tables, NEW t \in Table, NEW i \in 1..(Len(arts[t]) - 1)
  PROVE  /\ [arts EXCEPT ![t] = Swapped(@, i)] \in Tables
         /\ SameRows(arts, [arts EXCEPT ![t] = Swapped(@, i)])
         /\ SameRows([arts EXCEPT ![t] = Swapped(@, i)], arts)
<1> DEFINE rows == arts[t]
           other == [arts EXCEPT ![t] = Swapped(@, i)]
<1>1. arts \in [Table -> Seq(Row)] /\ rows \in Seq(Row) /\ Len(rows) \in Nat
      /\ i \in 1..Len(rows) /\ i + 1 \in 1..Len(rows)
  BY DEF Tables
<1>2. other[t] = Swapped(rows, i) /\ \A u \in Table : u # t => other[u] = arts[u]
  BY <1>1
<1>3. /\ Swapped(rows, i) \in Seq(Row) /\ DOMAIN Swapped(rows, i) = DOMAIN rows
      /\ DOMAIN rows = 1..Len(rows)
      /\ Swapped(rows, i)[i] = rows[i + 1] /\ Swapped(rows, i)[i + 1] = rows[i]
      /\ \A k \in DOMAIN rows \ {i, i + 1} : Swapped(rows, i)[k] = rows[k]
  BY <1>1 DEF Swapped
<1>4. other \in [Table -> Seq(Row)]
  <2> HIDE DEF rows
  <2> QED BY <1>1, <1>3 DEF rows
<1> HIDE DEF other
<1>5. \A k \in DOMAIN rows : rows[k].table = t
  BY DEF Tables
<1> HIDE DEF rows
<1>6. other \in Tables
  <2>1. \A k \in DOMAIN other[t] : other[t][k].table = t
    BY <1>1, <1>2, <1>3, <1>5
  <2> QED BY <1>2, <1>4, <2>1 DEF Tables
<1>7. /\ \A k \in DOMAIN rows : \E m \in DOMAIN other[t] : other[t][m] = rows[k]
      /\ \A k \in DOMAIN other[t] : \E m \in DOMAIN rows : rows[m] = other[t][k]
      /\ rows # <<>> /\ other[t] # <<>>
  <2>1. ASSUME NEW k \in DOMAIN rows
        PROVE  /\ \E m \in DOMAIN other[t] : other[t][m] = rows[k]
               /\ \E m \in DOMAIN rows : rows[m] = other[t][k]
    <3>1. CASE k = i
      BY <1>2, <1>3, <1>1, <3>1
    <3>2. CASE k = i + 1
      BY <1>2, <1>3, <1>1, <3>2
    <3>3. CASE k \notin {i, i + 1}
      BY <1>2, <1>3, <3>3
    <3> QED BY <3>1, <3>2, <3>3
  <2>2. DOMAIN rows # {} /\ DOMAIN other[t] = DOMAIN rows
    BY <1>1, <1>2, <1>3
  <2>3. rows # <<>> /\ other[t] # <<>>
    BY <2>2
  <2> QED BY <2>1, <2>2, <2>3
<1>8. SameRows(arts, other) /\ SameRows(other, arts)
  BY <1>2, <1>7 DEF SameRows, Included, rows
<1> QED BY <1>6, <1>8 DEF other

\* The summary that is stored does not depend on the order in which the database
\* returned the rows, unless the component limit cut some off, for any rows, rules
\* and metadata: it is a function of the sets of rows.
THEOREM RowOrderDoesNotShow == Spec => []RowOrderIrrelevant
<1> DEFINE Kept == summary # Pending => summary = ProcessSummary(artifacts)
<1>1. Init => Kept
  BY DEF Init
<1>2. Kept /\ [Next]_vars => Kept'
  <2>1. UNCHANGED <<benign, artifacts>> => ProcessSummary(artifacts)' = ProcessSummary(artifacts)
    BY DEF ProcessSummary, Findings, RegionFindings
  <2> QED BY <2>1 DEF Next, StoreRow, RunDetection, vars
<1>3. TypeOK /\ Kept => RowOrderIrrelevant
  <2> SUFFICES ASSUME TypeOK, Kept, summary # Pending, ~Crowded(artifacts),
                      NEW t \in Table, NEW i \in 1..(Len(artifacts[t]) - 1)
               PROVE  ProcessSummary([artifacts EXCEPT ![t] = Swapped(@, i)]) = summary
    BY DEF RowOrderIrrelevant
  <2>1. PICK arts : arts = artifacts
    OBVIOUS
  <2>2. arts \in Tables /\ i \in 1..(Len(arts[t]) - 1) /\ ~Crowded(arts)
    BY <2>1 DEF TypeOK, Tables
  <2>3. ProcessSummary([arts EXCEPT ![t] = Swapped(@, i)]) = ProcessSummary(arts)
    BY <2>2, SwapKeepsRows, SummaryOfRows
  <2> QED BY <2>1, <2>3
<1> QED BY <1>1, <1>2, <1>3, RiskTypeCorrect, PTL DEF Spec

-----------------------------------------------------------------------------
(* Sums over finite sets.  A fold takes the elements in the order of CHOOSE. *)

Taken(s) == CHOOSE x \in s : TRUE
Folded(f, s, rest) == IF s = {} THEN 0 ELSE f[Taken(s)] + rest[s \ {Taken(s)}]
IsSum(F, f, D) == F = [s \in SUBSET D |-> Folded(f, s, F)]

LEMMA LessByOne ==
  ASSUME NEW D, IsFiniteSet(D), NEW s \in SUBSET D
  PROVE  /\ IsFiniteSet(s) /\ Cardinality(s) \in Nat
         /\ \A x \in s : Cardinality(s \ {x}) = Cardinality(s) - 1 /\ s \ {x} \in SUBSET D
         /\ s = {} <=> Cardinality(s) = 0
         /\ s # {} => Taken(s) \in s
<1>1. IsFiniteSet(s)
  BY FS_Subset
<1> QED BY <1>1, FS_CardinalityType, FS_RemoveElement, FS_EmptySet DEF Taken

\* The recursion of the fold has a solution.
LEMMA SumExists ==
  ASSUME NEW D, IsFiniteSet(D), NEW f
  PROVE  \E F : IsSum(F, f, D)
<1> DEFINE Upto(n, F) == /\ F = [s \in SUBSET D |-> F[s]]
                         /\ \A s \in SUBSET D : Cardinality(s) <= n => F[s] = Folded(f, s, F)
           Bad == {n \in Nat : ~\E F : Upto(n, F)}
<1>1. Upto(0, [s \in SUBSET D |-> 0])
  BY LessByOne DEF Folded
<1>2. ASSUME NEW n \in Nat, NEW F, Upto(n, F) PROVE \E G : Upto(n + 1, G)
  <2> DEFINE G == [s \in SUBSET D |-> IF Cardinality(s) <= n THEN F[s] ELSE Folded(f, s, F)]
  <2>1. ASSUME NEW s \in SUBSET D, Cardinality(s) <= n + 1 PROVE G[s] = Folded(f, s, G)
    <3>1. CASE s = {}
      <4>1. Cardinality(s) <= n
        BY <3>1, LessByOne
      <4> QED BY <1>2, <3>1, <4>1 DEF Folded
    <3>2. CASE s # {}
      <4> DEFINE r == s \ {Taken(s)}
      <4>1. r \in SUBSET D /\ Cardinality(r) <= n /\ Cardinality(s) \in Nat
        BY <2>1, <3>2, LessByOne
      <4>2. G[r] = F[r]
        BY <4>1
      <4>3. G[s] = Folded(f, s, F)
        BY <1>2
      <4> QED BY <4>2, <4>3, <3>2 DEF Folded
    <3> QED BY <3>1, <3>2
  <2>2. G = [s \in SUBSET D |-> G[s]]
    OBVIOUS
  <2> HIDE DEF G
  <2> QED BY <2>1, <2>2
<1>3. Bad = {}
  <2>1. SUFFICES ASSUME Bad # {} PROVE FALSE
    OBVIOUS
  <2>2. PICK n \in Bad : \A m \in Bad : n <= m
    <3> HIDE DEF Upto
    <3>1. Bad \in SUBSET Nat
      OBVIOUS
    <3> HIDE DEF Bad
    <3> QED BY <2>1, <3>1, LeastNumber
  <2> HIDE DEF Upto
  <2>3. n # 0 /\ n \in Nat
    BY <1>1
  <2>4. n - 1 \in Nat /\ n - 1 \notin Bad
    BY <2>2, <2>3
  <2>5. PICK F : Upto(n - 1, F)
    BY <2>4
  <2>6. \E G : Upto(n - 1 + 1, G)
    BY <1>2, <2>4, <2>5
  <2>7. n - 1 + 1 = n
    BY <2>3
  <2> QED BY <2>3, <2>6, <2>7
<1>4. Cardinality(D) \in Nat /\ \A s \in SUBSET D : Cardinality(s) <= Cardinality(D)
  BY FS_Subset, FS_CardinalityType
<1>5. PICK F : Upto(Cardinality(D), F)
  <2> HIDE DEF Upto
  <2> QED BY <1>3, <1>4
<1>6. F = [s \in SUBSET D |-> F[s]] /\ \A s \in SUBSET D : F[s] = Folded(f, s, F)
  BY <1>4, <1>5
<1>7. IsSum(F, f, D)
  BY <1>6 DEF IsSum
<1> QED BY <1>7

LEMMA SumIsSum ==
  ASSUME NEW f, IsFiniteSet(DOMAIN f)
  PROVE  \E F : IsSum(F, f, DOMAIN f) /\ SumFunction(f) = F[DOMAIN f]
<1> DEFINE D == DOMAIN f
           Rest(s, rest) == IF s = {} THEN 0
                            ELSE f[CHOOSE x \in s : TRUE] + rest[s \ {CHOOSE x \in s : TRUE}]
           iter == CHOOSE h : h = [s \in SUBSET D |-> Rest(s, h)]
<1>1. SumFunction(f) = iter[D]
  BY DEF SumFunction, SumFunctionOnSet, FoldFunctionOnSet, MapThenFoldSet
<1>2. \A s, h : Rest(s, h) = Folded(f, s, h)
  BY DEF Folded, Taken
<1>3. PICK F : IsSum(F, f, D)
  BY SumExists
<1>4. F = [s \in SUBSET D |-> Rest(s, F)]
  <2> HIDE DEF Rest
  <2> QED BY <1>2, <1>3 DEF IsSum
<1>5. iter = [s \in SUBSET D |-> Rest(s, iter)]
  <2> HIDE DEF Rest, D
  <2> QED BY <1>4
<1>6. IsSum(iter, f, D)
  <2> HIDE DEF Rest, iter
  <2> QED BY <1>2, <1>5 DEF IsSum
<1> HIDE DEF iter
<1> QED BY <1>1, <1>6

\* Induction over the subsets of a finite set, by the smallest counterexample.
LEMMA SmallestSet ==
  ASSUME NEW D, IsFiniteSet(D), NEW Bad \in SUBSET (SUBSET D), Bad # {}
  PROVE  \E s \in Bad : \A r \in Bad : Cardinality(s) <= Cardinality(r)
<1> DEFINE Sizes == {Cardinality(s) : s \in Bad}
<1>1. Sizes # {} /\ Sizes \in SUBSET Nat
  BY LessByOne
<1>2. PICK n \in Sizes : \A m \in Sizes : n <= m
  <2> HIDE DEF Sizes
  <2> QED BY <1>1, LeastNumber
<1> QED BY <1>2

LEMMA SumType ==
  ASSUME NEW D, IsFiniteSet(D), NEW f, \A x \in D : f[x] \in Nat, NEW F, IsSum(F, f, D)
  PROVE  \A s \in SUBSET D : F[s] \in Nat
<1> DEFINE Bad == {s \in SUBSET D : F[s] \notin Nat}
<1>1. SUFFICES ASSUME Bad # {} PROVE FALSE
  OBVIOUS
<1>2. PICK s \in Bad : \A r \in Bad : Cardinality(s) <= Cardinality(r)
  <2>1. Bad \in SUBSET (SUBSET D)
    OBVIOUS
  <2> HIDE DEF Bad
  <2> QED BY <1>1, <2>1, SmallestSet
<1>3. F[s] = Folded(f, s, F)
  BY DEF IsSum
<1>4. s # {}
  BY <1>3 DEF Folded
<1> DEFINE r == s \ {Taken(s)}
<1>5. Taken(s) \in D /\ r \in SUBSET D /\ r \notin Bad
  BY <1>2, <1>4, LessByOne
<1>6. F[s] = f[Taken(s)] + F[r]
  BY <1>3, <1>4 DEF Folded
<1> QED BY <1>5, <1>6

\* Any element may be taken first.
LEMMA SumTakes ==
  ASSUME NEW D, IsFiniteSet(D), NEW f, \A x \in D : f[x] \in Nat, NEW F, IsSum(F, f, D)
  PROVE  \A s \in SUBSET D : \A x \in s : F[s] = f[x] + F[s \ {x}]
<1> DEFINE Bad == {s \in SUBSET D : \E x \in s : F[s] # f[x] + F[s \ {x}]}
<1>1. SUFFICES ASSUME Bad # {} PROVE FALSE
  OBVIOUS
<1>2. PICK s \in Bad : \A r \in Bad : Cardinality(s) <= Cardinality(r)
  <2>1. Bad \in SUBSET (SUBSET D)
    OBVIOUS
  <2> HIDE DEF Bad
  <2> QED BY <1>1, <2>1, SmallestSet
<1>3. PICK x \in s : F[s] # f[x] + F[s \ {x}]
  OBVIOUS
<1> DEFINE y == Taken(s)
           rest == s \ {x, y}
<1>4. \A t \in SUBSET D : t # {} => F[t] = f[Taken(t)] + F[t \ {Taken(t)}]
  BY DEF IsSum, Folded
<1>5. F[s] = f[y] + F[s \ {y}] /\ y \in s
  BY <1>4, LessByOne
<1>6. x # y
  BY <1>3, <1>5
<1>7. \A z \in s : s \ {z} \in SUBSET D /\ s \ {z} \notin Bad
  <2>1. s \in SUBSET D
    OBVIOUS
  <2>2. Cardinality(s) \in Nat /\ \A z \in s : Cardinality(s \ {z}) = Cardinality(s) - 1
    BY <2>1, LessByOne
  <2> HIDE DEF Bad
  <2> QED BY <1>2, <2>1, <2>2
<1>8. \A t \in SUBSET D : t \notin Bad => \A z \in t : F[t] = f[z] + F[t \ {z}]
  OBVIOUS
<1>9. /\ F[s \ {y}] = f[x] + F[(s \ {y}) \ {x}]
      /\ F[s \ {x}] = f[y] + F[(s \ {x}) \ {y}]
  <2>1. x \in s \ {y} /\ y \in s \ {x}
    BY <1>5, <1>6
  <2> HIDE DEF Bad, y
  <2> QED BY <1>5, <1>7, <1>8, <2>1
<1>10. (s \ {y}) \ {x} = rest /\ (s \ {x}) \ {y} = rest
  OBVIOUS
<1>11. F[rest] \in Nat /\ f[x] \in Nat /\ f[y] \in Nat
  BY <1>5, SumType
<1> HIDE DEF y, rest, Bad
<1> QED BY <1>3, <1>5, <1>9, <1>10, <1>11

\* A sum of more and greater terms is no smaller.
LEMMA SumGrows ==
  ASSUME NEW f, NEW g, IsFiniteSet(DOMAIN g), DOMAIN f \subseteq DOMAIN g,
         \A x \in DOMAIN g : g[x] \in Nat,
         \A x \in DOMAIN f : f[x] \in Nat /\ f[x] <= g[x]
  PROVE  /\ SumFunction(f) \in Nat /\ SumFunction(g) \in Nat
         /\ SumFunction(f) <= SumFunction(g)
<1> DEFINE D == DOMAIN f
           E == DOMAIN g
<1>1. IsFiniteSet(D)
  BY FS_Subset
<1>2. PICK F : IsSum(F, f, D) /\ SumFunction(f) = F[D]
  BY <1>1, SumIsSum
<1>3. PICK G : IsSum(G, g, E) /\ SumFunction(g) = G[E]
  BY SumIsSum
<1>4. (\A s \in SUBSET D : F[s] \in Nat) /\ \A s \in SUBSET E : G[s] \in Nat
  BY <1>1, <1>2, <1>3, SumType
<1>5. \A s \in SUBSET D : F[s] <= G[s]
  <2> DEFINE Bad == {s \in SUBSET D : ~(F[s] <= G[s])}
  <2>1. SUFFICES ASSUME Bad # {} PROVE FALSE
    OBVIOUS
  <2>2. PICK s \in Bad : \A r \in Bad : Cardinality(s) <= Cardinality(r)
    <3>1. Bad \in SUBSET (SUBSET D)
      OBVIOUS
    <3> HIDE DEF Bad
    <3> QED BY <1>1, <2>1, <3>1, SmallestSet
  <2>3. F[s] = Folded(f, s, F) /\ G[s] = Folded(g, s, G)
    BY <1>2, <1>3 DEF IsSum
  <2>4. s # {}
    BY <2>3 DEF Folded
  <2> DEFINE x == Taken(s)
             r == s \ {x}
  <2>5. x \in D /\ r \in SUBSET D /\ r \notin Bad
    BY <1>1, <2>2, <2>4, LessByOne
  <2>6. F[s] = f[x] + F[r] /\ G[s] = g[x] + G[r]
    BY <2>3, <2>4 DEF Folded
  <2>7. f[x] <= g[x] /\ F[r] <= G[r]
    BY <2>5
  <2>8. f[x] \in Nat /\ g[x] \in Nat /\ F[r] \in Nat /\ G[r] \in Nat
    BY <1>4, <2>5
  <2>9. F[s] <= G[s]
    <3> HIDE DEF x, r
    <3> QED BY <2>6, <2>7, <2>8
  <2> QED BY <2>9
<1>6. \A s \in SUBSET E : G[D] <= G[s \cup D]
  <2> DEFINE Bad == {s \in SUBSET E : ~(G[D] <= G[s \cup D])}
  <2>1. SUFFICES ASSUME Bad # {} PROVE FALSE
    OBVIOUS
  <2>2. PICK s \in Bad : \A r \in Bad : Cardinality(s) <= Cardinality(r)
    <3>1. Bad \in SUBSET (SUBSET E)
      OBVIOUS
    <3> HIDE DEF Bad
    <3> QED BY <2>1, <3>1, SmallestSet
  <2>3. ~(s \subseteq D)
    <3>1. SUFFICES ASSUME s \subseteq D PROVE FALSE
      OBVIOUS
    <3>2. s \cup D = D /\ G[D] \in Nat
      BY <1>4, <3>1
    <3> QED BY <3>2
  <2>4. PICK x \in s : x \notin D
    BY <2>3
  <2> DEFINE r == s \ {x}
  <2>5. r \in SUBSET E /\ r \notin Bad
    <3>1. s \in SUBSET E
      OBVIOUS
    <3>2. Cardinality(s) \in Nat /\ Cardinality(s \ {x}) = Cardinality(s) - 1
      BY <3>1, LessByOne
    <3> HIDE DEF Bad
    <3> QED BY <2>2, <3>1, <3>2
  <2>6. (s \cup D) \ {x} = r \cup D
    BY <2>4
  <2>7. G[s \cup D] = g[x] + G[(s \cup D) \ {x}]
    BY <1>3, SumTakes
  <2>8. g[x] \in Nat /\ G[r \cup D] \in Nat /\ G[D] \in Nat /\ G[D] <= G[r \cup D]
    BY <1>4, <2>5
  <2>9. G[D] <= G[s \cup D]
    <3>1. G[s \cup D] = g[x] + G[r \cup D]
      BY <2>6, <2>7
    <3> HIDE DEF r, D, E
    <3> QED BY <2>8, <3>1
  <2> QED BY <2>9
<1>7. F[D] <= G[D] /\ G[D] <= G[E]
  <2>1. E \cup D = E
    OBVIOUS
  <2> QED BY <1>5, <1>6, <2>1
<1>8. F[D] \in Nat /\ G[D] \in Nat /\ G[E] \in Nat
  BY <1>4
<1> HIDE DEF D, E
<1> QED BY <1>2, <1>3, <1>7, <1>8

-----------------------------------------------------------------------------
(* More evidence. *)

\* A component that says at least what another one says, under the same key.
Dominates(e, f) ==
  /\ e.key = f.key /\ f.groups \subseteq e.groups /\ f.score <= e.score
  /\ f.specific => e.specific
  /\ f.trusted => e.trusted
  /\ f.decisive => e.decisive

\* A region that correlates a match raises what the match says.
LEMMA CorrelationRaises ==
  ASSUME NEW m \in YaraMetadata
  PROVE  /\ SeverityScore[YaraSeverity(m, FALSE)] <= SeverityScore[YaraSeverity(m, TRUE)]
         /\ ReadSeverity(m, FALSE) \in Alarming => ReadSeverity(m, TRUE) \in Alarming
         /\ HighConfidence(m) /\ ReadSeverity(m, FALSE) = "critical"
              => ReadSeverity(m, TRUE) = "critical"
         /\ JobSummaryOnly(m, TRUE) => JobSummaryOnly(m, FALSE)
<1>1. SeverityScore[YaraSeverity(m, FALSE)] <= SeverityScore[YaraSeverity(m, TRUE)]
  BY DEF YaraMetadata, YaraSeverity, Lowered, Alarming, SeverityScore
<1>2. ReadSeverity(m, FALSE) \in Alarming => ReadSeverity(m, TRUE) \in Alarming
  BY DEF YaraMetadata, ReadSeverity, YaraSeverity, Lowered, Alarming
<1>3. HighConfidence(m) /\ ReadSeverity(m, FALSE) = "critical"
        => ReadSeverity(m, TRUE) = "critical"
  BY DEF YaraMetadata, ReadSeverity, YaraSeverity, Lowered, Alarming, HighConfidence
<1>4. JobSummaryOnly(m, TRUE) => JobSummaryOnly(m, FALSE)
  BY DEF JobSummaryOnly
<1> QED BY <1>1, <1>2, <1>3, <1>4

EvidenceGroup ==
  {"suspicious_command", "suspicious_command_keywords", "memory_region", "network_endpoint",
   "suspicious_module", "module_context", "yara_match", "win_system_process_wrong_path",
   "win_suspicious_parent_child", "win_psscan_only_process"}

\* The scores and the groups of findings, and the rules that their keys name.
Ranged(f) ==
  /\ f.score \in 0..13 /\ f.groups \subseteq EvidenceGroup
  /\ \/ f.key[1] = f.place[1] /\ f.place[1] \in 1..13 \ {7}
     \/ f.key[1] = 0 /\ f.place[1] \in {7, 14}

LEMMA MatchRange ==
  ASSUME NEW arts \in Tables, NEW matches \in SUBSET (DOMAIN arts["yara"]),
         NEW rank \in {7, 14}, NEW correlated \in BOOLEAN
  PROVE  \A f \in YaraFindings(arts, rank, matches, correlated) : Ranged(f)
<1> SUFFICES ASSUME NEW f \in YaraFindings(arts, rank, matches, correlated) PROVE Ranged(f)
  OBVIOUS
<1>1. PICK i \in Representatives(arts, matches) : f = YaraFinding(arts["yara"][i], rank, i, correlated)
  BY YaraForm
<1>2. Metadata[arts["yara"][i].rule] \in YaraMetadata
  <2>1. i \in DOMAIN arts["yara"] /\ arts["yara"] \in Seq(Row) /\ arts["yara"][i].table = "yara"
    BY DEF Representatives, Tables, Table
  <2>2. arts["yara"][i] \in Row
    BY <2>1
  <2> QED BY <2>1, <2>2, RowAssumption, MetadataAssumption
<1>3. f.score \in 0..13
  <2>1. YaraSeverity(Metadata[arts["yara"][i].rule], correlated) \in {"low", "medium", "high", "critical"}
    BY <1>2, YaraSeverityType
  <2> QED BY <1>1, <2>1 DEF YaraFinding, SeverityScore
<1> QED BY <1>1, <1>3 DEF YaraFinding, Ranged, EvidenceGroup

LEMMA FindingRange ==
  ASSUME NEW arts \in Tables
  PROVE  \A f \in Findings(arts) : Ranged(f)
<1>1. \A f \in CommandFindings(arts) : Ranged(f)
  BY DEF CommandFindings, EvidenceGroup, Single, Finding, Ranged
<1>2. \A f \in RegionFindings(arts, 3) \cup RegionFindings(arts, 8) : Ranged(f)
  <2>1. (IF benign THEN 5 ELSE 8) \in 0..13
    OBVIOUS
  <2> QED BY <2>1 DEF RegionFindings, EvidenceGroup, Single, Finding, Ranged
<1>3. \A f \in CorrelationFindings(arts) : Ranged(f)
  BY DEF CorrelationFindings, EvidenceGroup, Linked, Finding, Ranged
<1>4. \A f \in TableFindings(arts) \cup ProcessFindings(arts) : Ranged(f)
  BY DEF TableFindings, ProcessFindings, EvidenceGroup, Single, Finding, Ranged
<1>5. /\ \A f \in YaraFindings(arts, 7, MemoryMatches(arts), HasRegions(arts)) : Ranged(f)
      /\ \A f \in YaraFindings(arts, 14, ProcessMatches(arts), FALSE) : Ranged(f)
  <2>1. MemoryMatches(arts) \subseteq DOMAIN arts["yara"] /\ HasRegions(arts) \in BOOLEAN
        /\ ProcessMatches(arts) \subseteq DOMAIN arts["yara"]
    BY DEF MemoryMatches, ProcessMatches, HasRegions
  <2> QED BY <2>1, MatchRange
<1> QED BY <1>1, <1>2, <1>3, <1>4, <1>5 DEF Findings

LEMMA ContextFindings ==
  ASSUME NEW arts \in Tables, ~Contextual(arts)
  PROVE  \A f \in Findings(arts) : ~f.context
<1>1. Rows(arts, "module", Microsoft) = {} /\ ~benign
  BY DEF Contextual, Has
<1>2. \A f \in CommandFindings(arts) \cup TableFindings(arts) \cup ProcessFindings(arts) :
        ~f.context
  BY DEF CommandFindings, TableFindings, ProcessFindings, Single, Finding
<1>3. \A f \in RegionFindings(arts, 3) \cup RegionFindings(arts, 8) : ~f.context
  BY <1>1 DEF RegionFindings, Single, Finding
<1>4. \A f \in CorrelationFindings(arts) : ~f.context
  <2>1. Linked(arts, 6, "module", Rows(arts, "module", Microsoft), "path", 5,
               {"memory_region", "module_context"}, TRUE) = {}
    BY <1>1 DEF Linked
  <2> QED BY <2>1 DEF CorrelationFindings, Linked, Finding
<1>5. \A rank, matches, correlated : \A f \in YaraFindings(arts, rank, matches, correlated) :
        ~f.context
  BY DEF YaraFindings
<1>6. \A f \in YaraFindings(arts, 7, MemoryMatches(arts), HasRegions(arts))
             \cup YaraFindings(arts, 14, ProcessMatches(arts), FALSE) : ~f.context
  BY <1>5
<1> QED BY <1>1, <1>2, <1>3, <1>4, <1>6 DEF Findings

\* More rows, none of which lists a process that was hidden.
Grown(arts, more) ==
  /\ Included(arts, more)
  /\ Rows(arts, "process", Pslist) = {} <=> Rows(more, "process", Pslist) = {}

\* A finding on some rows has a counterpart of its rule on more rows.
Counterpart(e, f) == e.place[1] = f.place[1] /\ Dominates(e, f)
Outdone(found, more) == \A f \in found : \E e \in more : Counterpart(e, f)

LEMMA EchoedOutdone ==
  ASSUME NEW F, NEW G, Echoed(F, G), \A f \in F : f.score \in 0..13
  PROVE  Outdone(F, G)
BY DEF Echoed, Alike, Outdone, Counterpart, Dominates

LEMMA OutdoneUnion ==
  ASSUME NEW F, NEW G, NEW H, NEW I, Outdone(F, G), Outdone(H, I)
  PROVE  Outdone(F \cup H, G \cup I)
BY DEF Outdone

LEMMA MatchDominates ==
  ASSUME NEW match, Metadata[match.rule] \in YaraMetadata, NEW copy,
         match.rule = copy.rule, match.plugin = copy.plugin, NEW i, NEW k, NEW rank, NEW other,
         NEW c \in BOOLEAN, NEW d \in BOOLEAN, c => d
  PROVE  Dominates(YaraFinding(copy, other, k, d), YaraFinding(match, rank, i, c))
<1> DEFINE m == Metadata[match.rule]
<1>1. m \in YaraMetadata /\ m = Metadata[copy.rule]
  OBVIOUS
<1> HIDE DEF m
<1>2. /\ SeverityScore[YaraSeverity(m, c)] \in 0..13
      /\ SeverityScore[YaraSeverity(m, c)] <= SeverityScore[YaraSeverity(m, d)]
  <2>1. SeverityScore[YaraSeverity(m, c)] \in 0..13
    BY <1>1, YaraSeverityType DEF SeverityScore
  <2>2. CASE c = d
    BY <2>1, <2>2
  <2>3. CASE c = FALSE /\ d = TRUE
    BY <1>1, <2>1, <2>3, CorrelationRaises
  <2> QED BY <2>1, <2>2, <2>3
<1>3. ReadSeverity(m, c) \in Alarming => ReadSeverity(m, d) \in Alarming
  <2>1. CASE c = d
    BY <2>1
  <2>2. CASE c = FALSE /\ d = TRUE
    BY <1>1, <2>2, CorrelationRaises
  <2> QED BY <2>1, <2>2
<1>4. HighConfidence(m) /\ ReadSeverity(m, c) = "critical" => ReadSeverity(m, d) = "critical"
  <2>1. CASE c = d
    BY <2>1
  <2>2. CASE c = FALSE /\ d = TRUE
    BY <1>1, <2>2, CorrelationRaises
  <2> QED BY <2>1, <2>2
<1> DEFINE f == YaraFinding(match, rank, i, c)
           e == YaraFinding(copy, other, k, d)
<1>5. f.key = <<0, <<match.rule, match.plugin>>>> /\ e.key = <<0, <<copy.rule, copy.plugin>>>>
      /\ f.groups = {"yara_match"} /\ e.groups = {"yara_match"}
  BY DEF YaraFinding
<1>6. /\ f.score = SeverityScore[YaraSeverity(m, c)]
      /\ e.score = SeverityScore[YaraSeverity(m, d)]
      /\ f.specific = m.specific /\ e.specific = m.specific
  BY <1>1 DEF YaraFinding, m
<1>7. (f.trusted => e.trusted) /\ (f.decisive => e.decisive)
  <2>1. /\ f.trusted = (m.trusted /\ ~m.noisy /\ ReadSeverity(m, c) \in Alarming)
        /\ e.trusted = (m.trusted /\ ~m.noisy /\ ReadSeverity(m, d) \in Alarming)
        /\ f.decisive = (HighConfidence(m) /\ ReadSeverity(m, c) = "critical")
        /\ e.decisive = (HighConfidence(m) /\ ReadSeverity(m, d) = "critical")
    BY <1>1 DEF YaraFinding, m
  <2> HIDE DEF e, f
  <2> QED BY <1>3, <1>4, <2>1
<1> HIDE DEF e, f
<1>8. Dominates(e, f)
  BY <1>2, <1>5, <1>6, <1>7 DEF Dominates
<1> QED BY <1>8 DEF e, f

\* The matches of a rule and a plugin that are reported on more rows.
LEMMA MatchesOutdone ==
  ASSUME NEW arts \in Tables, NEW more \in Tables, Included(arts, more),
         NEW wanted \in SUBSET RowsOf("yara"), NEW wider, wanted \subseteq wider,
         NEW rank, NEW c \in BOOLEAN, NEW d \in BOOLEAN, c => d
  PROVE  Outdone(YaraFindings(arts, rank, Rows(arts, "yara", wanted), c),
                 YaraFindings(more, rank, Rows(more, "yara", wider), d))
<1> DEFINE F == YaraFindings(arts, rank, Rows(arts, "yara", wanted), c)
           G == YaraFindings(arts, rank, Rows(arts, "yara", wanted), d)
           H == YaraFindings(more, rank, Rows(more, "yara", wider), d)
           R == Representatives(arts, Rows(arts, "yara", wanted))
           S == Representatives(more, Rows(more, "yara", wider))
<1>1. "yara" \in Table /\ DOMAIN more["yara"] \subseteq Nat
  BY DEF Table, Tables
<1>2. ASSUME NEW i \in R
      PROVE  \E k \in S : /\ more["yara"][k].rule = arts["yara"][i].rule
                          /\ more["yara"][k].plugin = arts["yara"][i].plugin
  <2> DEFINE T == {k \in Rows(more, "yara", wider) :
                     /\ more["yara"][k].rule = arts["yara"][i].rule
                     /\ more["yara"][k].plugin = arts["yara"][i].plugin}
  <2>1. T # {} /\ T \subseteq Nat
    BY <1>1 DEF Representatives, Rows, Included
  <2>2. PICK k \in T : \A m \in T : k <= m
    <3> HIDE DEF T
    <3> QED BY <2>1, LeastNumber
  <2>3. \A m \in Rows(more, "yara", wider) : m < k => m \notin T
    BY <1>1, <2>1, <2>2 DEF Rows
  <2> QED BY <2>2, <2>3 DEF Representatives
<1>3. ASSUME NEW f \in F PROVE \E e \in H : Counterpart(e, f)
  <2>1. PICK i \in R : f = YaraFinding(arts["yara"][i], rank, i, c)
    BY YaraForm
  <2>2. PICK k \in S : /\ more["yara"][k].rule = arts["yara"][i].rule
                       /\ more["yara"][k].plugin = arts["yara"][i].plugin
    BY <1>2
  <2> DEFINE e == YaraFinding(more["yara"][k], rank, k, d)
  <2>3. e \in H
    BY YaraForm
  <2>4. Metadata[arts["yara"][i].rule] \in YaraMetadata
    <3>1. i \in DOMAIN arts["yara"] /\ arts["yara"][i] \in RowsOf("yara")
      BY DEF Representatives, Rows
    <3> QED BY <3>1, RowAssumption, MetadataAssumption DEF RowsOf
  <2>5. Dominates(e, f)
    BY <2>1, <2>2, <2>4, MatchDominates
  <2>6. e.place[1] = f.place[1]
    BY <2>1 DEF YaraFinding
  <2> QED BY <2>3, <2>5, <2>6 DEF Counterpart
<1> QED BY <1>3 DEF Outdone

LEMMA FindingsOutdone ==
  ASSUME NEW arts \in Tables, NEW more \in Tables, Grown(arts, more)
  PROVE  Outdone(Findings(arts), Findings(more))
<1>1. \A t \in Table : \A wanted, field, score, groups, context : \A rank \in Nat :
        Echoed(Single(arts, rank, t, Rows(arts, t, wanted), field, score, groups, context),
               Single(more, rank, t, Rows(more, t, wanted), field, score, groups, context))
  BY SingleEchoed DEF Grown
<1>2. \A t \in Table : \A wanted, field, score, groups, context : \A rank \in Nat :
        Echoed(Linked(arts, rank, t, Rows(arts, t, wanted), field, score, groups, context),
               Linked(more, rank, t, Rows(more, t, wanted), field, score, groups, context))
  BY LinkedEchoed DEF Grown
<1>3. HasRegions(arts) => HasRegions(more)
  BY DEF HasRegions, Grown, Included, Table, Tables
<1>4. Outdone(YaraFindings(arts, 7, MemoryMatches(arts), HasRegions(arts)),
              YaraFindings(more, 7, MemoryMatches(more), HasRegions(more)))
  <2> DEFINE W == MemoryMatch(HasRegions(arts))
             X == MemoryMatch(HasRegions(more))
  <2>1. HasRegions(arts) \in BOOLEAN /\ HasRegions(more) \in BOOLEAN
    BY DEF HasRegions
  <2>2. W \subseteq RowsOf("yara") /\ W \subseteq X
    <3>1. ASSUME NEW r \in W PROVE r \in X
      <4>1. Metadata[r.rule] \in YaraMetadata
        BY RowAssumption, MetadataAssumption DEF MemoryMatch, RowsOf
      <4>2. CASE HasRegions(arts) = HasRegions(more)
        BY <4>2
      <4>3. CASE HasRegions(arts) = FALSE /\ HasRegions(more) = TRUE
        <5>1. JobSummaryOnly(Metadata[r.rule], TRUE) => JobSummaryOnly(Metadata[r.rule], FALSE)
          BY <4>1, CorrelationRaises
        <5> QED BY <4>3, <5>1 DEF MemoryMatch
      <4> QED BY <1>3, <2>1, <4>2, <4>3
    <3> QED BY <3>1 DEF MemoryMatch
  <2>3. MemoryMatches(arts) = Rows(arts, "yara", W) /\ MemoryMatches(more) = Rows(more, "yara", X)
    BY MatchRows
  <2> HIDE DEF W, X
  <2> QED BY <1>3, <2>1, <2>2, <2>3, MatchesOutdone DEF Grown
<1>5. Outdone(YaraFindings(arts, 14, ProcessMatches(arts), FALSE),
              YaraFindings(more, 14, ProcessMatches(more), FALSE))
  <2> DEFINE c == FALSE
  <2>1. c \in BOOLEAN /\ ProcessMatch \subseteq RowsOf("yara")
    BY DEF ProcessMatch
  <2> HIDE DEF c
  <2>2. Outdone(YaraFindings(arts, 14, ProcessMatches(arts), c),
                YaraFindings(more, 14, ProcessMatches(more), c))
    BY <2>1, MatchRows, MatchesOutdone DEF Grown
  <2> QED BY <2>2 DEF c
<1> DEFINE F == CommandFindings(arts) \cup RegionFindings(arts, 3) \cup CorrelationFindings(arts)
                  \cup RegionFindings(arts, 8) \cup TableFindings(arts) \cup ProcessFindings(arts)
           G == CommandFindings(more) \cup RegionFindings(more, 3) \cup CorrelationFindings(more)
                  \cup RegionFindings(more, 8) \cup TableFindings(more) \cup ProcessFindings(more)
<1>6. Echoed(F, G)
  <2>1. Echoed(CommandFindings(arts), CommandFindings(more))
    BY <1>1, EchoedUnion DEF CommandFindings, Table
  <2>2. Echoed(RegionFindings(arts, 3), RegionFindings(more, 3))
        /\ Echoed(RegionFindings(arts, 8), RegionFindings(more, 8))
    BY <1>1 DEF RegionFindings, Table
  <2>3. Echoed(CorrelationFindings(arts), CorrelationFindings(more))
    BY <1>2, EchoedUnion DEF CorrelationFindings, Table
  <2>4. Echoed(TableFindings(arts), TableFindings(more))
    BY <1>1, EchoedUnion DEF TableFindings, Table
  <2>5. Echoed(ProcessFindings(arts), ProcessFindings(more))
    <3>1. \E wanted : /\ Hidden(arts) = Rows(arts, "process", wanted)
                      /\ Hidden(more) = Rows(more, "process", wanted)
      <4>1. \A a : Rows(a, "process", {}) = {}
        BY DEF Rows
      <4> QED BY <4>1 DEF Hidden, Grown
    <3> QED BY <1>1, <3>1, EchoedUnion DEF ProcessFindings, Table
  <2> QED BY <2>1, <2>2, <2>3, <2>4, <2>5, EchoedUnion
<1>7. \A f \in F : f.score \in 0..13
  BY FindingRange DEF Findings, Ranged
<1>8. Outdone(F, G)
  <2> HIDE DEF F, G
  <2> QED BY <1>6, <1>7, EchoedOutdone
<1>9. /\ Findings(arts) = (F \cup YaraFindings(arts, 7, MemoryMatches(arts), HasRegions(arts)))
                            \cup YaraFindings(arts, 14, ProcessMatches(arts), FALSE)
      /\ Findings(more) = (G \cup YaraFindings(more, 7, MemoryMatches(more), HasRegions(more)))
                            \cup YaraFindings(more, 14, ProcessMatches(more), FALSE)
  BY DEF Findings
<1> DEFINE M == YaraFindings(arts, 7, MemoryMatches(arts), HasRegions(arts))
           N == YaraFindings(more, 7, MemoryMatches(more), HasRegions(more))
           O == YaraFindings(arts, 14, ProcessMatches(arts), FALSE)
           P == YaraFindings(more, 14, ProcessMatches(more), FALSE)
<1>10. Outdone(M, N) /\ Outdone(O, P) /\ Findings(arts) = (F \cup M) \cup O
       /\ Findings(more) = (G \cup N) \cup P
  <2> HIDE DEF F, G
  <2> QED BY <1>4, <1>5, <1>9
<1> HIDE DEF F, G, M, N, O, P
<1>11. Outdone(F \cup M, G \cup N)
  BY <1>8, <1>10, OutdoneUnion
<1>12. Outdone((F \cup M) \cup O, (G \cup N) \cup P)
  BY <1>10, <1>11, OutdoneUnion
<1> QED BY <1>10, <1>12

LEMMA DominatesTransitive ==
  ASSUME NEW d, NEW e, NEW f, d.score \in 0..13, e.score \in 0..13, f.score \in 0..13,
         Dominates(d, e), Dominates(e, f)
  PROVE  Dominates(d, f)
BY DEF Dominates

\* Of two matches with a key the earlier rule's is the stronger.
LEMMA EarlierMatch ==
  ASSUME NEW arts \in Tables, NEW e \in Findings(arts), NEW v \in Findings(arts),
         e.key = v.key, v.place[1] = 7, e.place[1] = 14
  PROVE  Dominates(v, e)
<1> DEFINE E == YaraFindings(arts, 14, ProcessMatches(arts), FALSE)
           V == YaraFindings(arts, 7, MemoryMatches(arts), HasRegions(arts))
<1>1. e \in E /\ v \in V
  <2>1. \A f \in CommandFindings(arts) \cup RegionFindings(arts, 3) \cup CorrelationFindings(arts)
                   \cup RegionFindings(arts, 8) \cup TableFindings(arts) \cup ProcessFindings(arts) :
          f.place[1] \notin {7, 14}
    BY DEF CommandFindings, RegionFindings, CorrelationFindings, TableFindings, ProcessFindings,
           Single, Linked, Finding
  <2>2. (\A f \in E : f.place[1] = 14) /\ \A f \in V : f.place[1] = 7
    <3>1. \A rank, matches, c : \A f \in YaraFindings(arts, rank, matches, c) : f.place[1] = rank
      BY MatchForm DEF MatchFinding
    <3> QED BY <3>1
  <2> HIDE DEF E, V
  <2>3. \A f \in Findings(arts) : f.place[1] \in {7, 14} => f \in E \cup V
    BY <2>1 DEF Findings, E, V
  <2> QED BY <2>2, <2>3
<1>2. PICK i \in Representatives(arts, ProcessMatches(arts)) :
        e = YaraFinding(arts["yara"][i], 14, i, FALSE)
  BY <1>1, YaraForm
<1>3. PICK k \in Representatives(arts, MemoryMatches(arts)) :
        v = YaraFinding(arts["yara"][k], 7, k, HasRegions(arts))
  BY <1>1, YaraForm
<1> DEFINE p == arts["yara"][i]
           q == arts["yara"][k]
<1>4. p.rule = q.rule /\ p.plugin = q.plugin
  <2>1. e.key = <<0, <<p.rule, p.plugin>>>> /\ v.key = <<0, <<q.rule, q.plugin>>>>
    BY <1>2, <1>3 DEF YaraFinding
  <2> DEFINE r == p.rule
             s == q.rule
             a == p.plugin
             b == q.plugin
  <2>2. <<0, <<r, a>>>> = <<0, <<s, b>>>>
    BY <2>1, Zenon
  <2> HIDE DEF r, s, a, b
  <2>3. r = s /\ a = b
    BY <2>2
  <2> QED BY <2>3 DEF r, s, a, b
<1>5. Metadata[p.rule] \in YaraMetadata
  <2>1. i \in DOMAIN arts["yara"] /\ arts["yara"] \in Seq(Row) /\ arts["yara"][i].table = "yara"
    BY DEF Representatives, ProcessMatches, Tables, Table
  <2>2. arts["yara"][i] \in Row
    BY <2>1
  <2> QED BY <2>1, <2>2, RowAssumption, MetadataAssumption
<1> DEFINE c == FALSE
<1>6. c \in BOOLEAN /\ HasRegions(arts) \in BOOLEAN /\ (c => HasRegions(arts))
      /\ e = YaraFinding(p, 14, i, c)
  BY <1>2 DEF HasRegions
<1> HIDE DEF c, p, q
<1>7. v = YaraFinding(q, 7, k, HasRegions(arts))
  BY <1>3 DEF q
<1> QED BY <1>4, <1>5, <1>6, <1>7, MatchDominates

\* Each component has a stronger one on more rows.
LEMMA ComponentsOutdone ==
  ASSUME NEW arts \in Tables, NEW more \in Tables, Grown(arts, more),
         NEW f \in Unique(Findings(arts))
  PROVE  \E v \in Unique(Findings(more)) : Dominates(v, f)
<1>1. f \in Findings(arts)
  BY DEF Unique
<1>2. PICK e \in Findings(more) : Counterpart(e, f)
  BY <1>1, FindingsOutdone DEF Outdone
<1> DEFINE S == {h \in Findings(more) : h.key = e.key}
<1>3. PICK v \in S : \A h \in S : ~Before(h, v)
  <2>1. e \in S /\ \A h \in S : h.place \in Place
    BY FindingPlaces
  <2> HIDE DEF S
  <2> QED BY <2>1, LeastPlace
<1>4. v \in Unique(Findings(more)) /\ v \in Findings(more) /\ v.key = e.key
  BY <1>3 DEF Unique
<1>5. v.place[1] <= e.place[1] /\ v.place[1] \in Nat /\ e.place[1] \in Nat
  <2>1. ~Before(e, v) /\ e.place \in Place /\ v.place \in Place
    BY <1>3, <1>4, FindingPlaces
  <2> QED BY <2>1 DEF Before, Place
<1>6. Ranged(e) /\ Ranged(v) /\ Ranged(f)
  BY <1>1, <1>4, FindingRange
<1>7. Dominates(v, e)
  <2>1. CASE v.place[1] = e.place[1]
    <3>1. Alike(v, e)
      BY <1>4, <2>1, FindingsRegular DEF Regular, Determined
    <3> QED BY <1>6, <3>1 DEF Alike, Dominates, Ranged
  <2>2. CASE v.place[1] # e.place[1]
    <3>1. v.place[1] = 7 /\ e.place[1] = 14
      BY <1>4, <1>5, <1>6, <2>2 DEF Ranged
    <3> QED BY <1>4, <3>1, EarlierMatch
  <2> QED BY <2>1, <2>2
<1>8. Dominates(v, f)
  BY <1>2, <1>6, <1>7, DominatesTransitive DEF Counterpart, Ranged
<1> QED BY <1>4, <1>8

\* The best score of a group is one of its components' scores.
LEMMA GreatestNumber ==
  ASSUME NEW T \in SUBSET (0..13), T # {}
  PROVE  Max(T) \in T /\ \A y \in T : y <= Max(T)
<1> DEFINE D == {n \in Nat : 13 - n \in T}
<1>1. D # {} /\ D \in SUBSET Nat
  <2>1. PICK y \in T : TRUE
    OBVIOUS
  <2>2. 13 - y \in Nat /\ 13 - (13 - y) = y
    OBVIOUS
  <2>3. 13 - y \in D
    BY <2>2
  <2> QED BY <2>3
<1>2. PICK n \in D : \A m \in D : n <= m
  <2> HIDE DEF D
  <2> QED BY <1>1, LeastNumber
<1>3. \E x \in T : \A y \in T : x >= y
  <2>1. 13 - n \in T
    OBVIOUS
  <2>2. ASSUME NEW y \in T PROVE 13 - n >= y
    <3>1. y \in 0..13 /\ 13 - y \in Nat /\ 13 - (13 - y) = y
      OBVIOUS
    <3>2. n <= 13 - y /\ n \in Nat
      BY <1>2, <3>1
    <3> QED BY <3>1, <3>2
  <2> QED BY <2>1, <2>2
<1>4. Max(T) \in T /\ \A y \in T : Max(T) >= y
  BY <1>3 DEF Max
<1>5. \A y \in T : y \in Int
  OBVIOUS
<1> QED BY <1>4, <1>5

LEMMA GroupsFinite == IsFiniteSet(EvidenceGroup)
<1>1. EvidenceGroup =
        {"suspicious_command"} \cup {"suspicious_command_keywords"} \cup {"memory_region"}
          \cup {"network_endpoint"} \cup {"suspicious_module"} \cup {"module_context"}
          \cup {"yara_match"} \cup {"win_system_process_wrong_path"}
          \cup {"win_suspicious_parent_child"} \cup {"win_psscan_only_process"}
  BY DEF EvidenceGroup
<1> QED BY <1>1, FS_Singleton, FS_Union

\* The score of one group among components.
BestScore(C, g) == Max({f.score : f \in {c \in C : g \in c.groups}})

LEMMA BestScoreGrows ==
  ASSUME NEW C, NEW D, \A f \in C \cup D : f.score \in 0..13,
         \A f \in C : \E v \in D : Dominates(v, f), NEW g
  PROVE  /\ g \in EvidenceGroups(D) => BestScore(D, g) \in Nat
         /\ g \in EvidenceGroups(C) => /\ g \in EvidenceGroups(D)
                                      /\ BestScore(C, g) \in Nat
                                      /\ BestScore(C, g) <= BestScore(D, g)
<1> DEFINE S == {f.score : f \in {c \in C : g \in c.groups}}
           T == {f.score : f \in {c \in D : g \in c.groups}}
<1>1. S \in SUBSET (0..13) /\ T \in SUBSET (0..13)
  OBVIOUS
<1>2. (g \in EvidenceGroups(C) => S # {}) /\ (g \in EvidenceGroups(D) => T # {})
  BY DEF EvidenceGroups
<1>3. g \in EvidenceGroups(C) => g \in EvidenceGroups(D)
  BY DEF EvidenceGroups, Dominates
<1>4. ASSUME NEW x \in S PROVE \E y \in T : x <= y
  BY DEF Dominates
<1>5. BestScore(C, g) = Max(S) /\ BestScore(D, g) = Max(T)
  BY DEF BestScore
<1> HIDE DEF S, T
<1>6. /\ S # {} => Max(S) \in S
      /\ T # {} => Max(T) \in T /\ \A y \in T : y <= Max(T)
  BY <1>1, GreatestNumber
<1>7. g \in EvidenceGroups(C) => Max(S) <= Max(T)
  <2> SUFFICES ASSUME g \in EvidenceGroups(C) PROVE Max(S) <= Max(T)
    OBVIOUS
  <2>1. PICK y \in T : Max(S) <= y
    BY <1>2, <1>4, <1>6
  <2>2. y <= Max(T) /\ Max(T) \in 0..13 /\ y \in 0..13 /\ Max(S) \in 0..13
    BY <1>1, <1>2, <1>6, <2>1
  <2> QED BY <2>1, <2>2
<1>8. (g \in EvidenceGroups(C) => Max(S) \in Nat) /\ (g \in EvidenceGroups(D) => Max(T) \in Nat)
  <2>1. (\A x \in S : x \in Nat) /\ \A x \in T : x \in Nat
    BY <1>1
  <2> QED BY <1>2, <1>6, <2>1
<1> QED BY <1>3, <1>5, <1>7, <1>8

LEMMA CapGrows ==
  ASSUME NEW s \in Nat, NEW t \in Nat, s <= t, NEW G, NEW H, G \subseteq H
  PROVE  /\ Capped(s, G) \in Nat /\ Capped(t, H) \in Nat
         /\ Capped(s, G) <= Capped(t, H)
<1> DEFINE Low(x, n) == IF x <= n THEN x ELSE n
<1>1. \A x \in Nat : \A n \in {4, 5} : Min({x, n}) = Low(x, n)
  <2> SUFFICES ASSUME NEW x \in Nat, NEW n \in {4, 5} PROVE Min({x, n}) = Low(x, n)
    OBVIOUS
  <2>1. \E y \in {x, n} : \A z \in {x, n} : y <= z
    OBVIOUS
  <2>2. Min({x, n}) \in {x, n} /\ \A z \in {x, n} : Min({x, n}) <= z
    BY <2>1 DEF Min
  <2> QED BY <2>2
<1> DEFINE Cap(x, K) ==
             IF K \in {{"yara_match"}, {"network_endpoint"}, {"suspicious_module"}} THEN Low(x, 5)
             ELSE IF K \subseteq {"module_context"} THEN Low(x, 4)
             ELSE IF K \subseteq {"suspicious_module", "module_context"} THEN Low(x, 5)
             ELSE x
<1>2. \A x \in Nat : \A K : Capped(x, K) = Cap(x, K)
  BY <1>1 DEF Capped
<1>3. CASE H \in {{"yara_match"}, {"network_endpoint"}, {"suspicious_module"}}
  <2>1. Cap(t, H) = Low(t, 5)
    BY <1>3
  <2>2. Cap(s, G) \in {Low(s, 5), Low(s, 4)}
    <3>1. CASE G = H
      BY <1>3, <3>1
    <3>2. CASE G # H
      <4>1. G = {}
        BY <1>3, <3>2
      <4>2. G \subseteq {"module_context"}
        BY <4>1
      <4> QED BY <4>2
    <3> QED BY <3>1, <3>2
  <2> QED BY <1>2, <2>1, <2>2
<1>4. CASE H \subseteq {"module_context"}
  <2>1. G \subseteq {"module_context"}
    BY <1>4
  <2>2. \A K : K \subseteq {"module_context"}
          => K \notin {{"yara_match"}, {"network_endpoint"}, {"suspicious_module"}}
    OBVIOUS
  <2>3. Cap(s, G) = Low(s, 4) /\ Cap(t, H) = Low(t, 4)
    BY <1>4, <2>1, <2>2
  <2> QED BY <1>2, <2>3
<1>5. CASE /\ H \notin {{"yara_match"}, {"network_endpoint"}, {"suspicious_module"}}
           /\ ~(H \subseteq {"module_context"})
           /\ H \subseteq {"suspicious_module", "module_context"}
  <2>1. Cap(t, H) = Low(t, 5)
    BY <1>5
  <2>2. Cap(s, G) \in {Low(s, 5), Low(s, 4)}
    BY <1>5
  <2> QED BY <1>2, <2>1, <2>2
<1>6. CASE /\ H \notin {{"yara_match"}, {"network_endpoint"}, {"suspicious_module"}}
           /\ ~(H \subseteq {"module_context"})
           /\ ~(H \subseteq {"suspicious_module", "module_context"})
  <2>1. Cap(t, H) = t
    BY <1>6
  <2>2. Cap(s, G) \in {Low(s, 5), Low(s, 4), s}
    OBVIOUS
  <2> QED BY <1>2, <2>1, <2>2
<1> QED BY <1>3, <1>4, <1>5, <1>6

LEMMA LevelGrows ==
  ASSUME NEW s \in Nat, NEW t \in Nat, s <= t
  PROVE  /\ Level(s) \in {"low", "medium", "high", "critical"}
         /\ Level(t) \in {"low", "medium", "high", "critical"}
         /\ Rank[Level(s)] <= Rank[Level(t)]
BY DEF Level, Rank

\* Components as the summary of one process has them.
Components(C) == \A f \in C : f.score \in 0..13 /\ f.groups \subseteq EvidenceGroup

LEMMA ScoreGrows ==
  ASSUME NEW C, NEW D, Components(C), Components(D),
         \A f \in C : \E v \in D : Dominates(v, f)
  PROVE  /\ EvidenceGroups(C) \subseteq EvidenceGroups(D)
         /\ IsFiniteSet(EvidenceGroups(D))
         /\ Rated(C).score \in Nat /\ Rated(D).score \in Nat
         /\ Rated(C).score <= Rated(D).score
<1> DEFINE G == EvidenceGroups(C)
           H == EvidenceGroups(D)
           f == GroupScore(C)
           h == GroupScore(D)
<1>1. f = [g \in G |-> BestScore(C, g)] /\ h = [g \in H |-> BestScore(D, g)]
  BY DEF GroupScore, BestScore
<1>2. /\ \A g \in H : BestScore(D, g) \in Nat
      /\ \A g \in G : /\ g \in H /\ BestScore(C, g) \in Nat
                      /\ BestScore(C, g) <= BestScore(D, g)
  BY BestScoreGrows DEF Components
<1>3. IsFiniteSet(H)
  <2>1. H \subseteq EvidenceGroup
    BY DEF EvidenceGroups, Components
  <2> QED BY <2>1, GroupsFinite, FS_Subset
<1>4. Rated(C).score = Capped(SumFunction(f), G) /\ Rated(D).score = Capped(SumFunction(h), H)
  BY DEF Rated
<1> HIDE DEF G, H, f, h
<1>5. /\ SumFunction(f) \in Nat /\ SumFunction(h) \in Nat
      /\ SumFunction(f) <= SumFunction(h)
  <2>1. DOMAIN f = G /\ DOMAIN h = H /\ G \subseteq H
    BY <1>1, <1>2
  <2>2. /\ \A g \in DOMAIN h : h[g] \in Nat
        /\ \A g \in DOMAIN f : f[g] \in Nat /\ f[g] <= h[g]
    BY <1>1, <1>2
  <2> QED BY <1>3, <2>1, <2>2, SumGrows
<1>6. G \subseteq H
  BY <1>2
<1>7. /\ Capped(SumFunction(f), G) \in Nat /\ Capped(SumFunction(h), H) \in Nat
      /\ Capped(SumFunction(f), G) <= Capped(SumFunction(h), H)
  BY <1>5, <1>6, CapGrows
<1> QED BY <1>3, <1>4, <1>6, <1>7 DEF G, H

LEMMA SeverityGrows ==
  ASSUME NEW C, NEW D, Components(C), Components(D),
         \A f \in C : \E v \in D : Dominates(v, f), \A f \in D : ~f.context
  PROVE  Rank[Rated(D).severity] >= Rank[Rated(C).severity]
<1> DEFINE G == EvidenceGroups(C)
           H == EvidenceGroups(D)
           s == Rated(C).score
           t == Rated(D).score
<1>1. G \subseteq H /\ IsFiniteSet(H) /\ s \in Nat /\ t \in Nat /\ s <= t
  BY ScoreGrows
<1>2. /\ Rated(C).severity = SummarySeverity(C, G, s)
      /\ Rated(D).severity = SummarySeverity(D, H, t)
  BY DEF Rated
<1>3. ~ContextOnly(D, H)
  BY DEF ContextOnly
<1>4. /\ SpecificYara(C) => SpecificYara(D)
      /\ TrustedYara(C) => TrustedYara(D)
      /\ DecisiveYara(C) => DecisiveYara(D)
  BY DEF SpecificYara, TrustedYara, DecisiveYara, Dominates
<1>5. Cardinality(G) \in Nat /\ Cardinality(H) \in Nat /\ Cardinality(G) <= Cardinality(H)
  <2> HIDE DEF G, H
  <2> QED BY <1>1, FS_Subset, FS_CardinalityType
<1> HIDE DEF G, H, s, t
<1>6. CriticalAllowed(C, G) => CriticalAllowed(D, H)
  BY <1>1, <1>4, <1>5 DEF CriticalAllowed
<1>7. /\ Level(s) \in {"low", "medium", "high", "critical"}
      /\ Level(t) \in {"low", "medium", "high", "critical"}
      /\ Rank[Level(s)] <= Rank[Level(t)]
  BY <1>1, LevelGrows
<1> DEFINE a == IF Level(s) = "critical" /\ ~CriticalAllowed(C, G) THEN "high" ELSE Level(s)
           b == IF Level(t) = "critical" /\ ~CriticalAllowed(D, H) THEN "high" ELSE Level(t)
<1>8. /\ a \in {"low", "medium", "high", "critical"} /\ b \in {"low", "medium", "high", "critical"}
      /\ Rank[a] <= Rank[b]
  BY <1>6, <1>7 DEF Rank
<1>9. /\ SummarySeverity(C, G, s) = a \/ (a \in Alarming /\ SummarySeverity(C, G, s) = "medium")
      /\ SummarySeverity(D, H, t) = b
  BY <1>3 DEF SummarySeverity
<1> HIDE DEF a, b
<1> QED BY <1>2, <1>8, <1>9 DEF Rank, Alarming

\* Each component has one of its own among more components.
LEMMA NoFewer ==
  ASSUME NEW F, NEW G, Regular(F), Regular(G),
         \A f \in Unique(F) : \E v \in Unique(G) : Dominates(v, f)
  PROVE  /\ IsFiniteSet(Unique(F)) /\ IsFiniteSet(Unique(G))
         /\ Cardinality(Unique(F)) \in Nat /\ Cardinality(Unique(G)) \in Nat
         /\ Cardinality(Unique(F)) <= Cardinality(Unique(G))
<1> DEFINE U == Unique(F)
           V == Unique(G)
           b == [f \in U |-> CHOOSE g \in V : g.key = f.key]
<1>1. \A f \in U : b[f] \in V /\ b[f].key = f.key
  <2>1. \A f \in U : \E g \in V : g.key = f.key
    BY DEF Dominates
  <2> QED BY <2>1
<1>2. \A f, g \in U : f.key = g.key => f = g
  BY OnePerKey
<1>3. IsFiniteSet(U) /\ IsFiniteSet(V)
  BY FS_Subset DEF Regular, Unique
<1>4. b \in [U -> V]
  BY <1>1
<1> HIDE DEF U, V, b
<1>5. b \in Injection(U, V)
  BY <1>1, <1>2, <1>4 DEF Injection, IsInjective
<1>6. Cardinality(U) <= Cardinality(V)
  BY <1>3, <1>5, FS_Injection
<1> QED BY <1>3, <1>6, FS_CardinalityType DEF U, V

LEMMA SummaryGrows ==
  ASSUME NEW arts \in Tables, NEW more \in Tables, Grown(arts, more), ~Crowded(more)
  PROVE  NoMilder(ProcessSummary(more), ProcessSummary(arts), Contextual(more))
<1> DEFINE U == Unique(Findings(arts))
           V == Unique(Findings(more))
<1>1. Regular(Findings(arts)) /\ Regular(Findings(more))
  BY FindingsRegular
<1>2. \A f \in U : \E v \in V : Dominates(v, f)
  BY ComponentsOutdone
<1>3. /\ IsFiniteSet(U) /\ IsFiniteSet(V) /\ Cardinality(U) \in Nat /\ Cardinality(V) \in Nat
      /\ Cardinality(U) <= Cardinality(V)
  BY <1>1, <1>2, NoFewer
<1>4. (\A f \in U : f.place \in Place) /\ \A f \in V : f.place \in Place
  BY <1>1 DEF Regular, Unique
<1>5. Cardinality(V) <= MaxComponents /\ Cardinality(U) <= MaxComponents
  <2>1. ~(Cardinality(V) > MaxComponents)
    BY DEF Crowded
  <2> QED BY <1>3, <2>1, LimitAssumption
<1>6. Selected(U) = U /\ Selected(V) = V
  BY <1>3, <1>4, <1>5, AllSelected
<1>7. Components(U) /\ Components(V)
  <2>1. U \subseteq Findings(arts) /\ V \subseteq Findings(more)
    BY DEF Unique
  <2> QED BY <2>1, FindingRange DEF Components, Ranged
<1>8. Rated(U).score \in Nat /\ Rated(V).score \in Nat /\ Rated(U).score <= Rated(V).score
  BY <1>2, <1>7, ScoreGrows
<1>9. ~Contextual(more) => Rank[Rated(V).severity] >= Rank[Rated(U).severity]
  <2>1. ~Contextual(more) => \A f \in V : ~f.context
    BY ContextFindings DEF Unique
  <2> QED BY <1>2, <1>7, <2>1, SeverityGrows
<1>10. Rank[Rated(V).severity] >= 0 /\ Rated(V).score >= 0
  <2>1. Level(Rated(V).score) \in {"low", "medium", "high", "critical"}
    BY <1>8 DEF Level
  <2>2. Rated(V).severity \in {"low", "medium", "high", "critical"}
    BY <2>1 DEF Rated, SummarySeverity
  <2> QED BY <1>8, <2>2 DEF Rank
<1>11. /\ ProcessSummary(arts) = IF Cardinality(U) < 2 THEN NoSummary ELSE Rated(U)
       /\ ProcessSummary(more) = IF Cardinality(V) < 2 THEN NoSummary ELSE Rated(V)
  BY <1>6 DEF ProcessSummary
<1> HIDE DEF U, V
<1>12. NoSummary.score = 0 /\ NoSummary.severity = "none" /\ Rank["none"] = 0
  BY DEF NoSummary, Rank
<1>13. CASE Cardinality(V) < 2
  <2>1. Cardinality(U) < 2
    BY <1>3, <1>13
  <2> QED BY <1>11, <1>12, <1>13, <2>1 DEF NoMilder
<1>14. CASE ~(Cardinality(V) < 2) /\ Cardinality(U) < 2
  BY <1>10, <1>11, <1>12, <1>14 DEF NoMilder
<1>15. CASE ~(Cardinality(V) < 2) /\ ~(Cardinality(U) < 2)
  BY <1>8, <1>9, <1>11, <1>15 DEF NoMilder
<1> QED BY <1>13, <1>14, <1>15

LEMMA AppendGrows ==
  ASSUME NEW arts \in Tables, NEW r \in Row, r \notin Pslist
  PROVE  Grown(arts, [arts EXCEPT ![r.table] = Append(@, r)])
<1> DEFINE more == [arts EXCEPT ![r.table] = Append(@, r)]
<1>1. r.table \in Table /\ arts \in [Table -> Seq(Row)]
  BY RowAssumption DEF Tables
<1>2. ASSUME NEW t \in Table
      PROVE  /\ \A i \in DOMAIN arts[t] : i \in DOMAIN more[t] /\ more[t][i] = arts[t][i]
             /\ \A i \in DOMAIN more[t] \ DOMAIN arts[t] : t = r.table /\ more[t][i] = r
  <2>1. arts[t] \in Seq(Row)
    BY <1>1
  <2>2. CASE t = r.table
    <3>1. more[t] = Append(arts[t], r)
      BY <1>1, <2>2
    <3>2. DOMAIN more[t] = 1..(Len(arts[t]) + 1) /\ DOMAIN arts[t] = 1..Len(arts[t])
          /\ Len(arts[t]) \in Nat
      BY <2>1, <3>1
    <3>3. more[t][Len(arts[t]) + 1] = r /\ \A i \in DOMAIN arts[t] : more[t][i] = arts[t][i]
      BY <2>1, <3>1
    <3>4. \A i \in DOMAIN more[t] \ DOMAIN arts[t] : i = Len(arts[t]) + 1
      BY <3>2
    <3> HIDE DEF more
    <3> QED BY <2>2, <3>2, <3>3, <3>4
  <2>3. CASE t # r.table
    <3>1. more[t] = arts[t]
      BY <1>1, <2>3
    <3> HIDE DEF more
    <3> QED BY <3>1
  <2> QED BY <2>2, <2>3
<1> HIDE DEF more
<1>3. Included(arts, more)
  BY <1>2 DEF Included
<1>4. Rows(arts, "process", Pslist) = Rows(more, "process", Pslist)
  BY <1>2 DEF Rows, Table
<1> QED BY <1>3, <1>4 DEF Grown, more

\* One more row never lowers the score, nor the severity of a process that nothing
\* makes benign context of, for any rows, rules and metadata: each component has a
\* stronger one under its key afterwards, a match of rank 14 perhaps the correlated
\* one of rank 7, and score, cap, level and gate grow with the components.
THEOREM EvidenceAccumulates == Spec => MoreEvidenceNeverLowers
<1>1. TypeOK /\ [Next]_vars
        => [\A r \in Row :
              (StoreRow(r) /\ ~Crowded(artifacts') /\ r \notin Pslist)
                => NoMilder(ProcessSummary(artifacts'), ProcessSummary(artifacts),
                            Contextual(artifacts'))]_vars
  <2> SUFFICES ASSUME TypeOK, NEW r \in Row, StoreRow(r), ~Crowded(artifacts'), r \notin Pslist
               PROVE  NoMilder(ProcessSummary(artifacts'), ProcessSummary(artifacts),
                               Contextual(artifacts'))
    OBVIOUS
  <2>1. PICK arts, more : arts = artifacts /\ more = artifacts'
    OBVIOUS
  <2>2. arts \in Tables
    BY <2>1 DEF TypeOK, Tables
  <2>3. more = [arts EXCEPT ![r.table] = Append(@, r)]
    BY <2>1 DEF StoreRow
  <2>4. more \in Tables /\ Grown(arts, more)
    BY <2>2, <2>3, AppendOK, AppendGrows
  <2>5. ~Crowded(more)
    BY <2>1
  <2>6. NoMilder(ProcessSummary(more), ProcessSummary(arts), Contextual(more))
    BY <2>2, <2>4, <2>5, SummaryGrows
  <2> QED BY <2>1, <2>6
<1> QED BY <1>1, RiskTypeCorrect, PTL DEF Spec, MoreEvidenceNeverLowers
=============================================================================
