-------------------------- MODULE IocExportProofs --------------------------
(***************************************************************************)
(* Theorems about what is exported of the findings of ProcessRisk, for any *)
(* number of rows and any YARA rules with any metadata.                    *)
(***************************************************************************)
EXTENDS IocExport, ProcessRiskProofs

-----------------------------------------------------------------------------
(* Deduplication keeps a draft of every key. *)

\* Drafts as the extractor makes them.
Draftlike(drafts) == \A d \in drafts : d.confidence \in 0..100 /\ d.at \in Nat

\* Some draft of a list is preferred to every other.
LEMMA Preference ==
  ASSUME NEW S, S # {}, Draftlike(S)
  PROVE  \E x \in S : \A e \in S : Preferred(x, e)
<1> DEFINE Doubt == {100 - d.confidence : d \in S}
<1>1. Doubt # {} /\ Doubt \in SUBSET Nat
  BY DEF Draftlike
<1>2. PICK a \in Doubt : \A b \in Doubt : a <= b
  <2> HIDE DEF Doubt
  <2> QED BY <1>1, LeastNumber
<1> DEFINE Places == {d.at : d \in {e \in S : 100 - e.confidence = a}}
<1>3. Places # {} /\ Places \in SUBSET Nat
  BY DEF Draftlike
<1>4. PICK p \in Places : \A q \in Places : p <= q
  <2> HIDE DEF Places
  <2> QED BY <1>3, LeastNumber
<1>5. PICK x \in S : 100 - x.confidence = a /\ x.at = p
  OBVIOUS
<1>6. ASSUME NEW e \in S PROVE Preferred(x, e)
  <2>1. x.confidence \in 0..100 /\ e.confidence \in 0..100 /\ x.at \in Nat /\ e.at \in Nat
    BY DEF Draftlike
  <2>2. a <= 100 - e.confidence
    BY <1>2
  <2>3. 100 - e.confidence = a => p <= e.at
    BY <1>4
  <2> DEFINE c == x.confidence
             b == e.confidence
  <2>4. c \in 0..100 /\ b \in 0..100 /\ 100 - c = a /\ a <= 100 - b
    BY <1>5, <2>1, <2>2
  <2>5. 100 - b = a => x.at <= e.at
    BY <1>5, <2>3
  <2> HIDE DEF c, b
  <2>6. c > b \/ (c = b /\ x.at <= e.at)
    BY <2>4, <2>5
  <2> QED BY <2>6 DEF Preferred, c, b
<1> QED BY <1>6

\* What is preferred is not less confident.
LEMMA PreferredIsSurer ==
  ASSUME NEW x, NEW e, x.confidence \in 0..100, e.confidence \in 0..100, Preferred(x, e)
  PROVE  x.confidence >= e.confidence /\ e.confidence <= x.confidence
<1> DEFINE a == x.confidence
           b == e.confidence
<1>1. a \in 0..100 /\ b \in 0..100
  OBVIOUS
<1>2. a > b \/ a = b
  BY DEF Preferred
<1> HIDE DEF a, b
<1>3. a >= b /\ b <= a
  BY <1>1, <1>2
<1> QED BY <1>3 DEF a, b

\* Every draft leaves a record of its key, as confident as it is.
LEMMA KeyKept ==
  ASSUME NEW drafts, Draftlike(drafts), NEW d \in drafts
  PROVE  \E ioc \in Deduplicated(drafts) :
           /\ ioc.type = d.type /\ ioc.value = d.value /\ ioc.plugin = Key(d)[3]
           /\ ioc.confidence >= d.confidence
<1> DEFINE S == {e \in drafts : Key(e) = Key(d)}
<1>1. S # {} /\ Draftlike(S)
  BY DEF Draftlike
<1>2. PICK x \in S : \A e \in S : Preferred(x, e)
  <2> HIDE DEF S
  <2> QED BY <1>1, Preference
<1>3. Record(x) \in Deduplicated(drafts)
  BY <1>2 DEF Deduplicated
<1>4. x.type = d.type /\ x.value = d.value /\ Key(x)[3] = Key(d)[3]
  <2>1. Key(x) = Key(d)
    OBVIOUS
  <2>2. Key(x)[1] = x.type /\ Key(x)[2] = x.value /\ Key(d)[1] = d.type /\ Key(d)[2] = d.value
    BY DEF Key
  <2> QED BY <2>1, <2>2
<1>5. x.confidence >= d.confidence
  <2>1. Preferred(x, d)
    BY <1>2
  <2>2. x.confidence \in 0..100 /\ d.confidence \in 0..100
    BY DEF Draftlike
  <2> QED BY <2>1, <2>2, PreferredIsSurer
<1> QED BY <1>3, <1>4, <1>5 DEF Record

DraftsOf(arts, findings) ==
  NetworkIocs(arts, findings) \cup CommandIocs(arts, findings)
    \cup ModuleIocs(arts, findings) \cup ProcessIocs(arts, findings)
    \cup YaraIocs(arts, findings) \cup RegionIocs(arts, findings)
    \cup PluginReferences(arts, findings)

\* The export deduplicates all drafts at once.
LEMMA ExportForm ==
  \A arts, findings : ExportOf(arts, findings) = Deduplicated(DraftsOf(arts, findings))
BY DEF ExportOf, DraftsOf

Levels == {"low", "medium", "high", "critical"}

Lower(c, cap) == Min({c, cap})

\* Confidences are those of levels, some of them capped.
LEMMA ConfidenceRange ==
  /\ \A findings : \A default \in Levels : WorstSeverity(findings, default) \in Levels
  /\ \A severity \in Levels : ConfidenceFor[severity] \in 45..95
  /\ \A c \in 45..95 : \A cap \in 40..70 : Lower(c, cap) = IF c <= cap THEN c ELSE cap
<1>1. \A findings : \A default \in Levels : WorstSeverity(findings, default) \in Levels
  BY DEF WorstSeverity, Level, Levels
<1>2. \A severity \in Levels : ConfidenceFor[severity] \in 45..95
  BY DEF ConfidenceFor, Levels
<1>3. ASSUME NEW c \in 45..95, NEW cap \in 40..70
      PROVE  Lower(c, cap) = IF c <= cap THEN c ELSE cap
  <2>1. \E x \in {c, cap} : \A y \in {c, cap} : x <= y
    OBVIOUS
  <2>2. Min({c, cap}) \in {c, cap} /\ \A y \in {c, cap} : Min({c, cap}) <= y
    BY <2>1 DEF Min
  <2> QED BY <2>2 DEF Lower
<1> QED BY <1>1, <1>2, <1>3

\* A match has the metadata of its rule.
LEMMA MatchMetadata ==
  ASSUME NEW arts \in Tables, NEW i \in DOMAIN arts["yara"]
  PROVE  Metadata[arts["yara"][i].rule] \in YaraMetadata
<1>1. arts["yara"] \in Seq(Row) /\ arts["yara"][i].table = "yara"
  BY DEF Tables, Table
<1>2. arts["yara"][i] \in Row
  BY <1>1
<1> QED BY <1>1, <1>2, RowAssumption, MetadataAssumption

\* A connection is exported by its address and, if it has a port, its endpoint.
LEMMA ConnectionDrafts ==
  ASSUME NEW i, NEW row, NEW confidence, NEW d \in NetworkDrafts(i, row, confidence)
  PROVE  \/ d = Draft(i, "ip_address", row.address, "network", confidence, "threat_ioc")
         \/ /\ HasPort(row)
            /\ d = Draft(i, "network_endpoint", row.endpoint, "network", confidence, "threat_ioc")
BY DEF NetworkDrafts

\* The drafts of each extractor are numbers where they are compared.
LEMMA RowDrafts ==
  ASSUME NEW arts \in Tables, NEW findings
  PROVE  /\ Draftlike(NetworkIocs(arts, findings)) /\ Draftlike(CommandIocs(arts, findings))
         /\ Draftlike(ModuleIocs(arts, findings)) /\ Draftlike(ProcessIocs(arts, findings))
         /\ Draftlike(RegionIocs(arts, findings))
<1>1. \A t \in Table : DOMAIN arts[t] \subseteq Nat
  BY DEF Tables
<1>2. \A t \in Table, i \in Nat : \A default \in Levels :
        ConfidenceFor[WorstSeverity(On(findings, t, i), default)] \in 45..95
  BY ConfidenceRange
<1>3. \A c \in 45..95 : \A cap \in 40..70 : Lower(c, cap) \in 0..100
  BY ConfidenceRange
<1>4. Draftlike(NetworkIocs(arts, findings))
  <2> SUFFICES ASSUME NEW d \in NetworkIocs(arts, findings)
               PROVE  d.confidence \in 0..100 /\ d.at \in Nat
    BY DEF Draftlike
  <2>1. PICK i \in DOMAIN arts["network"] :
          LET row        == arts["network"][i]
              severity   == WorstSeverity(On(findings, "network", i),
                                          IF row \in Public THEN "medium" ELSE "low")
              confidence == IF row \in Public THEN ConfidenceFor[severity]
                                              ELSE Min({ConfidenceFor[severity], 40})
          IN d \in NetworkDrafts(i, row, confidence)
    BY DEF NetworkIocs
  <2> DEFINE default == IF arts["network"][i] \in Public THEN "medium" ELSE "low"
             sure    == ConfidenceFor[WorstSeverity(On(findings, "network", i), default)]
  <2>2. i \in Nat /\ default \in Levels
    BY <1>1 DEF Table, Levels
  <2>3. sure \in 45..95
    <3> HIDE DEF default
    <3> QED BY <1>2, <2>2 DEF Table
  <2>4. d.at = i /\ (d.confidence = sure \/ d.confidence = Lower(sure, 40))
    BY <2>1, ConnectionDrafts DEF Draft, Lower
  <2>5. Lower(sure, 40) \in 0..100
    <3>1. 40 \in 40..70
      OBVIOUS
    <3> QED BY <1>3, <2>3, <3>1, Zenon
  <2> HIDE DEF sure
  <2> QED BY <2>2, <2>3, <2>4, <2>5
<1>5. Draftlike(CommandIocs(arts, findings))
  <2> SUFFICES ASSUME NEW d \in CommandIocs(arts, findings)
               PROVE  d.confidence \in 0..100 /\ d.at \in Nat
    BY DEF Draftlike
  <2>1. PICK i \in DOMAIN arts["command"] :
          d = Draft(i, "command_line", arts["command"][i].text, "command",
                    ConfidenceFor[WorstSeverity(On(findings, "command", i),
                      IF arts["command"][i] \in ListedCommand THEN "high" ELSE "medium")],
                    "threat_ioc")
    BY DEF CommandIocs
  <2> DEFINE default == IF arts["command"][i] \in ListedCommand THEN "high" ELSE "medium"
  <2>2. i \in Nat /\ default \in Levels
    BY <1>1 DEF Table, Levels
  <2>3. d.at = i /\ d.confidence = ConfidenceFor[WorstSeverity(On(findings, "command", i), default)]
    BY <2>1 DEF Draft
  <2> HIDE DEF default
  <2> QED BY <1>2, <2>2, <2>3 DEF Table
<1>6. Draftlike(ModuleIocs(arts, findings))
  <2> SUFFICES ASSUME NEW d \in ModuleIocs(arts, findings)
               PROVE  d.confidence \in 0..100 /\ d.at \in Nat
    BY DEF Draftlike
  <2>1. PICK i \in DOMAIN arts["module"] :
          d.at = i /\ d.confidence = ConfidenceFor[WorstSeverity(On(findings, "module", i), "medium")]
    BY DEF ModuleIocs, Draft
  <2>2. i \in Nat /\ "medium" \in Levels
    BY <1>1 DEF Table, Levels
  <2> QED BY <1>2, <2>1, <2>2 DEF Table
<1>7. Draftlike(ProcessIocs(arts, findings))
  <2> SUFFICES ASSUME NEW d \in ProcessIocs(arts, findings)
               PROVE  d.confidence \in 0..100 /\ d.at \in Nat
    BY DEF Draftlike
  <2>1. PICK i \in DOMAIN arts["process"] :
          LET sure == ConfidenceFor[WorstSeverity(On(findings, "process", i), "medium")]
          IN d.at = i /\ (d.confidence = sure \/ d.confidence = Lower(sure, 70))
    BY DEF ProcessIocs, Draft, Lower
  <2> DEFINE sure == ConfidenceFor[WorstSeverity(On(findings, "process", i), "medium")]
  <2>2. i \in Nat /\ "medium" \in Levels
    BY <1>1 DEF Table, Levels
  <2>3. sure \in 45..95
    BY <1>2, <2>2 DEF Table
  <2>4. Lower(sure, 70) \in 0..100
    <3>1. 70 \in 40..70
      OBVIOUS
    <3> QED BY <1>3, <2>3, <3>1, Zenon
  <2>5. d.at = i /\ (d.confidence = sure \/ d.confidence = Lower(sure, 70))
    BY <2>1
  <2> HIDE DEF sure
  <2> QED BY <2>2, <2>3, <2>4, <2>5
<1>8. Draftlike(RegionIocs(arts, findings))
  <2> SUFFICES ASSUME NEW d \in RegionIocs(arts, findings)
               PROVE  d.confidence \in 0..100 /\ d.at \in Nat
    BY DEF Draftlike
  <2>1. PICK i \in DOMAIN arts["memory_region"] :
          LET sure == ConfidenceFor[WorstSeverity(On(findings, "memory_region", i),
                        IF MalfindRow(arts["memory_region"][i]) THEN "high" ELSE "medium")]
          IN d.at = i /\ (d.confidence = sure \/ d.confidence = Min({sure, ConfidenceFor["medium"]}))
    BY DEF RegionIocs, Draft
  <2> DEFINE default == IF MalfindRow(arts["memory_region"][i]) THEN "high" ELSE "medium"
             sure    == ConfidenceFor[WorstSeverity(On(findings, "memory_region", i), default)]
  <2>2. i \in Nat /\ default \in Levels /\ ConfidenceFor["medium"] = 65
    BY <1>1 DEF Table, Levels, ConfidenceFor
  <2>3. sure \in 45..95
    <3> HIDE DEF default
    <3> QED BY <1>2, <2>2 DEF Table
  <2>4. d.at = i /\ (d.confidence = sure \/ d.confidence = Lower(sure, 65))
    BY <2>1, <2>2 DEF Lower
  <2>5. Lower(sure, 65) \in 0..100
    <3>1. 65 \in 40..70
      OBVIOUS
    <3> QED BY <1>3, <2>3, <3>1, Zenon
  <2> HIDE DEF sure
  <2> QED BY <2>2, <2>3, <2>4, <2>5
<1> QED BY <1>4, <1>5, <1>6, <1>7, <1>8

LEMMA MatchDrafts ==
  ASSUME NEW arts \in Tables, NEW findings
  PROVE  Draftlike(YaraIocs(arts, findings))
<1> SUFFICES ASSUME NEW d \in YaraIocs(arts, findings)
             PROVE  d.confidence \in 0..100 /\ d.at \in Nat
  BY DEF Draftlike
<1> DEFINE Declared(i) == Metadata[arts["yara"][i].rule].severity
           Sure(i) == ConfidenceFor[IF Declared(i) = "none" THEN "high" ELSE Declared(i)]
<1>1. PICK i \in DOMAIN arts["yara"] :
        d.at = i /\ (d.confidence = Sure(i) \/ d.confidence = Lower(Sure(i), 55))
  BY DEF YaraIocs, Draft, Lower
<1>2. i \in Nat
  BY DEF Tables, Table
<1>3. Sure(i) \in 45..95
  <2>1. Declared(i) \in {"none", "low", "medium", "high", "critical"}
    BY MatchMetadata DEF YaraMetadata
  <2> HIDE DEF Declared
  <2> QED BY <2>1 DEF ConfidenceFor
<1>4. Lower(Sure(i), 55) \in 0..100
  <2>1. Lower(Sure(i), 55) = IF Sure(i) <= 55 THEN Sure(i) ELSE 55
    <3>1. 55 \in 40..70
      OBVIOUS
    <3> QED BY <1>3, <3>1, ConfidenceRange, Zenon
  <2> HIDE DEF Sure
  <2> QED BY <1>3, <2>1
<1> HIDE DEF Sure
<1> QED BY <1>1, <1>2, <1>3, <1>4

LEMMA ReferenceDrafts ==
  ASSUME NEW arts \in Tables
  PROVE  Draftlike(PluginReferences(arts, Reported(arts)))
<1> SUFFICES ASSUME NEW d \in PluginReferences(arts, Reported(arts))
             PROVE  d.confidence \in 0..100 /\ d.at \in Nat
  BY DEF Draftlike
<1>1. \A at \in Nat, severity \in Levels : \A plugin :
        /\ Reference(at, plugin, severity).confidence \in 0..100
        /\ Reference(at, plugin, severity).at \in Nat
  <2> SUFFICES ASSUME NEW at \in Nat, NEW severity \in Levels, NEW plugin
               PROVE  /\ Reference(at, plugin, severity).confidence \in 0..100
                      /\ Reference(at, plugin, severity).at \in Nat
    OBVIOUS
  <2> DEFINE c == ConfidenceFor[severity]
  <2>1. c \in 45..95
    BY ConfidenceRange
  <2>2. Lower(c, 60) = IF c <= 60 THEN c ELSE 60
    <3>1. 60 \in 40..70
      OBVIOUS
    <3> QED BY <2>1, <3>1, ConfidenceRange, Zenon
  <2>3. Reference(at, plugin, severity).confidence = Lower(c, 60)
        /\ Reference(at, plugin, severity).at = at
    BY DEF Reference, Draft, Lower
  <2> HIDE DEF c
  <2> QED BY <2>1, <2>2, <2>3
<1>2. CASE d \in {Reference(f.place[2], PluginOf(arts, f), SeverityOf(f)) : f \in Reported(arts)}
  <2>1. PICK f \in Reported(arts) : d = Reference(f.place[2], PluginOf(arts, f), SeverityOf(f))
    BY <1>2
  <2>2. f.place[2] \in Nat
    BY FindingPlaces DEF Reported, Told, Place
  <2>3. SeverityOf(f) \in Levels
    BY DEF SeverityOf, Level, Levels
  <2> QED BY <1>1, <2>1, <2>2, <2>3
<1>3. CASE d \in {Reference(i, arts["yara"][i].plugin,
                            YaraSeverity(Metadata[arts["yara"][i].rule], FALSE)) : i \in JobSummaries(arts)}
  <2>1. PICK i \in JobSummaries(arts) :
          d = Reference(i, arts["yara"][i].plugin, YaraSeverity(Metadata[arts["yara"][i].rule], FALSE))
    BY <1>3
  <2>2. i \in DOMAIN arts["yara"] /\ i \in Nat
    BY DEF JobSummaries, Tables, Table
  <2>3. YaraSeverity(Metadata[arts["yara"][i].rule], FALSE) \in Levels
    BY <2>2, MatchMetadata, YaraSeverityType DEF Levels
  <2> QED BY <1>1, <2>1, <2>2, <2>3, Zenon
<1>4. CASE d \in {Reference(0, plugin, "medium") : plugin \in ContextPlugins(arts)}
  <2>1. "medium" \in Levels /\ 0 \in Nat
    BY DEF Levels
  <2> QED BY <1>1, <1>4, <2>1
<1> QED BY <1>2, <1>3, <1>4 DEF PluginReferences

LEMMA AllDrafts ==
  ASSUME NEW arts \in Tables
  PROVE  Draftlike(DraftsOf(arts, Reported(arts)))
BY RowDrafts, MatchDrafts, ReferenceDrafts DEF Draftlike, DraftsOf

-----------------------------------------------------------------------------
(* What findings are about. *)

\* A finding names a row of its table.
LEMMA FindingIndex ==
  ASSUME NEW arts \in Tables
  PROVE  \A f \in Findings(arts) : TableOf(f) \in Table /\ f.place[2] \in DOMAIN arts[TableOf(f)]
<1> DEFINE About(f, table) == TableOf(f) = table /\ f.place[2] \in DOMAIN arts[table]
<1>1. \A f \in CommandFindings(arts) : About(f, "command")
  BY DEF CommandFindings, Single, Finding, Rows, TableOf
<1>2. \A f \in RegionFindings(arts, 3) \cup RegionFindings(arts, 8) : About(f, "memory_region")
  BY DEF RegionFindings, Single, Finding, Rows, TableOf
<1>3. \A f \in CorrelationFindings(arts) : About(f, "memory_region")
  BY DEF CorrelationFindings, Linked, Finding, Rows, TableOf
<1>4. \A f \in TableFindings(arts) : About(f, "module") \/ About(f, "network")
  BY DEF TableFindings, Single, Finding, Rows, TableOf
<1>5. \A f \in ProcessFindings(arts) : About(f, "process")
  BY DEF ProcessFindings, Hidden, Single, Finding, Rows, TableOf
<1>6. \A matches \in SUBSET (DOMAIN arts["yara"]) : \A rank \in {7, 14} : \A correlated :
        \A f \in YaraFindings(arts, rank, matches, correlated) : About(f, "yara")
  <2> SUFFICES ASSUME NEW matches \in SUBSET (DOMAIN arts["yara"]), NEW rank \in {7, 14},
                      NEW correlated, NEW f \in YaraFindings(arts, rank, matches, correlated)
               PROVE  About(f, "yara")
    OBVIOUS
  <2>1. PICK i \in Representatives(arts, matches) : f = YaraFinding(arts["yara"][i], rank, i, correlated)
    BY YaraForm
  <2>2. f.place = <<rank, i, 0>> /\ i \in DOMAIN arts["yara"]
    BY <2>1 DEF YaraFinding, Representatives
  <2> QED BY <2>2 DEF TableOf
<1>7. \A f \in YaraFindings(arts, 7, MemoryMatches(arts), HasRegions(arts))
             \cup YaraFindings(arts, 14, ProcessMatches(arts), FALSE) : About(f, "yara")
  <2>1. MemoryMatches(arts) \in SUBSET (DOMAIN arts["yara"])
        /\ ProcessMatches(arts) \in SUBSET (DOMAIN arts["yara"])
    BY DEF MemoryMatches, ProcessMatches
  <2> HIDE DEF About
  <2> QED BY <1>6, <2>1
<1> DEFINE Some(f) == \E t \in Table : About(f, t)
<1>8. \A f \in Findings(arts) : Some(f)
  <2>1. \A t \in {"command", "memory_region", "module", "network", "process", "yara"} : t \in Table
    BY DEF Table
  <2> HIDE DEF About
  <2> QED BY <1>1, <1>2, <1>3, <1>4, <1>5, <1>7, <2>1 DEF Findings
<1> QED BY <1>8

\* A finding's row is in the export under its value.
LEMMA RowExported ==
  ASSUME NEW arts \in Tables, NEW f \in Reported(arts)
  PROVE  \E d \in DraftsOf(arts, Reported(arts)) :
           /\ d.value = ValueOf(TableOf(f), arts[TableOf(f)][f.place[2]])
           /\ d.type # "plugin_reference"
<1> DEFINE t == TableOf(f)
           i == f.place[2]
           row == arts[t][i]
           findings == Reported(arts)
<1>1. t \in Table /\ i \in DOMAIN arts[t]
  BY FindingIndex DEF Reported, Told
<1>2. f \in On(findings, t, i)
  BY DEF On
<1> HIDE DEF t, i, findings
<1>3. On(findings, t, i) # {}
  BY <1>2
<1>4. CASE t = "network"
  <2> DEFINE severity == WorstSeverity(On(findings, "network", i), IF row \in Public THEN "medium" ELSE "low")
             sure == IF row \in Public THEN ConfidenceFor[severity] ELSE Min({ConfidenceFor[severity], 40})
             d == Draft(i, IF HasPort(row) THEN "network_endpoint" ELSE "ip_address", row.endpoint,
                        "network", sure, "threat_ioc")
  <2>1. d \in NetworkIocs(arts, findings)
    <3> DEFINE Of(k) ==
          LET net      == arts["network"][k]
              linked   == On(findings, "network", k)
              level    == WorstSeverity(linked, IF net \in Public THEN "medium" ELSE "low")
              certain  == IF net \in Public THEN ConfidenceFor[level]
                                            ELSE Min({ConfidenceFor[level], 40})
          IN IF net \in Public \/ linked # {} THEN NetworkDrafts(k, net, certain) ELSE {}
    <3>1. NetworkIocs(arts, findings) = UNION {Of(k) : k \in DOMAIN arts["network"]}
      BY DEF NetworkIocs
    <3>2. d \in NetworkDrafts(i, row, sure)
      <4> HIDE DEF sure, row
      <4> QED BY DEF NetworkDrafts, HasPort
    <3>3. Of(i) = NetworkDrafts(i, row, sure)
      <4> HIDE DEF d
      <4> QED BY <1>3, <1>4
    <3> HIDE DEF Of, d
    <3> QED BY <1>1, <1>4, <3>1, <3>2, <3>3
  <2>2. d.type # "plugin_reference" /\ d.value = row.endpoint
    BY DEF Draft
  <2>3. d \in DraftsOf(arts, findings)
    BY <2>1 DEF DraftsOf
  <2>4. ValueOf(t, row) = d.value
    BY <1>4, <2>2 DEF ValueOf
  <2> QED BY <2>2, <2>3, <2>4, Zenon DEF t, i, findings
<1>5. CASE t = "command"
  <2> DEFINE severity == WorstSeverity(On(findings, "command", i),
                                       IF row \in ListedCommand THEN "high" ELSE "medium")
             d == Draft(i, "command_line", row.text, "command", ConfidenceFor[severity], "threat_ioc")
  <2>1. d \in CommandIocs(arts, findings)
    BY <1>1, <1>3, <1>5 DEF CommandIocs
  <2>2. d.type = "command_line" /\ d.value = row.text
    BY DEF Draft
  <2>3. d \in DraftsOf(arts, findings)
    BY <2>1 DEF DraftsOf
  <2>4. ValueOf(t, row) = d.value
    BY <1>5, <2>2 DEF ValueOf
  <2> QED BY <2>2, <2>3, <2>4, Zenon DEF t, i, findings
<1>6. CASE t = "module"
  <2> DEFINE d == Draft(i, "module_path", row.path, "module",
                        ConfidenceFor[WorstSeverity(On(findings, "module", i), "medium")],
                        IF row \in Microsoft THEN "investigation_artifact" ELSE "threat_ioc")
  <2>1. d \in ModuleIocs(arts, findings)
    BY <1>1, <1>3, <1>6 DEF ModuleIocs
  <2>2. d.type = "module_path" /\ d.value = row.path
    BY DEF Draft
  <2>3. d \in DraftsOf(arts, findings)
    BY <2>1 DEF DraftsOf
  <2>4. ValueOf(t, row) = d.value
    BY <1>6, <2>2 DEF ValueOf
  <2> QED BY <2>2, <2>3, <2>4, Zenon DEF t, i, findings
<1>7. CASE t = "process"
  <2> DEFINE d == Draft(i, "process_name", "name", row.plugin,
                        ConfidenceFor[WorstSeverity(On(findings, "process", i), "medium")],
                        "investigation_artifact")
  <2>1. d \in ProcessIocs(arts, findings)
    BY <1>1, <1>3, <1>7 DEF ProcessIocs, NotedProcess
  <2>2. d.type = "process_name" /\ d.value = "name"
    BY DEF Draft
  <2>3. d \in DraftsOf(arts, findings)
    BY <2>1 DEF DraftsOf
  <2>4. ValueOf(t, row) = d.value
    BY <1>7, <2>2 DEF ValueOf
  <2> QED BY <2>2, <2>3, <2>4 DEF t, i, findings
<1>8. CASE t = "yara"
  <2> DEFINE declared == Metadata[row.rule].severity
             sure == ConfidenceFor[IF declared = "none" THEN "high" ELSE declared]
             role == YaraRole(arts, row.rule, On(findings, "yara", i))
             d == Draft(i, "yara_rule", row.rule, row.plugin,
                        IF role = "threat_ioc" THEN sure ELSE Min({sure, 55}), role)
  <2>1. d \in YaraIocs(arts, findings)
    BY <1>1, <1>8 DEF YaraIocs
  <2>2. d.type = "yara_rule" /\ d.value = row.rule
    BY DEF Draft
  <2>3. d \in DraftsOf(arts, findings)
    BY <2>1, Zenon DEF DraftsOf
  <2>4. ValueOf(t, row) = d.value
    BY <1>8, <2>2, Zenon DEF ValueOf
  <2> QED BY <2>2, <2>3, <2>4, Zenon DEF t, i, findings
<1>9. CASE t = "memory_region"
  <2> DEFINE default == IF MalfindRow(row) THEN "high" ELSE "medium"
             sure == ConfidenceFor[WorstSeverity(On(findings, "memory_region", i), default)]
             d == Draft(i, "memory_region", row.range, row.plugin,
                        IF row.plugin \in VadContextPlugins THEN Min({sure, ConfidenceFor["medium"]})
                                                            ELSE sure,
                        "investigation_artifact")
  <2>1. d \in RegionIocs(arts, findings)
    BY <1>1, <1>3, <1>9 DEF RegionIocs
  <2>2. d.type = "memory_region" /\ d.value = row.range
    BY DEF Draft
  <2>3. d \in DraftsOf(arts, findings)
    BY <2>1 DEF DraftsOf
  <2>4. ValueOf(t, row) = d.value
    BY <1>9, <2>2 DEF ValueOf
  <2> QED BY <2>2, <2>3, <2>4, Zenon DEF t, i, findings
<1> QED BY <1>1, <1>4, <1>5, <1>6, <1>7, <1>8, <1>9 DEF Table

\* Whatever row a finding is about, the export has its value, for any rows and any
\* metadata: the row has a draft because the finding is about it, and deduplication
\* keeps a draft of each key.
THEOREM NothingFoundIsLost == Spec => []FindingsExported
<1>1. TypeOK => FindingsExported
  <2> SUFFICES ASSUME TypeOK, NEW f \in Reported(artifacts)
               PROVE  \E ioc \in Exported(artifacts) :
                        /\ ioc.value = ValueOf(TableOf(f), artifacts[TableOf(f)][f.place[2]])
                        /\ ioc.type # "plugin_reference"
    BY DEF FindingsExported
  <2>1. PICK arts : arts = artifacts
    OBVIOUS
  <2>2. arts \in Tables
    BY <2>1 DEF TypeOK, Tables
  <2>3. f \in Reported(arts)
    BY <2>1
  <2> DEFINE value == ValueOf(TableOf(f), arts[TableOf(f)][f.place[2]])
             drafts == DraftsOf(arts, Reported(arts))
  <2>4. PICK d \in drafts : d.value = value /\ d.type # "plugin_reference"
    BY <2>2, <2>3, RowExported
  <2>5. Draftlike(drafts)
    BY <2>2, AllDrafts
  <2>6. \E ioc \in Deduplicated(drafts) : ioc.type = d.type /\ ioc.value = d.value
    <3> HIDE DEF drafts
    <3> QED BY <2>5, KeyKept
  <2>7. Exported(arts) = Deduplicated(drafts)
    BY ExportForm DEF Exported
  <2> HIDE DEF drafts
  <2> QED BY <2>1, <2>4, <2>6, <2>7
<1> QED BY <1>1, RiskTypeCorrect, PTL DEF Spec

-----------------------------------------------------------------------------
(* One more row leaves the findings in their places. *)

\* The tables of "arts" begin those of "more", where no process is hidden no longer.
Prolonged(arts, more) ==
  /\ \A t \in Table :
       /\ DOMAIN arts[t] \subseteq DOMAIN more[t] /\ DOMAIN more[t] \subseteq Nat
       /\ \A i \in DOMAIN arts[t] : more[t][i] = arts[t][i]
       /\ \A i \in DOMAIN more[t] \ DOMAIN arts[t] : \A k \in DOMAIN arts[t] : k < i
  /\ Rows(arts, "process", Pslist) = {} <=> Rows(more, "process", Pslist) = {}

\* A row stored last prolongs the tables.
LEMMA AppendProlongs ==
  ASSUME NEW arts \in Tables, NEW r \in Row, r \notin Pslist
  PROVE  Prolonged(arts, [arts EXCEPT ![r.table] = Append(@, r)])
<1> DEFINE more == [arts EXCEPT ![r.table] = Append(@, r)]
<1>1. r.table \in Table /\ arts \in [Table -> Seq(Row)]
  BY RowAssumption DEF Tables
<1>2. ASSUME NEW t \in Table
      PROVE  /\ DOMAIN arts[t] \subseteq DOMAIN more[t] /\ DOMAIN more[t] \subseteq Nat
             /\ \A i \in DOMAIN arts[t] : more[t][i] = arts[t][i]
             /\ \A i \in DOMAIN more[t] \ DOMAIN arts[t] : \A k \in DOMAIN arts[t] : k < i
  <2>1. arts[t] \in Seq(Row)
    BY <1>1
  <2>2. CASE t = r.table
    <3>1. more[t] = Append(arts[t], r)
      BY <1>1, <2>2
    <3>2. DOMAIN more[t] = 1..(Len(arts[t]) + 1) /\ DOMAIN arts[t] = 1..Len(arts[t])
          /\ Len(arts[t]) \in Nat
      BY <2>1, <3>1
    <3>3. \A i \in DOMAIN arts[t] : more[t][i] = arts[t][i]
      BY <2>1, <3>1
    <3>4. \A i \in DOMAIN more[t] \ DOMAIN arts[t] : i = Len(arts[t]) + 1
      BY <3>2
    <3> HIDE DEF more
    <3> QED BY <3>2, <3>3, <3>4
  <2>3. CASE t # r.table
    <3>1. more[t] = arts[t]
      BY <1>1, <2>3
    <3> HIDE DEF more
    <3> QED BY <2>1, <3>1
  <2> QED BY <2>2, <2>3
<1>3. Rows(arts, "process", Pslist) = {} <=> Rows(more, "process", Pslist) = {}
  BY AppendGrows DEF Grown
<1> HIDE DEF more
<1> QED BY <1>2, <1>3 DEF Prolonged, more

\* A finding in the place of another one, and no milder.
Succeeds(e, f) == e.place = f.place /\ e.key = f.key /\ f.score <= e.score
Succeeded(found, later) == \A f \in found : \E e \in later : Succeeds(e, f)

\* Findings of several rules are succeeded rule by rule.
LEMMA SucceededUnion ==
  ASSUME NEW F, NEW G, NEW H, NEW I, Succeeded(F, G), Succeeded(H, I)
  PROVE  Succeeded(F \cup H, G \cup I)
BY DEF Succeeded

\* What a rule looks at stays where it is.
LEMMA RowsProlonged ==
  ASSUME NEW arts, NEW more, Prolonged(arts, more), NEW t \in Table, NEW wanted
  PROVE  \A i \in Rows(arts, t, wanted) : i \in Rows(more, t, wanted) /\ more[t][i] = arts[t][i]
BY DEF Rows, Prolonged

LEMMA SingleProlonged ==
  ASSUME NEW arts, NEW more, Prolonged(arts, more), NEW table \in Table, NEW wanted,
         NEW rank, NEW field, NEW score, NEW groups, NEW context
  PROVE  Single(arts, rank, table, Rows(arts, table, wanted), field, score, groups, context)
           \subseteq Single(more, rank, table, Rows(more, table, wanted), field, score, groups, context)
<1>1. \A i \in Rows(arts, table, wanted) :
        i \in Rows(more, table, wanted) /\ more[table][i] = arts[table][i]
  BY RowsProlonged
<1> QED BY <1>1 DEF Single

LEMMA LinkedProlonged ==
  ASSUME NEW arts, NEW more, Prolonged(arts, more), NEW table \in Table, NEW wanted,
         NEW rank, NEW field, NEW score, NEW groups, NEW context
  PROVE  Linked(arts, rank, table, Rows(arts, table, wanted), field, score, groups, context)
           \subseteq Linked(more, rank, table, Rows(more, table, wanted), field, score, groups, context)
<1> DEFINE F == Linked(arts, rank, table, Rows(arts, table, wanted), field, score, groups, context)
           G == Linked(more, rank, table, Rows(more, table, wanted), field, score, groups, context)
           Of(i, k, region, row) ==
             Finding(<<rank, i, k>>, <<region.range, row[field]>>, score, groups, context)
           Regions(a) == Rows(a, "memory_region", Suspicious)
<1>1. /\ F = {Of(p[1], p[2], arts["memory_region"][p[1]], arts[table][p[2]]) :
                p \in Regions(arts) \X Rows(arts, table, wanted)}
      /\ G = {Of(p[1], p[2], more["memory_region"][p[1]], more[table][p[2]]) :
                p \in Regions(more) \X Rows(more, table, wanted)}
  BY DEF Linked
<1>2. \A i \in Rows(arts, table, wanted) :
        i \in Rows(more, table, wanted) /\ more[table][i] = arts[table][i]
  BY RowsProlonged
<1>3. \A i \in Regions(arts) :
        i \in Regions(more) /\ more["memory_region"][i] = arts["memory_region"][i]
  BY RowsProlonged DEF Table
<1> HIDE DEF F, G, Of, Regions
<1>4. F \subseteq G
  BY <1>1, <1>2, <1>3
<1> QED BY <1>4 DEF F, G

\* Matches of a rule and a plugin are all wanted, or none is.
LEMMA MatchesProlonged ==
  ASSUME NEW arts \in Tables, NEW more \in Tables, Prolonged(arts, more),
         NEW wanted \in SUBSET RowsOf("yara"), NEW wider, wanted \subseteq wider,
         \A r \in wanted : \A s \in wider : r.rule = s.rule /\ r.plugin = s.plugin => s \in wanted,
         NEW rank, NEW c \in BOOLEAN, NEW d \in BOOLEAN, c => d
  PROVE  Succeeded(YaraFindings(arts, rank, Rows(arts, "yara", wanted), c),
                   YaraFindings(more, rank, Rows(more, "yara", wider), d))
<1> DEFINE F == YaraFindings(arts, rank, Rows(arts, "yara", wanted), c)
           G == YaraFindings(more, rank, Rows(more, "yara", wider), d)
           R == Representatives(arts, Rows(arts, "yara", wanted))
           S == Representatives(more, Rows(more, "yara", wider))
<1>1. "yara" \in Table
  BY DEF Table
<1>2. ASSUME NEW i \in R PROVE i \in S /\ more["yara"][i] = arts["yara"][i]
  <2>1. i \in DOMAIN arts["yara"] /\ arts["yara"][i] \in wanted
    BY DEF Representatives, Rows
  <2>2. i \in Rows(more, "yara", wider) /\ more["yara"][i] = arts["yara"][i]
    BY <1>1, <2>1 DEF Rows, Prolonged
  <2>3. ASSUME NEW k \in Rows(more, "yara", wider), k < i,
               <<more["yara"][k].rule, more["yara"][k].plugin>>
                 = <<more["yara"][i].rule, more["yara"][i].plugin>>
        PROVE  FALSE
    <3>1. k \in DOMAIN arts["yara"]
      <4>1. k \in DOMAIN more["yara"] /\ k \in Nat /\ i \in Nat
        BY <1>1, <2>2 DEF Rows, Prolonged
      <4> QED BY <1>1, <2>1, <2>3, <4>1 DEF Prolonged
    <3>2. more["yara"][k] = arts["yara"][k] /\ more["yara"][k] \in wider
      BY <1>1, <3>1 DEF Prolonged, Rows
    <3>3. arts["yara"][k] \in wanted
      BY <2>1, <2>2, <2>3, <3>2
    <3>4. k \in Rows(arts, "yara", wanted)
      BY <3>1, <3>3 DEF Rows
    <3> QED BY <2>2, <2>3, <3>2, <3>4 DEF Representatives
  <2> QED BY <2>2, <2>3 DEF Representatives
<1>3. ASSUME NEW f \in F PROVE \E e \in G : Succeeds(e, f)
  <2>1. PICK i \in R : f = YaraFinding(arts["yara"][i], rank, i, c)
    BY YaraForm
  <2> DEFINE e == YaraFinding(more["yara"][i], rank, i, d)
  <2>2. e \in G
    BY <1>2, YaraForm
  <2>3. Metadata[arts["yara"][i].rule] \in YaraMetadata
    <3>1. i \in DOMAIN arts["yara"]
      BY DEF Representatives, Rows
    <3> QED BY <3>1, MatchMetadata
  <2>4. more["yara"][i] = arts["yara"][i]
    BY <1>2
  <2>5. Dominates(e, f)
    BY <2>1, <2>3, <2>4, MatchDominates
  <2>6. e.place = f.place
    BY <2>1 DEF YaraFinding
  <2> QED BY <2>2, <2>5, <2>6 DEF Succeeds, Dominates
<1> QED BY <1>3 DEF Succeeded

\* Every finding has a successor in prolonged tables.
LEMMA FindingsProlonged ==
  ASSUME NEW arts \in Tables, NEW more \in Tables, Prolonged(arts, more)
  PROVE  Succeeded(Findings(arts), Findings(more))
<1>1. \A t \in Table : \A wanted, rank, field, score, groups, context :
        Single(arts, rank, t, Rows(arts, t, wanted), field, score, groups, context)
          \subseteq Single(more, rank, t, Rows(more, t, wanted), field, score, groups, context)
  BY SingleProlonged
<1>2. \A t \in Table : \A wanted, rank, field, score, groups, context :
        Linked(arts, rank, t, Rows(arts, t, wanted), field, score, groups, context)
          \subseteq Linked(more, rank, t, Rows(more, t, wanted), field, score, groups, context)
  BY LinkedProlonged
<1>3. HasRegions(arts) => HasRegions(more)
  BY DEF HasRegions, Prolonged, Table, Tables
<1>4. Succeeded(YaraFindings(arts, 7, MemoryMatches(arts), HasRegions(arts)),
                YaraFindings(more, 7, MemoryMatches(more), HasRegions(more)))
  <2> DEFINE W == MemoryMatch(HasRegions(arts))
             X == MemoryMatch(HasRegions(more))
  <2>1. HasRegions(arts) \in BOOLEAN /\ HasRegions(more) \in BOOLEAN
    BY DEF HasRegions
  <2>2. W \subseteq RowsOf("yara") /\ W \subseteq X
    <3>1. ASSUME NEW r \in W PROVE r \in X
      <4>1. Metadata[r.rule] \in YaraMetadata
        BY RowAssumption, MetadataAssumption DEF MemoryMatch, RowsOf
      <4>2. CASE HasRegions(arts) = HasRegions(more)
        BY <4>2
      <4>3. CASE HasRegions(arts) = FALSE /\ HasRegions(more) = TRUE
        <5>1. JobSummaryOnly(Metadata[r.rule], TRUE) => JobSummaryOnly(Metadata[r.rule], FALSE)
          BY <4>1, CorrelationRaises
        <5> QED BY <4>3, <5>1 DEF MemoryMatch
      <4> QED BY <1>3, <2>1, <4>2, <4>3
    <3> QED BY <3>1 DEF MemoryMatch
  <2>3. MemoryMatches(arts) = Rows(arts, "yara", W) /\ MemoryMatches(more) = Rows(more, "yara", X)
    BY MatchRows
  <2>4. \A r \in W : \A s \in X : r.rule = s.rule /\ r.plugin = s.plugin => s \in W
    BY DEF MemoryMatch, InMemory
  <2> HIDE DEF W, X
  <2> QED BY <1>3, <2>1, <2>2, <2>3, <2>4, MatchesProlonged
<1>5. Succeeded(YaraFindings(arts, 14, ProcessMatches(arts), FALSE),
                YaraFindings(more, 14, ProcessMatches(more), FALSE))
  <2> DEFINE c == FALSE
  <2>1. c \in BOOLEAN /\ ProcessMatch \subseteq RowsOf("yara")
    BY DEF ProcessMatch
  <2> HIDE DEF c
  <2>2. Succeeded(YaraFindings(arts, 14, ProcessMatches(arts), c),
                  YaraFindings(more, 14, ProcessMatches(more), c))
    BY <2>1, MatchRows, MatchesProlonged
  <2> QED BY <2>2 DEF c
<1> DEFINE F == CommandFindings(arts) \cup RegionFindings(arts, 3) \cup CorrelationFindings(arts)
                  \cup RegionFindings(arts, 8) \cup TableFindings(arts) \cup ProcessFindings(arts)
           G == CommandFindings(more) \cup RegionFindings(more, 3) \cup CorrelationFindings(more)
                  \cup RegionFindings(more, 8) \cup TableFindings(more) \cup ProcessFindings(more)
<1>6. F \subseteq G
  <2>1. CommandFindings(arts) \subseteq CommandFindings(more)
    BY <1>1 DEF CommandFindings, Table
  <2>2. RegionFindings(arts, 3) \subseteq RegionFindings(more, 3)
        /\ RegionFindings(arts, 8) \subseteq RegionFindings(more, 8)
    BY <1>1 DEF RegionFindings, Table
  <2>3. CorrelationFindings(arts) \subseteq CorrelationFindings(more)
    <3> DEFINE Link(a, rank, t, wanted, field, score, groups, context) ==
                 Linked(a, rank, t, Rows(a, t, wanted), field, score, groups, context)
               Endpoints(a) == Link(a, 4, "network", Public, "endpoint", 13,
                                    {"memory_region", "network_endpoint"}, FALSE)
               Commands(a) == Link(a, 5, "command", LinkableCommand, "text", 13,
                                   {"memory_region", "suspicious_command"}, FALSE)
               Modules(a) == Link(a, 6, "module", Dropped, "path", 10,
                                  {"memory_region", "suspicious_module"}, FALSE)
               Vendors(a) == Link(a, 6, "module", Microsoft, "path", 5,
                                  {"memory_region", "module_context"}, TRUE)
    <3>1. \A a : CorrelationFindings(a) = Endpoints(a) \cup Commands(a) \cup Modules(a) \cup Vendors(a)
      BY DEF CorrelationFindings
    <3>2. \A t \in Table : \A wanted, rank, field, score, groups, context :
            Link(arts, rank, t, wanted, field, score, groups, context)
              \subseteq Link(more, rank, t, wanted, field, score, groups, context)
      BY <1>2
    <3>3. "network" \in Table /\ "command" \in Table /\ "module" \in Table
      BY DEF Table
    <3> HIDE DEF Link
    <3>4. /\ Endpoints(arts) \subseteq Endpoints(more) /\ Commands(arts) \subseteq Commands(more)
          /\ Modules(arts) \subseteq Modules(more) /\ Vendors(arts) \subseteq Vendors(more)
      BY <3>2, <3>3
    <3> HIDE DEF Endpoints, Commands, Modules, Vendors
    <3> QED BY <3>1, <3>4
  <2>4. TableFindings(arts) \subseteq TableFindings(more)
    BY <1>1 DEF TableFindings, Table
  <2>5. ProcessFindings(arts) \subseteq ProcessFindings(more)
    <3>1. \E wanted : /\ Hidden(arts) = Rows(arts, "process", wanted)
                      /\ Hidden(more) = Rows(more, "process", wanted)
      <4>1. \A a : Rows(a, "process", {}) = {}
        BY DEF Rows
      <4> QED BY <4>1 DEF Hidden, Prolonged
    <3> QED BY <1>1, <3>1 DEF ProcessFindings, Table
  <2> QED BY <2>1, <2>2, <2>3, <2>4, <2>5
<1>7. \A f \in F : f.score \in 0..13
  BY FindingRange DEF Findings, Ranged
<1>8. Succeeded(F, G)
  <2> HIDE DEF F, G
  <2>1. \A f \in F : f.score <= f.score
    BY <1>7
  <2> QED BY <1>6, <2>1 DEF Succeeded, Succeeds
<1> DEFINE M == YaraFindings(arts, 7, MemoryMatches(arts), HasRegions(arts))
           N == YaraFindings(more, 7, MemoryMatches(more), HasRegions(more))
           O == YaraFindings(arts, 14, ProcessMatches(arts), FALSE)
           P == YaraFindings(more, 14, ProcessMatches(more), FALSE)
<1>9. Findings(arts) = (F \cup M) \cup O /\ Findings(more) = (G \cup N) \cup P
  BY DEF Findings
<1>10. Succeeded(M, N) /\ Succeeded(O, P)
  BY <1>4, <1>5
<1> HIDE DEF F, G, M, N, O, P
<1>11. Succeeded(F \cup M, G \cup N)
  BY <1>8, <1>10, SucceededUnion
<1>12. Succeeded((F \cup M) \cup O, (G \cup N) \cup P)
  BY <1>10, <1>11, SucceededUnion
<1> QED BY <1>9, <1>12

\* The places and keys of the rules that report a key once.
ByRow(arts, rank, table, wanted, field) ==
  /\ \A f \in Findings(arts) : f.place[1] = rank =>
       \E i \in Rows(arts, table, wanted) :
         f.place = <<rank, i, 0>> /\ f.key = <<rank, arts[table][i][field]>>
  /\ \A i \in Rows(arts, table, wanted) :
       \E f \in Findings(arts) :
         f.place = <<rank, i, 0>> /\ f.key = <<rank, arts[table][i][field]>>
PairKey(arts, rank, i, table, k, field) ==
  <<rank, <<arts["memory_region"][i].range, arts[table][k][field]>>>>
ByPair(arts, rank, table, wanted, field) ==
  /\ \A f \in Findings(arts) : f.place[1] = rank =>
       \E i \in Rows(arts, "memory_region", Suspicious), k \in Rows(arts, table, wanted) :
         f.place = <<rank, i, k>> /\ f.key = PairKey(arts, rank, i, table, k, field)
  /\ \A i \in Rows(arts, "memory_region", Suspicious), k \in Rows(arts, table, wanted) :
       \E f \in Findings(arts) :
         f.place = <<rank, i, k>> /\ f.key = PairKey(arts, rank, i, table, k, field)

\* The rank of a finding tells which rule it is of.
LEMMA RanksOfFindings ==
  ASSUME NEW arts \in Tables, NEW f \in Findings(arts)
  PROVE  /\ f.place[1] \in {1, 2} => f \in CommandFindings(arts)
         /\ f.place[1] \in {3, 8} => f \in RegionFindings(arts, f.place[1])
         /\ f.place[1] \in {4, 5, 6} => f \in CorrelationFindings(arts)
         /\ f.place[1] \in {9, 10} => f \in TableFindings(arts)
         /\ f.place[1] \in {11, 12, 13} => f \in ProcessFindings(arts)
         /\ f.place[1] = 7 => f \in YaraFindings(arts, 7, MemoryMatches(arts), HasRegions(arts))
         /\ f.place[1] = 14 => f \in YaraFindings(arts, 14, ProcessMatches(arts), FALSE)
<1>1. \A g \in CommandFindings(arts) : g.place[1] \in {1, 2}
  BY DEF CommandFindings, Single, Finding
<1>2. \A rank \in {3, 8} : \A g \in RegionFindings(arts, rank) : g.place[1] = rank
  BY DEF RegionFindings, Single, Finding
<1>3. \A g \in CorrelationFindings(arts) : g.place[1] \in {4, 5, 6}
  BY DEF CorrelationFindings, Linked, Finding
<1>4. \A g \in TableFindings(arts) : g.place[1] \in {9, 10}
  BY DEF TableFindings, Single, Finding
<1>5. \A g \in ProcessFindings(arts) : g.place[1] \in {11, 12, 13}
  BY DEF ProcessFindings, Single, Finding
<1>6. \A rank, matches, c : \A g \in YaraFindings(arts, rank, matches, c) : g.place[1] = rank
  BY MatchForm DEF MatchFinding
<1> DEFINE M == YaraFindings(arts, 7, MemoryMatches(arts), HasRegions(arts))
           O == YaraFindings(arts, 14, ProcessMatches(arts), FALSE)
<1>7. (\A g \in M : g.place[1] = 7) /\ \A g \in O : g.place[1] = 14
  BY <1>6
<1>8. f \in CommandFindings(arts) \cup RegionFindings(arts, 3) \cup CorrelationFindings(arts) \cup M
              \cup RegionFindings(arts, 8) \cup TableFindings(arts) \cup ProcessFindings(arts) \cup O
  BY DEF Findings
<1>9. \A g \in RegionFindings(arts, 3) : g.place[1] = 3
  BY <1>2
<1>10. \A g \in RegionFindings(arts, 8) : g.place[1] = 8
  BY <1>2
<1> HIDE DEF M, O
<1>11. /\ f.place[1] \in {1, 2} => f \in CommandFindings(arts)
       /\ f.place[1] = 3 => f \in RegionFindings(arts, 3)
       /\ f.place[1] = 8 => f \in RegionFindings(arts, 8)
       /\ f.place[1] \in {4, 5, 6} => f \in CorrelationFindings(arts)
       /\ f.place[1] \in {9, 10} => f \in TableFindings(arts)
       /\ f.place[1] \in {11, 12, 13} => f \in ProcessFindings(arts)
       /\ f.place[1] = 7 => f \in M
       /\ f.place[1] = 14 => f \in O
  BY <1>1, <1>3, <1>4, <1>5, <1>7, <1>8, <1>9, <1>10
<1> QED BY <1>11 DEF M, O

\* The rules that report rows, and those that report pairs of rows.
LEMMA RowRules ==
  ASSUME NEW arts \in Tables
  PROVE  /\ ByRow(arts, 1, "command", Encoded, "text")
         /\ ByRow(arts, 2, "command", Keyword, "table")
         /\ ByRow(arts, 3, "memory_region", Malfind, "range")
         /\ ByRow(arts, 8, "memory_region", Malfind, "range")
         /\ ByRow(arts, 9, "module", Dropped, "path")
         /\ ByRow(arts, 10, "network", Public, "endpoint")
         /\ ByRow(arts, 11, "process", WrongPath, "path")
<1> DEFINE S(rank, table, wanted, field, score, groups, context) ==
             Single(arts, rank, table, Rows(arts, table, wanted), field, score, groups, context)
<1>1. \A rank, table, wanted, field, score, groups, context :
        /\ \A f \in S(rank, table, wanted, field, score, groups, context) :
             f.place[1] = rank /\
             \E i \in Rows(arts, table, wanted) :
               f.place = <<rank, i, 0>> /\ f.key = <<rank, arts[table][i][field]>>
        /\ \A i \in Rows(arts, table, wanted) :
             \E f \in S(rank, table, wanted, field, score, groups, context) :
               f.place = <<rank, i, 0>> /\ f.key = <<rank, arts[table][i][field]>>
  <2> TAKE rank, table, wanted, field, score, groups, context
  <2> DEFINE Of(i) == Finding(<<rank, i, 0>>, arts[table][i][field], score, groups, context)
  <2>1. S(rank, table, wanted, field, score, groups, context) = {Of(i) : i \in Rows(arts, table, wanted)}
    BY DEF Single
  <2>2. \A i : /\ Of(i).place = <<rank, i, 0>> /\ Of(i).place[1] = rank
               /\ Of(i).key = <<rank, arts[table][i][field]>>
    BY DEF Finding
  <2> HIDE DEF Of, S
  <2> QED BY <2>1, <2>2
<1>2. ASSUME NEW rank, NEW table, NEW wanted, NEW field, NEW score, NEW groups, NEW context,
             S(rank, table, wanted, field, score, groups, context) \subseteq Findings(arts),
             \A f \in Findings(arts) :
               f.place[1] = rank => f \in S(rank, table, wanted, field, score, groups, context)
      PROVE  ByRow(arts, rank, table, wanted, field)
  <2> HIDE DEF S
  <2> QED BY <1>1, <1>2 DEF ByRow
<1>3. ByRow(arts, 1, "command", Encoded, "text")
  <2> DEFINE T == S(1, "command", Encoded, "text", 8, {"suspicious_command"}, FALSE)
  <2>1. T \subseteq Findings(arts)
    BY DEF Findings, CommandFindings
  <2>2. \A f \in Findings(arts) : f.place[1] = 1 => f \in T
    <3>1. \A f \in CommandFindings(arts) : f.place[1] = 1 => f \in T
      BY DEF CommandFindings, Single, Finding
    <3> QED BY <3>1, RanksOfFindings
  <2> HIDE DEF S
  <2> QED BY <1>2, <2>1, <2>2
<1>4. ByRow(arts, 2, "command", Keyword, "table")
  <2> DEFINE T == S(2, "command", Keyword, "table", 5, {"suspicious_command_keywords"}, FALSE)
  <2>1. T \subseteq Findings(arts)
    BY DEF Findings, CommandFindings
  <2>2. \A f \in Findings(arts) : f.place[1] = 2 => f \in T
    <3>1. \A f \in CommandFindings(arts) : f.place[1] = 2 => f \in T
      BY DEF CommandFindings, Single, Finding
    <3> QED BY <3>1, RanksOfFindings
  <2> HIDE DEF S
  <2> QED BY <1>2, <2>1, <2>2
<1>5. ASSUME NEW rank \in {3, 8} PROVE ByRow(arts, rank, "memory_region", Malfind, "range")
  <2> DEFINE score == IF benign THEN 5 ELSE 8
             T == S(rank, "memory_region", Malfind, "range", score, {"memory_region"}, benign)
  <2>1. T = RegionFindings(arts, rank)
    BY DEF RegionFindings
  <2>2. T \subseteq Findings(arts)
    BY <2>1 DEF Findings
  <2>3. \A f \in Findings(arts) : f.place[1] = rank => f \in T
    BY <2>1, RanksOfFindings
  <2> HIDE DEF S, score
  <2> QED BY <1>2, <2>2, <2>3
<1>6. ByRow(arts, 9, "module", Dropped, "path")
  <2> DEFINE T == S(9, "module", Dropped, "path", 5, {"suspicious_module"}, FALSE)
  <2>1. T \subseteq Findings(arts)
    BY DEF Findings, TableFindings
  <2>2. \A f \in Findings(arts) : f.place[1] = 9 => f \in T
    <3>1. \A f \in TableFindings(arts) : f.place[1] = 9 => f \in T
      BY DEF TableFindings, Single, Finding
    <3> QED BY <3>1, RanksOfFindings
  <2> HIDE DEF S
  <2> QED BY <1>2, <2>1, <2>2
<1>7. ByRow(arts, 10, "network", Public, "endpoint")
  <2> DEFINE T == S(10, "network", Public, "endpoint", 5, {"network_endpoint"}, FALSE)
  <2>1. T \subseteq Findings(arts)
    BY DEF Findings, TableFindings
  <2>2. \A f \in Findings(arts) : f.place[1] = 10 => f \in T
    <3>1. \A f \in TableFindings(arts) : f.place[1] = 10 => f \in T
      BY DEF TableFindings, Single, Finding
    <3> QED BY <3>1, RanksOfFindings
  <2> HIDE DEF S
  <2> QED BY <1>2, <2>1, <2>2
<1>8. ByRow(arts, 11, "process", WrongPath, "path")
  <2> DEFINE T == S(11, "process", WrongPath, "path", 8, {"win_system_process_wrong_path"}, FALSE)
  <2>1. T \subseteq Findings(arts)
    BY DEF Findings, ProcessFindings
  <2>2. \A f \in Findings(arts) : f.place[1] = 11 => f \in T
    <3>1. \A f \in ProcessFindings(arts) : f.place[1] = 11 => f \in T
      BY DEF ProcessFindings, Single, Finding
    <3> QED BY <3>1, RanksOfFindings
  <2> HIDE DEF S
  <2> QED BY <1>2, <2>1, <2>2
<1> QED BY <1>3, <1>4, <1>5, <1>6, <1>7, <1>8

LEMMA PairRules ==
  ASSUME NEW arts \in Tables
  PROVE  /\ ByPair(arts, 4, "network", Public, "endpoint")
         /\ ByPair(arts, 5, "command", LinkableCommand, "text")
         /\ ByPair(arts, 6, "module", Writable, "path")
<1> DEFINE L(rank, table, wanted, field, score, groups, context) ==
             Linked(arts, rank, table, Rows(arts, table, wanted), field, score, groups, context)
           Tells(f, rank, table, wanted, field) ==
             f.place[1] = rank /\
             \E i \in Rows(arts, "memory_region", Suspicious), k \in Rows(arts, table, wanted) :
               f.place = <<rank, i, k>> /\ f.key = PairKey(arts, rank, i, table, k, field)
<1>1. \A rank, table, wanted, field, score, groups, context :
        /\ \A f \in L(rank, table, wanted, field, score, groups, context) :
             Tells(f, rank, table, wanted, field)
        /\ \A i \in Rows(arts, "memory_region", Suspicious), k \in Rows(arts, table, wanted) :
             \E f \in L(rank, table, wanted, field, score, groups, context) :
               f.place = <<rank, i, k>> /\ f.key = PairKey(arts, rank, i, table, k, field)
  <2> TAKE rank, table, wanted, field, score, groups, context
  <2> DEFINE P == Rows(arts, "memory_region", Suspicious) \X Rows(arts, table, wanted)
             Of(p) == Finding(<<rank, p[1], p[2]>>,
                              <<arts["memory_region"][p[1]].range, arts[table][p[2]][field]>>,
                              score, groups, context)
  <2>1. L(rank, table, wanted, field, score, groups, context) = {Of(p) : p \in P}
    BY DEF Linked
  <2>2. \A p : /\ Of(p).place = <<rank, p[1], p[2]>> /\ Of(p).place[1] = rank
               /\ Of(p).key = PairKey(arts, rank, p[1], table, p[2], field)
    BY DEF Finding, PairKey
  <2>3. \A p \in P : p[1] \in Rows(arts, "memory_region", Suspicious) /\ p[2] \in Rows(arts, table, wanted)
    OBVIOUS
  <2>4. ASSUME NEW f \in {Of(p) : p \in P} PROVE Tells(f, rank, table, wanted, field)
    <3>1. PICK p \in P : f = Of(p)
      OBVIOUS
    <3>2. p[1] \in Rows(arts, "memory_region", Suspicious) /\ p[2] \in Rows(arts, table, wanted)
      BY <2>3
    <3>3. /\ f.place = <<rank, p[1], p[2]>> /\ f.place[1] = rank
          /\ f.key = PairKey(arts, rank, p[1], table, p[2], field)
      BY <2>2, <3>1
    <3> QED BY <3>2, <3>3
  <2>5. ASSUME NEW i \in Rows(arts, "memory_region", Suspicious), NEW k \in Rows(arts, table, wanted)
        PROVE  \E f \in {Of(p) : p \in P} :
                 f.place = <<rank, i, k>> /\ f.key = PairKey(arts, rank, i, table, k, field)
    <3> DEFINE p == <<i, k>>
    <3>1. p \in P /\ p[1] = i /\ p[2] = k
      OBVIOUS
    <3> HIDE DEF P, Of, p
    <3> QED BY <2>2, <3>1
  <2> HIDE DEF P, Of, L, Tells
  <2> QED BY <2>1, <2>4, <2>5
<1>2. ASSUME NEW rank, NEW table, NEW wanted, NEW field, NEW score, NEW groups, NEW context,
             L(rank, table, wanted, field, score, groups, context) \subseteq Findings(arts),
             \A f \in Findings(arts) :
               f.place[1] = rank => f \in L(rank, table, wanted, field, score, groups, context)
      PROVE  ByPair(arts, rank, table, wanted, field)
  <2> HIDE DEF L
  <2> QED BY <1>1, <1>2 DEF ByPair
<1>3. \A f \in CorrelationFindings(arts) :
        /\ f.place[1] = 4 => f \in L(4, "network", Public, "endpoint", 13,
                                     {"memory_region", "network_endpoint"}, FALSE)
        /\ f.place[1] = 5 => f \in L(5, "command", LinkableCommand, "text", 13,
                                     {"memory_region", "suspicious_command"}, FALSE)
        /\ f.place[1] = 6 => f \in L(6, "module", Dropped, "path", 10,
                                     {"memory_region", "suspicious_module"}, FALSE)
                                   \cup L(6, "module", Microsoft, "path", 5,
                                          {"memory_region", "module_context"}, TRUE)
  <2> DEFINE A == L(4, "network", Public, "endpoint", 13, {"memory_region", "network_endpoint"}, FALSE)
             B == L(5, "command", LinkableCommand, "text", 13,
                    {"memory_region", "suspicious_command"}, FALSE)
             C == L(6, "module", Dropped, "path", 10, {"memory_region", "suspicious_module"}, FALSE)
             D == L(6, "module", Microsoft, "path", 5, {"memory_region", "module_context"}, TRUE)
  <2>2. CorrelationFindings(arts) = A \cup B \cup C \cup D
    BY DEF CorrelationFindings
  <2>3. /\ \A f \in A : f.place[1] = 4
        /\ \A f \in B : f.place[1] = 5
        /\ \A f \in C : f.place[1] = 6
        /\ \A f \in D : f.place[1] = 6
    BY DEF Linked, Finding
  <2> HIDE DEF A, B, C, D
  <2>4. \A f \in A \cup B \cup C \cup D : /\ f.place[1] = 4 => f \in A
                                          /\ f.place[1] = 5 => f \in B
                                          /\ f.place[1] = 6 => f \in C \cup D
    BY <2>3
  <2> QED BY <2>2, <2>4 DEF A, B, C, D
<1>4. CorrelationFindings(arts) \subseteq Findings(arts)
  BY DEF Findings
<1>5. ByPair(arts, 4, "network", Public, "endpoint")
  <2> DEFINE T == L(4, "network", Public, "endpoint", 13, {"memory_region", "network_endpoint"}, FALSE)
  <2>1. T \subseteq Findings(arts)
    BY <1>4 DEF CorrelationFindings
  <2>2. \A f \in Findings(arts) : f.place[1] = 4 => f \in T
    <3> HIDE DEF L
    <3> QED BY <1>3, RanksOfFindings
  <2> HIDE DEF L
  <2> QED BY <1>2, <2>1, <2>2
<1>6. ByPair(arts, 5, "command", LinkableCommand, "text")
  <2> DEFINE T == L(5, "command", LinkableCommand, "text", 13,
                    {"memory_region", "suspicious_command"}, FALSE)
  <2>1. T \subseteq Findings(arts)
    BY <1>4 DEF CorrelationFindings
  <2>2. \A f \in Findings(arts) : f.place[1] = 5 => f \in T
    <3> HIDE DEF L
    <3> QED BY <1>3, RanksOfFindings
  <2> HIDE DEF L
  <2> QED BY <1>2, <2>1, <2>2
<1>7. ByPair(arts, 6, "module", Writable, "path")
  <2> DEFINE no == FALSE
             yes == TRUE
             dropped == {"memory_region", "suspicious_module"}
             context == {"memory_region", "module_context"}
             C == L(6, "module", Dropped, "path", 10, dropped, no)
             D == L(6, "module", Microsoft, "path", 5, context, yes)
  <2>1. C \subseteq Findings(arts) /\ D \subseteq Findings(arts)
    BY <1>4 DEF CorrelationFindings
  <2>2. \A f \in Findings(arts) : f.place[1] = 6 => f \in C \cup D
    <3> HIDE DEF L
    <3> QED BY <1>3, RanksOfFindings
  <2>3. Rows(arts, "module", Writable) = Rows(arts, "module", Dropped) \cup Rows(arts, "module", Microsoft)
    BY DEF Rows, Dropped, Microsoft
  <2>4. /\ \A f \in C : Tells(f, 6, "module", Dropped, "path")
        /\ \A f \in D : Tells(f, 6, "module", Microsoft, "path")
    <3> HIDE DEF L, Tells, no, yes, dropped, context
    <3> QED BY <1>1
  <2>5. \A i \in Rows(arts, "memory_region", Suspicious) :
          /\ \A k \in Rows(arts, "module", Dropped) :
               \E f \in C : f.place = <<6, i, k>> /\ f.key = PairKey(arts, 6, i, "module", k, "path")
          /\ \A k \in Rows(arts, "module", Microsoft) :
               \E f \in D : f.place = <<6, i, k>> /\ f.key = PairKey(arts, 6, i, "module", k, "path")
    <3>1. ASSUME NEW i \in Rows(arts, "memory_region", Suspicious), NEW k \in Rows(arts, "module", Dropped)
          PROVE  \E f \in C : f.place = <<6, i, k>> /\ f.key = PairKey(arts, 6, i, "module", k, "path")
      <4> DEFINE p == <<i, k>>
                 f == Finding(<<6, p[1], p[2]>>,
                              <<arts["memory_region"][p[1]].range, arts["module"][p[2]]["path"]>>,
                              10, dropped, no)
      <4>1. p \in Rows(arts, "memory_region", Suspicious) \X Rows(arts, "module", Dropped)
        OBVIOUS
      <4>2. f \in C
        BY <4>1 DEF Linked
      <4>3. p[1] = i /\ p[2] = k
        OBVIOUS
      <4>4. f.place = <<6, i, k>> /\ f.key = PairKey(arts, 6, i, "module", k, "path")
        BY <4>3 DEF Finding, PairKey
      <4> QED BY <4>2, <4>4
    <3>2. ASSUME NEW i \in Rows(arts, "memory_region", Suspicious), NEW k \in Rows(arts, "module", Microsoft)
          PROVE  \E f \in D : f.place = <<6, i, k>> /\ f.key = PairKey(arts, 6, i, "module", k, "path")
      <4> DEFINE p == <<i, k>>
                 f == Finding(<<6, p[1], p[2]>>,
                              <<arts["memory_region"][p[1]].range, arts["module"][p[2]]["path"]>>,
                              5, context, yes)
      <4>1. p \in Rows(arts, "memory_region", Suspicious) \X Rows(arts, "module", Microsoft)
        OBVIOUS
      <4>2. f \in D
        BY <4>1 DEF Linked
      <4>3. p[1] = i /\ p[2] = k
        OBVIOUS
      <4>4. f.place = <<6, i, k>> /\ f.key = PairKey(arts, 6, i, "module", k, "path")
        BY <4>3 DEF Finding, PairKey
      <4> QED BY <4>2, <4>4
    <3> HIDE DEF C, D
    <3> QED BY <3>1, <3>2
  <2> HIDE DEF C, D
  <2> QED BY <2>1, <2>2, <2>3, <2>4, <2>5 DEF ByPair
<1> QED BY <1>5, <1>6, <1>7

\* An earlier finding with the key of one that was there was there too.
LEMMA RowFirst ==
  ASSUME NEW arts \in Tables, NEW more \in Tables, Prolonged(arts, more),
         NEW rank, NEW table \in Table, NEW wanted, NEW field,
         ByRow(arts, rank, table, wanted, field), ByRow(more, rank, table, wanted, field),
         NEW f \in Findings(arts), NEW g \in Findings(more),
         f.place[1] = rank, g.place[1] = rank, Before(g, f), g.key = f.key
  PROVE  \E h \in Findings(arts) : Before(h, f) /\ h.key = f.key
<1>1. PICK i \in Rows(arts, table, wanted) :
        f.place = <<rank, i, 0>> /\ f.key = <<rank, arts[table][i][field]>>
  BY DEF ByRow
<1>2. PICK j \in Rows(more, table, wanted) :
        g.place = <<rank, j, 0>> /\ g.key = <<rank, more[table][j][field]>>
  BY DEF ByRow
<1>3. i \in Nat /\ j \in Nat /\ i \in DOMAIN arts[table] /\ j \in DOMAIN more[table]
  BY DEF Rows, Prolonged
<1>4. f.place \in Place /\ g.place \in Place
  BY FindingPlaces
<1>5. j < i
  BY <1>1, <1>2, <1>3, <1>4 DEF Before, Place
<1>6. j \in DOMAIN arts[table] /\ more[table][j] = arts[table][j]
  BY <1>3, <1>5 DEF Prolonged
<1>7. j \in Rows(arts, table, wanted)
  BY <1>6 DEF Rows
<1>8. PICK h \in Findings(arts) : h.place = <<rank, j, 0>> /\ h.key = <<rank, arts[table][j][field]>>
  BY <1>7 DEF ByRow
<1>9. h.key = f.key
  BY <1>1, <1>2, <1>6, <1>8
<1>10. Before(h, f)
  BY <1>2, <1>8 DEF Before
<1> QED BY <1>9, <1>10

\* The same for pairs.
LEMMA PairFirst ==
  ASSUME NEW arts \in Tables, NEW more \in Tables, Prolonged(arts, more),
         NEW rank \in Nat, NEW table \in Table, NEW wanted, NEW field,
         ByPair(arts, rank, table, wanted, field), ByPair(more, rank, table, wanted, field),
         NEW f \in Findings(arts), NEW g \in Findings(more),
         f.place[1] = rank, g.place[1] = rank, Before(g, f), g.key = f.key
  PROVE  \E h \in Findings(arts) : Before(h, f) /\ h.key = f.key
<1>1. PICK i \in Rows(arts, "memory_region", Suspicious), k \in Rows(arts, table, wanted) :
        f.place = <<rank, i, k>> /\ f.key = PairKey(arts, rank, i, table, k, field)
  BY DEF ByPair
<1>2. PICK j \in Rows(more, "memory_region", Suspicious), m \in Rows(more, table, wanted) :
        g.place = <<rank, j, m>> /\ g.key = PairKey(more, rank, j, table, m, field)
  BY DEF ByPair
<1>3. /\ i \in Nat /\ j \in Nat /\ k \in Nat /\ m \in Nat
      /\ i \in DOMAIN arts["memory_region"] /\ j \in DOMAIN more["memory_region"]
      /\ k \in DOMAIN arts[table] /\ m \in DOMAIN more[table]
  BY DEF Rows, Prolonged, Table
<1>4. f.place[1] = rank /\ f.place[2] = i /\ f.place[3] = k
      /\ g.place[1] = rank /\ g.place[2] = j /\ g.place[3] = m
  BY <1>1, <1>2
<1>5. j < i \/ (j = i /\ m < k)
  BY <1>3, <1>4 DEF Before
<1>6. j \in DOMAIN arts["memory_region"] /\ more["memory_region"][j] = arts["memory_region"][j]
  BY <1>3, <1>5 DEF Prolonged, Table
<1>7. j \in Rows(arts, "memory_region", Suspicious)
  BY <1>6 DEF Rows
<1> DEFINE R == more["memory_region"][j].range
           V == more[table][m][field]
           Q == arts["memory_region"][i].range
           U == arts[table][k][field]
<1>8. R = Q /\ V = U
  <2>1. f.key = <<rank, <<Q, U>>>> /\ g.key = <<rank, <<R, V>>>>
    BY <1>1, <1>2 DEF PairKey
  <2> HIDE DEF R, V, Q, U
  <2>2. <<rank, <<Q, U>>>> = <<rank, <<R, V>>>>
    BY <2>1, Zenon
  <2> QED BY <2>2
<1>9. CASE m \in DOMAIN arts[table]
  <2>1. m \in Rows(arts, table, wanted) /\ more[table][m] = arts[table][m]
    BY <1>9 DEF Rows, Prolonged
  <2>2. PICK h \in Findings(arts) :
          h.place = <<rank, j, m>> /\ h.key = PairKey(arts, rank, j, table, m, field)
    BY <1>7, <2>1 DEF ByPair
  <2>3. h.key = f.key
    BY <1>1, <1>6, <1>8, <2>1, <2>2 DEF PairKey
  <2>4. Before(h, f)
    BY <1>2, <2>2 DEF Before
  <2> QED BY <2>3, <2>4
<1>10. CASE m \notin DOMAIN arts[table]
  <2>1. k < m
    BY <1>3, <1>10 DEF Prolonged
  <2>2. j < i
    BY <1>3, <1>5, <2>1
  <2>3. PICK h \in Findings(arts) :
          h.place = <<rank, j, k>> /\ h.key = PairKey(arts, rank, j, table, k, field)
    BY <1>7 DEF ByPair
  <2>4. h.key = f.key
    BY <1>1, <1>6, <1>8, <2>3 DEF PairKey
  <2>5. Before(h, f)
    BY <1>4, <2>2, <2>3 DEF Before
  <2> QED BY <2>4, <2>5
<1> QED BY <1>9, <1>10

\* What was reported still is.
LEMMA ReportedProlonged ==
  ASSUME NEW arts \in Tables, NEW more \in Tables, Prolonged(arts, more), NEW f \in Reported(arts)
  PROVE  \E e \in Reported(more) : Succeeds(e, f)
<1>1. f \in Findings(arts)
  BY DEF Reported, Told
<1>2. PICK e \in Findings(more) : Succeeds(e, f)
  BY <1>1, FindingsProlonged DEF Succeeded
<1>3. e.place = f.place /\ e.key = f.key
  BY <1>2 DEF Succeeds
<1>4. ASSUME e.place[1] \in {3, 4, 5, 6, 8, 9, 11}, NEW g \in Findings(more), Before(g, e),
             g.key = e.key
      PROVE  FALSE
  <2>1. Ranged(e) /\ Ranged(g)
    BY FindingRange
  <2>2. g.place[1] = f.place[1]
    BY <1>3, <1>4, <2>1 DEF Ranged
  <2>3. Before(g, f)
    BY <1>3, <1>4 DEF Before
  <2>4. ~\E h \in Findings(arts) : Before(h, f) /\ h.key = f.key
    BY <1>3, <1>4 DEF Reported, Told
  <2>5. CASE f.place[1] \in {3, 8}
    <3>1. "memory_region" \in Table
      BY DEF Table
    <3>2. /\ ByRow(arts, 3, "memory_region", Malfind, "range")
          /\ ByRow(more, 3, "memory_region", Malfind, "range")
          /\ ByRow(arts, 8, "memory_region", Malfind, "range")
          /\ ByRow(more, 8, "memory_region", Malfind, "range")
      BY RowRules
    <3> QED BY <1>1, <1>3, <1>4, <2>2, <2>3, <2>4, <2>5, <3>1, <3>2, RowFirst
  <2>6. CASE f.place[1] = 9
    <3>1. "module" \in Table
      BY DEF Table
    <3>2. ByRow(arts, 9, "module", Dropped, "path") /\ ByRow(more, 9, "module", Dropped, "path")
      BY RowRules
    <3> QED BY <1>1, <1>3, <1>4, <2>2, <2>3, <2>4, <2>6, <3>1, <3>2, RowFirst
  <2>7. CASE f.place[1] = 11
    <3>1. "process" \in Table
      BY DEF Table
    <3>2. ByRow(arts, 11, "process", WrongPath, "path") /\ ByRow(more, 11, "process", WrongPath, "path")
      BY RowRules
    <3> QED BY <1>1, <1>3, <1>4, <2>2, <2>3, <2>4, <2>7, <3>1, <3>2, RowFirst
  <2>8. CASE f.place[1] = 4
    <3>1. "network" \in Table
      BY DEF Table
    <3>2. ByPair(arts, 4, "network", Public, "endpoint") /\ ByPair(more, 4, "network", Public, "endpoint")
      BY PairRules
    <3> QED BY <1>1, <1>3, <1>4, <2>2, <2>3, <2>4, <2>8, <3>1, <3>2, PairFirst
  <2>9. CASE f.place[1] = 5
    <3>1. "command" \in Table
      BY DEF Table
    <3>2. ByPair(arts, 5, "command", LinkableCommand, "text")
          /\ ByPair(more, 5, "command", LinkableCommand, "text")
      BY PairRules
    <3> QED BY <1>1, <1>3, <1>4, <2>2, <2>3, <2>4, <2>9, <3>1, <3>2, PairFirst
  <2>10. CASE f.place[1] = 6
    <3>1. "module" \in Table
      BY DEF Table
    <3>2. ByPair(arts, 6, "module", Writable, "path") /\ ByPair(more, 6, "module", Writable, "path")
      BY PairRules
    <3> QED BY <1>1, <1>3, <1>4, <2>2, <2>3, <2>4, <2>10, <3>1, <3>2, PairFirst
  <2> QED BY <1>3, <1>4, <2>5, <2>6, <2>7, <2>8, <2>9, <2>10
<1>5. e \in Reported(more)
  BY <1>4 DEF Reported, Told
<1> QED BY <1>2, <1>5

-----------------------------------------------------------------------------
(* One more row takes no draft back. *)

\* Levels follow scores, and confidences levels.
LEMMA ConfidenceGrows ==
  /\ \A s \in 0..13, t \in 0..13 : s <= t => ConfidenceFor[Level(s)] <= ConfidenceFor[Level(t)]
  /\ \A s \in 5..13 : \A default \in {"low", "medium"} : ConfidenceFor[default] <= ConfidenceFor[Level(s)]
BY DEF ConfidenceFor, Level

\* Every rule but the matches' scores 5 at least.
LEMMA RowScores ==
  ASSUME NEW arts \in Tables, NEW f \in Findings(arts), TableOf(f) # "yara"
  PROVE  f.score \in 5..13
<1>1. f.place[1] \in 1..13 \ {7}
  <2>1. Ranged(f)
    BY FindingRange
  <2>2. f.place[1] \notin {7, 14}
    BY DEF TableOf
  <2> QED BY <2>1, <2>2 DEF Ranged
<1>2. f.place[1] \in {1, 2} \/ f.place[1] \in {3, 8} \/ f.place[1] \in {4, 5, 6}
      \/ f.place[1] \in {9, 10} \/ f.place[1] \in {11, 12, 13}
  BY <1>1
<1>3. CASE f.place[1] \in {1, 2}
  <2>1. f \in CommandFindings(arts)
    BY <1>3, RanksOfFindings
  <2> QED BY <2>1 DEF CommandFindings, Single, Finding
<1>4. CASE f.place[1] \in {3, 8}
  <2>1. f \in RegionFindings(arts, f.place[1])
    BY <1>4, RanksOfFindings
  <2>2. \A rank : \A g \in RegionFindings(arts, rank) : g.score = IF benign THEN 5 ELSE 8
    BY DEF RegionFindings, Single, Finding
  <2>3. f.score = IF benign THEN 5 ELSE 8
    BY <2>1, <2>2
  <2> QED BY <2>3
<1>5. CASE f.place[1] \in {4, 5, 6}
  <2>1. f \in CorrelationFindings(arts)
    BY <1>5, RanksOfFindings
  <2> QED BY <2>1 DEF CorrelationFindings, Linked, Finding
<1>6. CASE f.place[1] \in {9, 10}
  <2>1. f \in TableFindings(arts)
    BY <1>6, RanksOfFindings
  <2> QED BY <2>1 DEF TableFindings, Single, Finding
<1>7. CASE f.place[1] \in {11, 12, 13}
  <2>1. f \in ProcessFindings(arts)
    BY <1>7, RanksOfFindings
  <2> QED BY <2>1 DEF ProcessFindings, Single, Finding
<1> QED BY <1>2, <1>3, <1>4, <1>5, <1>6, <1>7

\* What is found on a row is still found on it, with no lower a score.
LEMMA OnProlonged ==
  ASSUME NEW arts \in Tables, NEW more \in Tables, Prolonged(arts, more), NEW t, NEW i,
         NEW f \in On(Reported(arts), t, i)
  PROVE  \E e \in On(Reported(more), t, i) : f.score <= e.score
<1>1. f \in Reported(arts) /\ TableOf(f) = t /\ f.place[2] = i
  BY DEF On
<1>2. PICK e \in Reported(more) : Succeeds(e, f)
  BY <1>1, ReportedProlonged
<1>3. e.place = f.place /\ f.score <= e.score
  BY <1>2 DEF Succeeds
<1>4. TableOf(e) = TableOf(f)
  BY <1>3 DEF TableOf
<1> QED BY <1>1, <1>3, <1>4 DEF On

Surety(findings, t, i, default) == ConfidenceFor[WorstSeverity(On(findings, t, i), default)]

\* The confidence in a row is one of the four.
LEMMA SuretyRange ==
  \A findings, t, i : \A default \in Levels : Surety(findings, t, i, default) \in 45..95
BY ConfidenceRange DEF Surety

\* A severity is the default, or that of the greatest score.
LEMMA SuretyForm ==
  \A findings, t, i, default :
    Surety(findings, t, i, default) =
      IF On(findings, t, i) = {} THEN ConfidenceFor[default]
      ELSE ConfidenceFor[Level(Max({f.score : f \in On(findings, t, i)}))]
BY DEF Surety, WorstSeverity

\* The confidence in a row does not fall as tables grow.
LEMMA SuretyGrows ==
  ASSUME NEW arts \in Tables, NEW more \in Tables, Prolonged(arts, more), NEW t, NEW i,
         NEW default \in Levels,
         \/ default \in {"low", "medium"} /\ t # "yara"
         \/ On(Reported(more), t, i) # {} => On(Reported(arts), t, i) # {}
  PROVE  Surety(Reported(arts), t, i, default) <= Surety(Reported(more), t, i, default)
<1> DEFINE F == On(Reported(arts), t, i)
           G == On(Reported(more), t, i)
           S == {f.score : f \in F}
           T == {f.score : f \in G}
           then == Surety(Reported(arts), t, i, default)
           now  == Surety(Reported(more), t, i, default)
<1>1. S \in SUBSET (0..13) /\ T \in SUBSET (0..13)
  <2>1. F \subseteq Findings(arts) /\ G \subseteq Findings(more)
    BY DEF On, Reported, Told
  <2> QED BY <2>1, FindingRange DEF Ranged
<1>2. \A x \in S : \E y \in T : x <= y
  BY OnProlonged
<1>3. (F = {} <=> S = {}) /\ (G = {} <=> T = {})
  OBVIOUS
<1>4. then = IF F = {} THEN ConfidenceFor[default] ELSE ConfidenceFor[Level(Max(S))]
  BY SuretyForm
<1>5. now = IF G = {} THEN ConfidenceFor[default] ELSE ConfidenceFor[Level(Max(T))]
  BY SuretyForm
<1>6. t # "yara" => T \subseteq 5..13
  <2> SUFFICES ASSUME t # "yara", NEW f \in G PROVE f.score \in 5..13
    OBVIOUS
  <2>1. f \in Findings(more) /\ TableOf(f) = t
    BY DEF On, Reported, Told
  <2> QED BY <2>1, RowScores
<1>7. G # {} => F # {} \/ (default \in {"low", "medium"} /\ t # "yara")
  OBVIOUS
<1> HIDE DEF F, G, S, T, then, now
<1>8. /\ S # {} => Max(S) \in S
      /\ T # {} => Max(T) \in T /\ \A y \in T : y <= Max(T)
  BY <1>1, GreatestNumber
<1>9. CASE F # {}
  <2>1. Max(S) \in S
    BY <1>3, <1>8, <1>9
  <2>2. PICK y \in T : Max(S) <= y
    BY <1>2, <2>1
  <2>3. G # {} /\ Max(T) \in T /\ y <= Max(T)
    BY <1>3, <1>8, <2>2
  <2> DEFINE m == Max(S)
             n == Max(T)
  <2>4. m \in 0..13 /\ n \in 0..13 /\ m <= n
    <3>1. m \in 0..13 /\ n \in 0..13 /\ y \in 0..13
      BY <1>1, <2>1, <2>2, <2>3
    <3>2. m <= y /\ y <= n
      BY <2>2, <2>3
    <3> HIDE DEF m, n
    <3> QED BY <3>1, <3>2
  <2>5. ConfidenceFor[Level(m)] <= ConfidenceFor[Level(n)]
    <3> HIDE DEF m, n
    <3> QED BY <2>4, ConfidenceGrows
  <2>6. then = ConfidenceFor[Level(m)]
    BY <1>4, <1>9
  <2>7. now = ConfidenceFor[Level(n)]
    BY <1>5, <2>3
  <2> HIDE DEF m, n
  <2> QED BY <2>5, <2>6, <2>7 DEF then, now
<1>10. CASE F = {} /\ G # {}
  <2> DEFINE n == Max(T)
  <2>1. default \in {"low", "medium"} /\ n \in 5..13
    BY <1>3, <1>6, <1>7, <1>8, <1>10
  <2>2. ConfidenceFor[default] <= ConfidenceFor[Level(n)]
    <3> HIDE DEF n
    <3> QED BY <2>1, ConfidenceGrows
  <2>3. then = ConfidenceFor[default]
    BY <1>4, <1>10
  <2>4. now = ConfidenceFor[Level(n)]
    BY <1>5, <1>10
  <2> HIDE DEF n
  <2> QED BY <2>2, <2>3, <2>4 DEF then, now
<1>11. CASE F = {} /\ G = {}
  <2>1. ConfidenceFor[default] \in 45..95
    BY ConfidenceRange
  <2>2. then = ConfidenceFor[default] /\ now = ConfidenceFor[default]
    BY <1>4, <1>5, <1>11
  <2> QED BY <2>1, <2>2 DEF then, now
<1> QED BY <1>9, <1>10, <1>11

\* A draft that confirms another one.
Confirms(e, d) == Key(e) = Key(d) /\ d.confidence <= e.confidence
DraftsConfirmed(drafts, later) == \A d \in drafts : \E e \in later : Confirms(e, d)

\* A draft of the same key with more confidence confirms another.
LEMMA SameKey ==
  \A at, place, type, value, plugin, sure, surer, role, part :
    sure <= surer => Confirms(Draft(place, type, value, plugin, surer, part),
                              Draft(at, type, value, plugin, sure, role))
BY DEF Confirms, Draft, Key

\* The lower of two confidences under a cap.
LEMMA LowerGrows ==
  ASSUME NEW c \in 45..95, NEW d \in 45..95, c <= d, NEW cap \in 40..70
  PROVE  Lower(c, cap) <= Lower(d, cap)
<1>1. /\ Lower(c, cap) = IF c <= cap THEN c ELSE cap
      /\ Lower(d, cap) = IF d <= cap THEN d ELSE cap
  BY ConfidenceRange, Zenon
<1> QED BY <1>1

\* The drafts of a connection.
LEMMA NetworkForm ==
  ASSUME NEW arts, NEW findings, NEW d
  PROVE  d \in NetworkIocs(arts, findings) <=>
           \E i \in DOMAIN arts["network"] :
             LET row  == arts["network"][i]
                 high == Surety(findings, "network", i, "medium")
                 low  == Lower(Surety(findings, "network", i, "low"), 40)
             IN \/ row \in Public /\ d \in NetworkDrafts(i, row, high)
                \/ /\ row \notin Public /\ On(findings, "network", i) # {}
                   /\ d \in NetworkDrafts(i, row, low)
<1> DEFINE Of(k) ==
      LET net      == arts["network"][k]
          linked   == On(findings, "network", k)
          level    == WorstSeverity(linked, IF net \in Public THEN "medium" ELSE "low")
          certain  == IF net \in Public THEN ConfidenceFor[level] ELSE Min({ConfidenceFor[level], 40})
      IN IF net \in Public \/ linked # {} THEN NetworkDrafts(k, net, certain) ELSE {}
<1>1. NetworkIocs(arts, findings) = UNION {Of(k) : k \in DOMAIN arts["network"]}
  BY DEF NetworkIocs
<1> DEFINE High(k) == Surety(findings, "network", k, "medium")
           Low(k)  == Lower(Surety(findings, "network", k, "low"), 40)
           Pair(k, sure) == NetworkDrafts(k, arts["network"][k], sure)
<1>2. ASSUME NEW k
      PROVE  Of(k) = IF arts["network"][k] \in Public THEN Pair(k, High(k))
                     ELSE IF On(findings, "network", k) # {} THEN Pair(k, Low(k)) ELSE {}
  <2>1. CASE arts["network"][k] \in Public
    BY <2>1 DEF Surety
  <2>2. CASE arts["network"][k] \notin Public
    BY <2>2 DEF Surety, Lower
  <2> QED BY <2>1, <2>2
<1>3. d \in NetworkIocs(arts, findings) <=> \E i \in DOMAIN arts["network"] : d \in Of(i)
  <2> HIDE DEF Of
  <2> QED BY <1>1
<1>4. \A k : d \in Of(k) <=> \/ arts["network"][k] \in Public /\ d \in Pair(k, High(k))
                             \/ /\ arts["network"][k] \notin Public /\ On(findings, "network", k) # {}
                                /\ d \in Pair(k, Low(k))
  <2> HIDE DEF Of, Pair, High, Low
  <2> QED BY <1>2
<1> HIDE DEF Of
<1> QED BY <1>3, <1>4

LEMMA NetworkConfirmed ==
  ASSUME NEW arts \in Tables, NEW more \in Tables, Prolonged(arts, more)
  PROVE  DraftsConfirmed(NetworkIocs(arts, Reported(arts)), NetworkIocs(more, Reported(more)))
<1> SUFFICES ASSUME NEW d \in NetworkIocs(arts, Reported(arts))
             PROVE  \E e \in NetworkIocs(more, Reported(more)) : Confirms(e, d)
  BY DEF DraftsConfirmed
<1> DEFINE F == Reported(arts)
           G == Reported(more)
           Pair(i, row, sure) == NetworkDrafts(i, row, sure)
<1>1. PICK i \in DOMAIN arts["network"] :
        \/ arts["network"][i] \in Public
             /\ d \in Pair(i, arts["network"][i], Surety(F, "network", i, "medium"))
        \/ /\ arts["network"][i] \notin Public /\ On(F, "network", i) # {}
           /\ d \in Pair(i, arts["network"][i], Lower(Surety(F, "network", i, "low"), 40))
  BY NetworkForm
<1>2. i \in DOMAIN more["network"] /\ more["network"][i] = arts["network"][i]
  BY DEF Prolonged, Table
<1>3. /\ Surety(F, "network", i, "medium") <= Surety(G, "network", i, "medium")
      /\ Surety(F, "network", i, "low") <= Surety(G, "network", i, "low")
  BY SuretyGrows DEF Levels
<1>4. Lower(Surety(F, "network", i, "low"), 40) <= Lower(Surety(G, "network", i, "low"), 40)
  <2>1. /\ Surety(F, "network", i, "low") \in 45..95 /\ Surety(G, "network", i, "low") \in 45..95
        /\ 40 \in 40..70
    BY SuretyRange DEF Levels
  <2> QED BY <1>3, <2>1, LowerGrows, Zenon
<1>5. On(F, "network", i) # {} => On(G, "network", i) # {}
  BY OnProlonged
<1>6. \A row, sure, surer : sure <= surer /\ d \in Pair(i, row, sure)
        => \E e \in Pair(i, row, surer) : Confirms(e, d)
  BY SameKey DEF NetworkDrafts
<1>7. /\ more["network"][i] \in Public
           => Pair(i, more["network"][i], Surety(G, "network", i, "medium")) \subseteq NetworkIocs(more, G)
      /\ more["network"][i] \notin Public /\ On(G, "network", i) # {}
           => Pair(i, more["network"][i], Lower(Surety(G, "network", i, "low"), 40)) \subseteq NetworkIocs(more, G)
  BY <1>2, NetworkForm
<1> HIDE DEF Pair, F, G
<1> QED BY <1>1, <1>2, <1>3, <1>4, <1>5, <1>6, <1>7 DEF F, G

\* What two lists of rules find on a command or a module.
LEMMA CommandStaysFound ==
  ASSUME NEW arts \in Tables, NEW more \in Tables, Prolonged(arts, more),
         NEW i \in DOMAIN arts["command"], On(Reported(more), "command", i) # {}
  PROVE  On(Reported(arts), "command", i) # {}
<1>1. PICK e \in Findings(more) : TableOf(e) = "command" /\ e.place[2] = i
  BY DEF On, Reported, Told
<1>2. e.place[1] \in {1, 2}
  <2>1. e.place[1] \in 1..14
    BY FindingRange DEF Ranged
  <2> QED BY <1>1, <2>1 DEF TableOf
<1>3. ASSUME NEW rank \in {1, 2}, NEW wanted, NEW field, e.place[1] = rank,
             ByRow(arts, rank, "command", wanted, field), ByRow(more, rank, "command", wanted, field)
      PROVE  On(Reported(arts), "command", i) # {}
  <2>1. PICK k \in Rows(more, "command", wanted) : e.place = <<rank, k, 0>>
    BY <1>3 DEF ByRow
  <2>2. k = i
    BY <1>1, <2>1
  <2>3. more["command"][i] = arts["command"][i]
    BY DEF Prolonged, Table
  <2>4. i \in Rows(arts, "command", wanted)
    BY <2>1, <2>2, <2>3 DEF Rows
  <2>5. PICK f \in Findings(arts) : f.place = <<rank, i, 0>>
    BY <1>3, <2>4 DEF ByRow
  <2>6. f.place[1] = rank /\ f.place[2] = i
    BY <2>5
  <2>7. f \in Reported(arts)
    BY <2>6 DEF Reported, Told
  <2>8. TableOf(f) = "command"
    BY <2>6 DEF TableOf
  <2> QED BY <2>6, <2>7, <2>8 DEF On
<1>4. /\ ByRow(arts, 1, "command", Encoded, "text") /\ ByRow(more, 1, "command", Encoded, "text")
      /\ ByRow(arts, 2, "command", Keyword, "table") /\ ByRow(more, 2, "command", Keyword, "table")
  BY RowRules
<1> QED BY <1>2, <1>3, <1>4

\* A malfind row that is reported with one more row was reported before, since the
\* row that stands for it in the report of one rule does so for all.
LEMMA MalfindStaysFound ==
  ASSUME NEW arts \in Tables, NEW more \in Tables, Prolonged(arts, more),
         NEW i \in DOMAIN arts["memory_region"], MalfindRow(arts["memory_region"][i]),
         On(Reported(more), "memory_region", i) # {}
  PROVE  On(Reported(arts), "memory_region", i) # {}
<1> DEFINE R(tables) == tables["memory_region"]
<1>1. PICK e \in Findings(more) :
        e \in Reported(more) /\ TableOf(e) = "memory_region" /\ e.place[2] = i
  BY DEF On, Reported, Told
<1>2. e.place[1] \in {3, 4, 5, 6, 8}
  <2>1. e.place[1] \in 1..14
    BY FindingRange DEF Ranged
  <2> QED BY <1>1, <2>1 DEF TableOf
<1>3. i \in DOMAIN more["memory_region"] /\ more["memory_region"][i] = arts["memory_region"][i]
  BY DEF Prolonged, Table
<1>4. \A j \in DOMAIN arts["memory_region"] :
        j \in DOMAIN more["memory_region"] /\ more["memory_region"][j] = arts["memory_region"][j]
  BY DEF Prolonged, Table
<1>5. \A h \in Findings(more) : Before(h, e) => h.key # e.key
  BY <1>1, <1>2 DEF Reported, Told
<1>6. /\ \A rank \in {3, 8} : /\ ByRow(arts, rank, "memory_region", Malfind, "range")
                              /\ ByRow(more, rank, "memory_region", Malfind, "range")
      /\ ByPair(more, 4, "network", Public, "endpoint")
      /\ ByPair(more, 5, "command", LinkableCommand, "text")
      /\ ByPair(more, 6, "module", Writable, "path")
  BY RowRules, PairRules
<1>7. e.place[1] \in {4, 5, 6} =>
        \E table, wanted, field : ByPair(more, e.place[1], table, wanted, field)
  BY <1>6
<1>8. i \in Rows(more, "memory_region", Suspicious)
  <2>1. CASE e.place[1] \in {3, 8}
    <3>1. PICK k \in Rows(more, "memory_region", Malfind) : e.place = <<e.place[1], k, 0>>
      BY <1>6, <2>1 DEF ByRow
    <3>2. k = i
      BY <1>1, <3>1
    <3> QED BY <3>1, <3>2 DEF Rows, Malfind
  <2>2. CASE e.place[1] \in {4, 5, 6}
    <3>1. PICK table, wanted, field : ByPair(more, e.place[1], table, wanted, field)
      BY <1>7, <2>2
    <3>2. PICK k \in Rows(more, "memory_region", Suspicious), m \in Rows(more, table, wanted) :
            e.place = <<e.place[1], k, m>>
      BY <3>1 DEF ByPair
    <3> QED BY <1>1, <3>2
  <2> QED BY <1>2, <2>1, <2>2
<1>9. i \in Rows(arts, "memory_region", Malfind)
  BY <1>3, <1>8 DEF Rows, Malfind, MalfindRow
<1>10. PICK f \in Findings(arts) :
         f.place = <<3, i, 0>> /\ f.key = <<3, arts["memory_region"][i].range>>
  BY <1>6, <1>9 DEF ByRow
<1>11. f.place[1] = 3 /\ f.place[2] = i /\ TableOf(f) = "memory_region"
  BY <1>10 DEF TableOf
<1>12. ASSUME NEW g \in Findings(arts), Before(g, f), g.key = f.key
       PROVE  FALSE
  <2>1. g.place[1] = 3
    <3>1. g.key[1] = 3
      BY <1>10, <1>12
    <3> QED BY <3>1, FindingRange DEF Ranged
  <2>2. PICK j \in Rows(arts, "memory_region", Malfind) :
          g.place = <<3, j, 0>> /\ g.key = <<3, arts["memory_region"][j].range>>
    BY <1>6, <2>1 DEF ByRow
  <2>3. j < i /\ arts["memory_region"][j].range = arts["memory_region"][i].range
    <3>1. i \in Nat /\ j \in Nat
      BY DEF Tables, Table, Rows
    <3>2. j < i
      BY <1>10, <1>12, <2>2, <3>1 DEF Before
    <3> DEFINE a == arts["memory_region"][j].range
               b == arts["memory_region"][i].range
    <3>3. <<3, a>> = <<3, b>>
      BY <1>10, <1>12, <2>2
    <3> HIDE DEF a, b
    <3>4. a = b
      BY <3>3
    <3> QED BY <3>2, <3>4 DEF a, b
  <2>4. j \in Rows(more, "memory_region", Malfind) /\ j \in Rows(more, "memory_region", Suspicious)
        /\ more["memory_region"][j].range = more["memory_region"][i].range
    BY <1>3, <1>4, <2>2, <2>3 DEF Rows, Malfind
  <2>5. CASE e.place[1] \in {3, 8}
    <3> DEFINE rank == e.place[1]
    <3>1. PICK k \in Rows(more, "memory_region", Malfind) :
            e.place = <<rank, k, 0>> /\ e.key = <<rank, more["memory_region"][k].range>>
      BY <1>6, <2>5 DEF ByRow
    <3>2. PICK h \in Findings(more) :
            h.place = <<rank, j, 0>> /\ h.key = <<rank, more["memory_region"][j].range>>
      BY <1>6, <2>4, <2>5 DEF ByRow
    <3>3. k = i
      BY <1>1, <3>1
    <3>4. h.key = e.key
      BY <2>4, <3>1, <3>2, <3>3
    <3>5. Before(h, e)
      BY <1>1, <2>3, <3>2 DEF Before
    <3> QED BY <1>5, <3>4, <3>5
  <2>6. CASE e.place[1] \in {4, 5, 6}
    <3>1. PICK table, wanted, field : ByPair(more, e.place[1], table, wanted, field)
      BY <1>7, <2>6
    <3>2. PICK k \in Rows(more, "memory_region", Suspicious), m \in Rows(more, table, wanted) :
            e.place = <<e.place[1], k, m>> /\ e.key = PairKey(more, e.place[1], k, table, m, field)
      BY <3>1 DEF ByPair
    <3>3. PICK h \in Findings(more) :
            h.place = <<e.place[1], j, m>> /\ h.key = PairKey(more, e.place[1], j, table, m, field)
      BY <2>4, <3>1, <3>2 DEF ByPair
    <3>4. k = i
      BY <1>1, <3>2
    <3>5. h.key = e.key
      BY <2>4, <3>2, <3>3, <3>4 DEF PairKey
    <3>6. Before(h, e)
      BY <1>1, <2>3, <3>1, <3>3 DEF Before
    <3> QED BY <1>5, <3>5, <3>6
  <2> QED BY <1>2, <2>5, <2>6
<1>13. f \in Reported(arts)
  BY <1>12 DEF Reported, Told
<1> QED BY <1>11, <1>13 DEF On

\* The drafts of each extractor are confirmed.
LEMMA CommandConfirmed ==
  ASSUME NEW arts \in Tables, NEW more \in Tables, Prolonged(arts, more)
  PROVE  DraftsConfirmed(CommandIocs(arts, Reported(arts)), CommandIocs(more, Reported(more)))
<1> DEFINE Default(row) == IF row \in ListedCommand THEN "high" ELSE "medium"
           Sure(tables, k) == Surety(Reported(tables), "command", k, Default(tables["command"][k]))
           Of(tables, k) == Draft(k, "command_line", tables["command"][k].text, "command",
                                  Sure(tables, k), "threat_ioc")
           Noted(tables) == {k \in DOMAIN tables["command"] :
                               \/ tables["command"][k] \in ListedCommand
                               \/ On(Reported(tables), "command", k) # {}}
<1>1. \A tables : CommandIocs(tables, Reported(tables)) = {Of(tables, k) : k \in Noted(tables)}
  BY DEF CommandIocs, Surety
<1>2. ASSUME NEW i \in Noted(arts)
      PROVE  i \in Noted(more) /\ Confirms(Of(more, i), Of(arts, i))
  <2>1. i \in DOMAIN more["command"] /\ more["command"][i] = arts["command"][i]
    BY DEF Prolonged, Table
  <2>2. On(Reported(arts), "command", i) # {} => On(Reported(more), "command", i) # {}
    BY OnProlonged
  <2>3. i \in Noted(more)
    BY <2>1, <2>2
  <2>4. Default(arts["command"][i]) \in Levels
    BY DEF Levels
  <2>5. On(Reported(more), "command", i) # {} => On(Reported(arts), "command", i) # {}
    BY CommandStaysFound
  <2>6. Sure(arts, i) <= Sure(more, i)
    <3> DEFINE default == Default(arts["command"][i])
    <3>1. Sure(arts, i) = Surety(Reported(arts), "command", i, default)
          /\ Sure(more, i) = Surety(Reported(more), "command", i, default)
      BY <2>1
    <3> HIDE DEF Sure, default
    <3>2. Surety(Reported(arts), "command", i, default) <= Surety(Reported(more), "command", i, default)
      BY <2>4, <2>5, SuretyGrows DEF default
    <3> QED BY <3>1, <3>2
  <2>7. Confirms(Of(more, i), Of(arts, i))
    <3> HIDE DEF Sure
    <3> QED BY <2>1, <2>6, SameKey
  <2> QED BY <2>3, <2>7
<1> HIDE DEF Of, Noted
<1> QED BY <1>1, <1>2 DEF DraftsConfirmed

LEMMA ModuleConfirmed ==
  ASSUME NEW arts \in Tables, NEW more \in Tables, Prolonged(arts, more)
  PROVE  DraftsConfirmed(ModuleIocs(arts, Reported(arts)), ModuleIocs(more, Reported(more)))
<1> DEFINE Sure(tables, k) == Surety(Reported(tables), "module", k, "medium")
           Role(row) == IF row \in Microsoft THEN "investigation_artifact" ELSE "threat_ioc"
           Of(tables, k) == Draft(k, "module_path", tables["module"][k].path, "module",
                                  Sure(tables, k), Role(tables["module"][k]))
           Noted(tables) == {k \in DOMAIN tables["module"] :
                               \/ On(Reported(tables), "module", k) # {}
                               \/ tables["module"][k] \in ListedModule \ Microsoft}
<1>1. \A tables : ModuleIocs(tables, Reported(tables)) = {Of(tables, k) : k \in Noted(tables)}
  BY DEF ModuleIocs, Surety
<1>2. ASSUME NEW i \in Noted(arts)
      PROVE  i \in Noted(more) /\ Confirms(Of(more, i), Of(arts, i))
  <2>1. i \in DOMAIN more["module"] /\ more["module"][i] = arts["module"][i]
    BY DEF Prolonged, Table
  <2>2. On(Reported(arts), "module", i) # {} => On(Reported(more), "module", i) # {}
    BY OnProlonged
  <2>3. i \in Noted(more)
    BY <2>1, <2>2
  <2>4. Sure(arts, i) <= Sure(more, i)
    BY SuretyGrows DEF Levels
  <2>5. Confirms(Of(more, i), Of(arts, i))
    <3> HIDE DEF Sure, Role
    <3> QED BY <2>1, <2>4, SameKey
  <2> QED BY <2>3, <2>5
<1> HIDE DEF Of, Noted
<1> QED BY <1>1, <1>2 DEF DraftsConfirmed

LEMMA RegionConfirmed ==
  ASSUME NEW arts \in Tables, NEW more \in Tables, Prolonged(arts, more)
  PROVE  DraftsConfirmed(RegionIocs(arts, Reported(arts)), RegionIocs(more, Reported(more)))
<1> DEFINE Default(row) == IF MalfindRow(row) THEN "high" ELSE "medium"
           Sure(tables, k) == Surety(Reported(tables), "memory_region", k, Default(tables["memory_region"][k]))
           Held(tables, k) == IF tables["memory_region"][k].plugin \in VadContextPlugins
                                THEN Lower(Sure(tables, k), ConfidenceFor["medium"]) ELSE Sure(tables, k)
           Of(tables, k) == Draft(k, "memory_region", tables["memory_region"][k].range,
                                  tables["memory_region"][k].plugin, Held(tables, k),
                                  "investigation_artifact")
           Noted(tables) == {k \in DOMAIN tables["memory_region"] :
                               \/ MalfindRow(tables["memory_region"][k])
                               \/ On(Reported(tables), "memory_region", k) # {}}
<1>1. \A tables : RegionIocs(tables, Reported(tables)) = {Of(tables, k) : k \in Noted(tables)}
  BY DEF RegionIocs, Surety, Lower
<1>2. ASSUME NEW i \in Noted(arts)
      PROVE  i \in Noted(more) /\ Confirms(Of(more, i), Of(arts, i))
  <2> DEFINE default == Default(arts["memory_region"][i])
  <2>1. i \in DOMAIN more["memory_region"] /\ more["memory_region"][i] = arts["memory_region"][i]
    BY DEF Prolonged, Table
  <2>2. On(Reported(arts), "memory_region", i) # {} => On(Reported(more), "memory_region", i) # {}
    BY OnProlonged
  <2>3. i \in Noted(more)
    BY <2>1, <2>2
  <2>4. default \in Levels
    BY DEF Levels
  <2>5. \/ default \in {"low", "medium"}
        \/ On(Reported(more), "memory_region", i) # {} => On(Reported(arts), "memory_region", i) # {}
    BY MalfindStaysFound
  <2>6. Sure(arts, i) <= Sure(more, i)
    <3>1. Sure(arts, i) = Surety(Reported(arts), "memory_region", i, default)
          /\ Sure(more, i) = Surety(Reported(more), "memory_region", i, default)
      BY <2>1
    <3> HIDE DEF Sure, default
    <3>2. Surety(Reported(arts), "memory_region", i, default)
            <= Surety(Reported(more), "memory_region", i, default)
      BY <2>4, <2>5, SuretyGrows
    <3> QED BY <3>1, <3>2
  <2>7. Sure(arts, i) \in 45..95 /\ Sure(more, i) \in 45..95
    BY SuretyRange DEF Levels
  <2>8. Held(arts, i) <= Held(more, i)
    <3>1. ConfidenceFor["medium"] = 65 /\ 65 \in 40..70
      BY DEF ConfidenceFor
    <3> DEFINE c == Sure(arts, i)
               d == Sure(more, i)
               vad == arts["memory_region"][i].plugin \in VadContextPlugins
    <3>2. /\ Held(arts, i) = IF vad THEN Lower(c, 65) ELSE c
          /\ Held(more, i) = IF vad THEN Lower(d, 65) ELSE d
      BY <2>1, <3>1
    <3>3. c \in 45..95 /\ d \in 45..95 /\ c <= d
      BY <2>6, <2>7
    <3> HIDE DEF c, d, vad, Held
    <3>4. Lower(c, 65) <= Lower(d, 65)
      BY <3>1, <3>3, LowerGrows
    <3>5. CASE vad
      BY <3>2, <3>4, <3>5
    <3>6. CASE ~vad
      BY <3>2, <3>3, <3>6
    <3> QED BY <3>5, <3>6
  <2>9. Confirms(Of(more, i), Of(arts, i))
    <3> HIDE DEF Held
    <3> QED BY <2>1, <2>8, SameKey
  <2> QED BY <2>3, <2>9
<1> HIDE DEF Of, Noted
<1> QED BY <1>1, <1>2 DEF DraftsConfirmed

LEMMA ProcessConfirmed ==
  ASSUME NEW arts \in Tables, NEW more \in Tables, Prolonged(arts, more)
  PROVE  DraftsConfirmed(ProcessIocs(arts, Reported(arts)), ProcessIocs(more, Reported(more)))
<1> DEFINE About(tables, k) == On(Reported(tables), "process", k)
           Sure(tables, k) == Surety(Reported(tables), "process", k, "medium")
           Held(tables, k) == Lower(Sure(tables, k), 70)
           Art(k, row, type, value, sure) ==
             Draft(k, type, value, row.plugin, sure, "investigation_artifact")
           Name(tables, k) == {Art(k, tables["process"][k], "process_name", "name", Sure(tables, k))}
           Pid(tables, k)  == IF About(tables, k) = {} THEN {}
                              ELSE {Art(k, tables["process"][k], "pid", "pid", Held(tables, k))}
           Path(tables, k) == IF tables["process"][k].path = "none" THEN {}
                              ELSE {Art(k, tables["process"][k], "file_path", tables["process"][k].path,
                                        Sure(tables, k))}
           Noted(tables) == {k \in DOMAIN tables["process"] :
                               NotedProcess(tables["process"][k], About(tables, k))}
<1>1. \A tables : ProcessIocs(tables, Reported(tables))
                    = UNION {Name(tables, k) \cup Pid(tables, k) \cup Path(tables, k) : k \in Noted(tables)}
  BY DEF ProcessIocs, Surety, Lower
<1>2. ASSUME NEW i \in Noted(arts)
      PROVE  /\ i \in Noted(more)
             /\ DraftsConfirmed(Name(arts, i), Name(more, i))
             /\ DraftsConfirmed(Pid(arts, i), Pid(more, i))
             /\ DraftsConfirmed(Path(arts, i), Path(more, i))
  <2>1. i \in DOMAIN more["process"] /\ more["process"][i] = arts["process"][i]
    BY DEF Prolonged, Table
  <2>2. About(arts, i) # {} => About(more, i) # {}
    BY OnProlonged
  <2>3. i \in Noted(more)
    BY <2>1, <2>2 DEF NotedProcess
  <2>4. Sure(arts, i) <= Sure(more, i)
    BY SuretyGrows DEF Levels
  <2>5. Held(arts, i) <= Held(more, i)
    <3>1. Sure(arts, i) \in 45..95 /\ Sure(more, i) \in 45..95 /\ 70 \in 40..70
      BY SuretyRange DEF Levels
    <3> HIDE DEF Sure
    <3> QED BY <2>4, <3>1, LowerGrows, Zenon
  <2>6. \A row, type, value, sure, surer :
          sure <= surer => Confirms(Art(i, row, type, value, surer), Art(i, row, type, value, sure))
    BY SameKey
  <2> HIDE DEF Sure, Held, Art, About
  <2>7. DraftsConfirmed(Name(arts, i), Name(more, i))
    BY <2>1, <2>4, <2>6 DEF DraftsConfirmed
  <2>8. DraftsConfirmed(Pid(arts, i), Pid(more, i))
    BY <2>1, <2>2, <2>5, <2>6 DEF DraftsConfirmed
  <2>9. DraftsConfirmed(Path(arts, i), Path(more, i))
    BY <2>1, <2>4, <2>6 DEF DraftsConfirmed
  <2> QED BY <2>3, <2>7, <2>8, <2>9
<1> HIDE DEF Name, Pid, Path, Noted
<1> SUFFICES ASSUME NEW d \in ProcessIocs(arts, Reported(arts))
             PROVE  \E e \in ProcessIocs(more, Reported(more)) : Confirms(e, d)
  BY DEF DraftsConfirmed
<1>3. PICK i \in Noted(arts) : d \in Name(arts, i) \cup Pid(arts, i) \cup Path(arts, i)
  BY <1>1
<1>4. PICK e \in Name(more, i) \cup Pid(more, i) \cup Path(more, i) : Confirms(e, d)
  BY <1>2, <1>3 DEF DraftsConfirmed
<1>5. e \in ProcessIocs(more, Reported(more))
  BY <1>1, <1>2, <1>4
<1> QED BY <1>4, <1>5

LEMMA YaraConfirmed ==
  ASSUME NEW arts \in Tables, NEW more \in Tables, Prolonged(arts, more)
  PROVE  DraftsConfirmed(YaraIocs(arts, Reported(arts)), YaraIocs(more, Reported(more)))
<1> DEFINE Declared(rule) == IF Metadata[rule].severity = "none" THEN "high" ELSE Metadata[rule].severity
           Sure(rule) == ConfidenceFor[Declared(rule)]
           Role(tables, k) == YaraRole(tables, tables["yara"][k].rule, On(Reported(tables), "yara", k))
           Held(tables, k) == IF Role(tables, k) = "threat_ioc" THEN Sure(tables["yara"][k].rule)
                              ELSE Lower(Sure(tables["yara"][k].rule), 55)
           Of(tables, k) == Draft(k, "yara_rule", tables["yara"][k].rule, tables["yara"][k].plugin,
                                  Held(tables, k), Role(tables, k))
<1>1. \A tables : YaraIocs(tables, Reported(tables)) = {Of(tables, k) : k \in DOMAIN tables["yara"]}
  BY DEF YaraIocs, Lower
<1>2. ASSUME NEW i \in DOMAIN arts["yara"]
      PROVE  i \in DOMAIN more["yara"] /\ Confirms(Of(more, i), Of(arts, i))
  <2> DEFINE rule == arts["yara"][i].rule
  <2>1. i \in DOMAIN more["yara"] /\ more["yara"][i] = arts["yara"][i]
    BY DEF Prolonged, Table
  <2>2. Sure(rule) \in 45..95
    <3>1. Metadata[rule].severity \in {"none"} \cup Levels
      BY MatchMetadata DEF YaraMetadata, Levels
    <3>2. Declared(rule) \in Levels
      BY <3>1 DEF Levels
    <3> HIDE DEF Declared, rule
    <3> QED BY <3>2, ConfidenceRange
  <2>3. Role(arts, i) = "threat_ioc" => Role(more, i) = "threat_ioc"
    <3>1. HasRegions(arts) => HasRegions(more)
      <4>1. arts["memory_region"] \in Seq(Row) /\ more["memory_region"] \in Seq(Row)
        BY DEF Tables, Table
      <4>2. DOMAIN arts["memory_region"] \subseteq DOMAIN more["memory_region"]
        BY DEF Prolonged, Table
      <4> QED BY <4>1, <4>2 DEF HasRegions
    <3>2. \A f \in On(Reported(arts), "yara", i) : f.place[1] = 7 =>
            \E e \in On(Reported(more), "yara", i) : e.place[1] = 7
      <4> SUFFICES ASSUME NEW f \in On(Reported(arts), "yara", i), f.place[1] = 7
                   PROVE  \E e \in On(Reported(more), "yara", i) : e.place[1] = 7
        OBVIOUS
      <4>1. PICK e \in Reported(more) : Succeeds(e, f)
        BY ReportedProlonged DEF On
      <4>2. e.place = f.place
        BY <4>1 DEF Succeeds
      <4> QED BY <4>1, <4>2 DEF On, TableOf
    <3> QED BY <2>1, <3>1, <3>2 DEF YaraRole, Correlated
  <2>4. Lower(Sure(rule), 55) <= Sure(rule)
    <3>1. 55 \in 40..70
      OBVIOUS
    <3> DEFINE c == Sure(rule)
    <3> HIDE DEF Sure
    <3>2. Lower(c, 55) = IF c <= 55 THEN c ELSE 55
      BY <2>2, <3>1, ConfidenceRange, Zenon
    <3> QED BY <2>2, <3>2
  <2>5. Lower(Sure(rule), 55) <= Lower(Sure(rule), 55)
    <3> HIDE DEF Sure, rule
    <3>1. 55 \in 40..70
      OBVIOUS
    <3>2. Sure(rule) <= Sure(rule)
      BY <2>2
    <3> QED BY <2>2, <3>1, <3>2, LowerGrows
  <2>6. Held(arts, i) <= Held(more, i)
    <3> DEFINE threat == Role(arts, i) = "threat_ioc"
               still  == Role(more, i) = "threat_ioc"
    <3>1. /\ Held(arts, i) = IF threat THEN Sure(rule) ELSE Lower(Sure(rule), 55)
          /\ Held(more, i) = IF still THEN Sure(rule) ELSE Lower(Sure(rule), 55)
      BY <2>1
    <3>2. threat => still
      BY <2>3
    <3> HIDE DEF threat, still, Held, Sure, rule
    <3>3. Sure(rule) <= Sure(rule)
      BY <2>2
    <3>4. CASE threat
      BY <3>1, <3>2, <3>3, <3>4
    <3>5. CASE ~threat /\ still
      BY <2>4, <3>1, <3>5
    <3>6. CASE ~threat /\ ~still
      BY <2>5, <3>1, <3>6
    <3> QED BY <3>4, <3>5, <3>6
  <2>7. Confirms(Of(more, i), Of(arts, i))
    <3> HIDE DEF Held, Role
    <3> QED BY <2>1, <2>6, SameKey
  <2> QED BY <2>1, <2>7, Zenon
<1> HIDE DEF Of
<1> QED BY <1>1, <1>2 DEF DraftsConfirmed

LEMMA ReferencesConfirmed ==
  ASSUME NEW arts \in Tables, NEW more \in Tables, Prolonged(arts, more)
  PROVE  DraftsConfirmed(PluginReferences(arts, Reported(arts)), PluginReferences(more, Reported(more)))
<1> DEFINE OfFinding(tables, f) == Reference(f.place[2], PluginOf(tables, f), SeverityOf(f))
           OfMatch(match, i) == Reference(i, match.plugin, YaraSeverity(Metadata[match.rule], FALSE))
           OfPlugin(plugin) == Reference(0, plugin, "medium")
           A(tables) == {OfFinding(tables, f) : f \in Reported(tables)}
           B(tables) == {OfMatch(tables["yara"][i], i) : i \in JobSummaries(tables)}
           C(tables) == {OfPlugin(plugin) : plugin \in ContextPlugins(tables)}
<1>1. \A tables : PluginReferences(tables, Reported(tables)) = A(tables) \cup B(tables) \cup C(tables)
  BY DEF PluginReferences
<1>2. \A d : d.confidence \in 0..100 => Confirms(d, d)
  BY DEF Confirms
<1>3. \A d \in PluginReferences(arts, Reported(arts)) : Confirms(d, d)
  BY <1>2, ReferenceDrafts DEF Draftlike
<1>4. ASSUME NEW f \in Reported(arts)
      PROVE  \E e \in Reported(more) : Confirms(OfFinding(more, e), OfFinding(arts, f))
  <2>1. PICK e \in Reported(more) : Succeeds(e, f)
    BY ReportedProlonged
  <2>2. e.place = f.place /\ f.score <= e.score
    BY <2>1 DEF Succeeds
  <2>3. f.score \in 0..13 /\ e.score \in 0..13
    BY FindingRange DEF Reported, Told, Ranged
  <2>4. TableOf(e) = TableOf(f)
    BY <2>2 DEF TableOf
  <2>5. TableOf(f) \in Table /\ f.place[2] \in DOMAIN arts[TableOf(f)]
    BY FindingIndex DEF Reported, Told
  <2>6. PluginOf(more, e) = PluginOf(arts, f)
    <3>1. more[TableOf(f)][f.place[2]] = arts[TableOf(f)][f.place[2]]
      BY <2>5 DEF Prolonged
    <3> QED BY <2>2, <2>4, <3>1 DEF PluginOf
  <2> DEFINE c == ConfidenceFor[SeverityOf(f)]
             d == ConfidenceFor[SeverityOf(e)]
  <2>7. c \in 45..95 /\ d \in 45..95 /\ c <= d
    <3>1. SeverityOf(f) \in Levels /\ SeverityOf(e) \in Levels
      BY DEF SeverityOf, Level, Levels
    <3>2. c \in 45..95 /\ d \in 45..95
      BY <3>1, ConfidenceRange
    <3> QED BY <2>2, <2>3, <3>2, ConfidenceGrows DEF SeverityOf
  <2>8. Lower(c, 60) <= Lower(d, 60)
    <3>1. 60 \in 40..70
      OBVIOUS
    <3> HIDE DEF c, d
    <3> QED BY <2>7, <3>1, LowerGrows, Zenon
  <2> DEFINE plugin == PluginOf(arts, f)
             New == Draft(f.place[2], "plugin_reference", plugin, plugin, Lower(d, 60), "investigation_artifact")
             Old == Draft(f.place[2], "plugin_reference", plugin, plugin, Lower(c, 60), "investigation_artifact")
  <2>9. OfFinding(more, e) = New /\ OfFinding(arts, f) = Old
    BY <2>2, <2>6 DEF Reference, Lower
  <2>10. Confirms(New, Old)
    <3> HIDE DEF c, d, plugin
    <3> QED BY <2>8, SameKey
  <2> HIDE DEF OfFinding
  <2> QED BY <2>9, <2>10
<1>5. ASSUME NEW i \in JobSummaries(arts)
      PROVE  i \in JobSummaries(more) /\ more["yara"][i] = arts["yara"][i]
  BY DEF JobSummaries, Prolonged, Table
<1>6. ContextPlugins(arts) \subseteq ContextPlugins(more)
  <2> DEFINE Of(tables, t) == {RowPlugin(t, tables[t][i]) : i \in DOMAIN tables[t]}
  <2>1. \A t \in Table : Of(arts, t) \subseteq Of(more, t)
    BY DEF Prolonged
  <2>2. \A tables : ContextPlugins(tables) = Of(tables, "memory_region") \cup Of(tables, "module")
    BY DEF ContextPlugins
  <2>3. "memory_region" \in Table /\ "module" \in Table
    BY DEF Table
  <2> HIDE DEF Of
  <2> QED BY <2>1, <2>2, <2>3
<1> HIDE DEF OfFinding, OfMatch, OfPlugin
<1> SUFFICES ASSUME NEW d \in PluginReferences(arts, Reported(arts))
             PROVE  \E e \in PluginReferences(more, Reported(more)) : Confirms(e, d)
  BY DEF DraftsConfirmed
<1>7. CASE d \in A(arts)
  <2>1. PICK f \in Reported(arts) : d = OfFinding(arts, f)
    BY <1>7
  <2>2. PICK e \in Reported(more) : Confirms(OfFinding(more, e), d)
    BY <1>4, <2>1
  <2>3. OfFinding(more, e) \in A(more)
    OBVIOUS
  <2> HIDE DEF A
  <2> QED BY <1>1, <2>2, <2>3
<1>8. CASE d \in B(arts)
  <2>1. PICK i \in JobSummaries(arts) : d = OfMatch(arts["yara"][i], i)
    BY <1>8
  <2>2. d \in B(more)
    BY <1>5, <2>1
  <2> HIDE DEF A, B, C
  <2> QED BY <1>1, <1>3, <2>2
<1>9. CASE d \in C(arts)
  <2>1. d \in C(more)
    BY <1>6, <1>9
  <2> HIDE DEF A, B, C
  <2> QED BY <1>1, <1>3, <2>1
<1> HIDE DEF A, B, C
<1> QED BY <1>1, <1>7, <1>8, <1>9

\* If the drafts of every extractor are confirmed, so are those of all.
LEMMA DraftsJoined ==
  ASSUME NEW arts, NEW more,
         DraftsConfirmed(NetworkIocs(arts, Reported(arts)), NetworkIocs(more, Reported(more))),
         DraftsConfirmed(CommandIocs(arts, Reported(arts)), CommandIocs(more, Reported(more))),
         DraftsConfirmed(ModuleIocs(arts, Reported(arts)), ModuleIocs(more, Reported(more))),
         DraftsConfirmed(ProcessIocs(arts, Reported(arts)), ProcessIocs(more, Reported(more))),
         DraftsConfirmed(YaraIocs(arts, Reported(arts)), YaraIocs(more, Reported(more))),
         DraftsConfirmed(RegionIocs(arts, Reported(arts)), RegionIocs(more, Reported(more))),
         DraftsConfirmed(PluginReferences(arts, Reported(arts)), PluginReferences(more, Reported(more)))
  PROVE  DraftsConfirmed(DraftsOf(arts, Reported(arts)), DraftsOf(more, Reported(more)))
<1>1. \A P, Q, R, S : DraftsConfirmed(P, Q) /\ DraftsConfirmed(R, S) => DraftsConfirmed(P \cup R, Q \cup S)
  BY DEF DraftsConfirmed
<1> DEFINE N(tables) == NetworkIocs(tables, Reported(tables))
           C(tables) == CommandIocs(tables, Reported(tables))
           M(tables) == ModuleIocs(tables, Reported(tables))
           P(tables) == ProcessIocs(tables, Reported(tables))
           Y(tables) == YaraIocs(tables, Reported(tables))
           R(tables) == RegionIocs(tables, Reported(tables))
           S(tables) == PluginReferences(tables, Reported(tables))
<1>2. /\ DraftsConfirmed(N(arts), N(more)) /\ DraftsConfirmed(C(arts), C(more))
      /\ DraftsConfirmed(M(arts), M(more)) /\ DraftsConfirmed(P(arts), P(more))
      /\ DraftsConfirmed(Y(arts), Y(more)) /\ DraftsConfirmed(R(arts), R(more))
      /\ DraftsConfirmed(S(arts), S(more))
  OBVIOUS
<1>3. \A tables : DraftsOf(tables, Reported(tables))
        = N(tables) \cup C(tables) \cup M(tables) \cup P(tables) \cup Y(tables) \cup R(tables) \cup S(tables)
  BY DEF DraftsOf
<1> HIDE DEF N, C, M, P, Y, R, S
<1> DEFINE NC(tables) == N(tables) \cup C(tables)
           NM(tables) == NC(tables) \cup M(tables)
           NP(tables) == NM(tables) \cup P(tables)
           NY(tables) == NP(tables) \cup Y(tables)
           NR(tables) == NY(tables) \cup R(tables)
<1>4. DraftsConfirmed(NC(arts), NC(more))
  BY <1>1, <1>2
<1>5. DraftsConfirmed(NM(arts), NM(more))
  <2> HIDE DEF NC
  <2> QED BY <1>1, <1>2, <1>4
<1>6. DraftsConfirmed(NP(arts), NP(more))
  <2> HIDE DEF NM
  <2> QED BY <1>1, <1>2, <1>5
<1>7. DraftsConfirmed(NY(arts), NY(more))
  <2> HIDE DEF NP
  <2> QED BY <1>1, <1>2, <1>6
<1>8. DraftsConfirmed(NR(arts), NR(more))
  <2> HIDE DEF NY
  <2> QED BY <1>1, <1>2, <1>7
<1>9. DraftsConfirmed(NR(arts) \cup S(arts), NR(more) \cup S(more))
  <2> HIDE DEF NR
  <2> QED BY <1>1, <1>2, <1>8
<1> QED BY <1>3, <1>9

\* So one more row confirms the drafts of all extractors.
LEMMA DraftsProlonged ==
  ASSUME NEW arts \in Tables, NEW more \in Tables, Prolonged(arts, more)
  PROVE  DraftsConfirmed(DraftsOf(arts, Reported(arts)), DraftsOf(more, Reported(more)))
  BY NetworkConfirmed, CommandConfirmed, ModuleConfirmed, ProcessConfirmed, YaraConfirmed,
     RegionConfirmed, ReferencesConfirmed, DraftsJoined

\* What deduplication leaves of drafts that are confirmed is confirmed.
LEMMA ExportConfirmed ==
  ASSUME NEW arts \in Tables, NEW more \in Tables, Prolonged(arts, more)
  PROVE  AllConfirmed(Exported(arts), Exported(more))
<1> DEFINE D == DraftsOf(arts, Reported(arts))
           E == DraftsOf(more, Reported(more))
<1>1. Exported(arts) = Deduplicated(D) /\ Exported(more) = Deduplicated(E)
  BY ExportForm DEF Exported
<1>2. Draftlike(D) /\ Draftlike(E) /\ DraftsConfirmed(D, E)
  BY AllDrafts, DraftsProlonged
<1> HIDE DEF D, E
<1> SUFFICES ASSUME NEW ioc \in Deduplicated(D)
             PROVE  Confirmed(ioc, Deduplicated(E))
  BY <1>1 DEF AllConfirmed
<1>3. PICK d \in D : ioc = Record(d)
  BY DEF Deduplicated
<1>4. PICK e \in E : Key(e) = Key(d) /\ d.confidence <= e.confidence
  BY <1>2 DEF DraftsConfirmed, Confirms
<1>5. PICK later \in Deduplicated(E) :
        /\ later.type = e.type /\ later.value = e.value /\ later.plugin = Key(e)[3]
        /\ later.confidence >= e.confidence
  BY <1>2, KeyKept
<1>6. e.type = d.type /\ e.value = d.value
  <2>1. Key(e)[1] = e.type /\ Key(e)[2] = e.value /\ Key(d)[1] = d.type /\ Key(d)[2] = d.value
    BY DEF Key
  <2> QED BY <1>4, <2>1
<1>7. ioc.type = d.type /\ ioc.value = d.value /\ ioc.plugin = Key(d)[3] /\ ioc.confidence = d.confidence
  BY <1>3 DEF Record
<1>8. later.confidence >= ioc.confidence
  <2>1. PICK x \in E : later.confidence = x.confidence
    BY DEF Deduplicated, Record
  <2>2. d.confidence \in 0..100 /\ e.confidence \in 0..100 /\ x.confidence \in 0..100
    BY <1>2 DEF Draftlike
  <2> DEFINE a == d.confidence
             b == e.confidence
             c == x.confidence
  <2>3. a \in 0..100 /\ b \in 0..100 /\ c \in 0..100
    BY <2>2
  <2>4. a <= b /\ c >= b
    BY <1>4, <1>5, <2>1
  <2>5. ioc.confidence = a /\ later.confidence = c
    BY <1>7, <2>1
  <2> HIDE DEF a, b, c
  <2> QED BY <2>3, <2>4, <2>5
<1>9. <<later.type, later.value, later.plugin>> = <<ioc.type, ioc.value, ioc.plugin>>
  BY <1>4, <1>5, <1>6, <1>7
<1> QED BY <1>8, <1>9 DEF Confirmed

\* One more row, unless it is pslist's, takes no indicator back and makes none less
\* confident, for any rules and metadata: rows keep the findings reported about them, and
\* a row that the extractor rates high without a finding is linked to none it did not
\* have before.
THEOREM EvidenceStaysExported == Spec => IndicatorsStay
<1>1. TypeOK /\ [Next]_vars
        => [\A r \in Row :
              (StoreRow(r) /\ r \notin Pslist)
                => AllConfirmed(Exported(artifacts), Exported(artifacts'))]_vars
  <2> SUFFICES ASSUME TypeOK, NEW r \in Row, StoreRow(r), r \notin Pslist
               PROVE  AllConfirmed(Exported(artifacts), Exported(artifacts'))
    OBVIOUS
  <2>1. PICK arts, more : arts = artifacts /\ more = artifacts'
    OBVIOUS
  <2>2. arts \in Tables
    BY <2>1 DEF TypeOK, Tables
  <2>3. more = [arts EXCEPT ![r.table] = Append(@, r)]
    BY <2>1 DEF StoreRow
  <2>4. more \in Tables
    BY <2>2, <2>3, AppendOK
  <2>5. Prolonged(arts, more)
    BY <2>2, <2>3, AppendProlongs
  <2>6. AllConfirmed(Exported(arts), Exported(more))
    BY <2>2, <2>4, <2>5, ExportConfirmed
  <2> QED BY <2>1, <2>6
<1> QED BY <1>1, RiskTypeCorrect, PTL DEF Spec, IndicatorsStay

-----------------------------------------------------------------------------
(* Roles and rows. *)

\* The roles of indicators.
Roles == {"threat_ioc", "investigation_artifact"}

\* The types whose indicators are artifacts whatever they say.
Artifacts == {"process_name", "pid", "file_path", "memory_region", "plugin_reference"}

\* The type of a draft says which part of the extractor made it, and, but for modules and
\* matches, what its role is.
LEMMA DraftForms ==
  ASSUME NEW arts, NEW findings, NEW d \in DraftsOf(arts, findings)
  PROVE  \/ d.type \in {"ip_address", "network_endpoint", "command_line"} /\ d.role = "threat_ioc"
         \/ d.type = "module_path" /\ d \in ModuleIocs(arts, findings)
         \/ d.type = "yara_rule" /\ d \in YaraIocs(arts, findings)
         \/ d.type \in Artifacts /\ d.role = "investigation_artifact"
<1>1. CASE d \in NetworkIocs(arts, findings)
  <2>1. PICK i, confidence : d \in NetworkDrafts(i, arts["network"][i], confidence)
    BY <1>1 DEF NetworkIocs
  <2> QED BY <2>1, ConnectionDrafts DEF Draft
<1>2. CASE d \in CommandIocs(arts, findings)
  BY <1>2 DEF CommandIocs, Draft
<1>3. CASE d \in ModuleIocs(arts, findings)
  <2>1. d.type = "module_path"
    BY <1>3 DEF ModuleIocs, Draft
  <2> QED BY <1>3, <2>1
<1>4. CASE d \in ProcessIocs(arts, findings)
  <2> DEFINE Name(i, sure) ==
               Draft(i, "process_name", "name", arts["process"][i].plugin, sure, "investigation_artifact")
             Pid(i, sure) ==
               Draft(i, "pid", "pid", arts["process"][i].plugin, sure, "investigation_artifact")
             Path(i, sure) ==
               Draft(i, "file_path", arts["process"][i].path, arts["process"][i].plugin, sure,
                     "investigation_artifact")
             Sure(i) == ConfidenceFor[WorstSeverity(On(findings, "process", i), "medium")]
             Of(i) == {Name(i, Sure(i))}
                        \cup (IF On(findings, "process", i) = {} THEN {}
                              ELSE {Pid(i, Min({Sure(i), 70}))})
                        \cup (IF arts["process"][i].path = "none" THEN {} ELSE {Path(i, Sure(i))})
  <2>1. \A i, sure :
          \A e \in {Name(i, sure), Pid(i, sure), Path(i, sure)} :
            e.type \in {"process_name", "pid", "file_path"} /\ e.role = "investigation_artifact"
    BY DEF Draft
  <2> HIDE DEF Name, Pid, Path
  <2>2. \A i : \A e \in Of(i) : \E sure : e \in {Name(i, sure), Pid(i, sure), Path(i, sure)}
    OBVIOUS
  <2>3. ProcessIocs(arts, findings)
          = UNION {Of(i) : i \in {k \in DOMAIN arts["process"] :
                                    NotedProcess(arts["process"][k], On(findings, "process", k))}}
    BY DEF ProcessIocs, Name, Pid, Path
  <2> HIDE DEF Of
  <2>4. PICK i : d \in Of(i)
    BY <1>4, <2>3
  <2> QED BY <2>1, <2>2, <2>4 DEF Artifacts
<1>5. CASE d \in YaraIocs(arts, findings)
  <2>1. PICK i \in DOMAIN arts["yara"] : \E sure :
          d = Draft(i, "yara_rule", arts["yara"][i].rule, arts["yara"][i].plugin, sure,
                    YaraRole(arts, arts["yara"][i].rule, On(findings, "yara", i)))
    BY <1>5 DEF YaraIocs
  <2>2. d.type = "yara_rule"
    BY <2>1 DEF Draft
  <2> QED BY <1>5, <2>2
<1>6. CASE d \in RegionIocs(arts, findings)
  <2>1. PICK i, sure :
          d = Draft(i, "memory_region", arts["memory_region"][i].range,
                    arts["memory_region"][i].plugin, sure, "investigation_artifact")
    BY <1>6 DEF RegionIocs
  <2> QED BY <2>1 DEF Draft, Artifacts
<1>7. CASE d \in PluginReferences(arts, findings)
  <2>1. PICK at, plugin, severity : d = Reference(at, plugin, severity)
    <3> HIDE DEF Reference
    <3> QED BY <1>7 DEF PluginReferences
  <2> QED BY <2>1 DEF Reference, Draft, Artifacts
<1> QED BY <1>1, <1>2, <1>3, <1>4, <1>5, <1>6, <1>7 DEF DraftsOf

\* A row of a table is one of the rows of its kind.
LEMMA RowsTyped ==
  ASSUME NEW arts \in Tables, NEW t \in Table, NEW i \in DOMAIN arts[t]
  PROVE  arts[t][i] \in RowsOf(t) /\ arts[t][i] \in Row /\ arts[t][i].table = t
<1>1. arts[t] \in Seq(Row) /\ arts[t][i].table = t
  BY DEF Tables
<1>2. arts[t][i] \in Row
  BY <1>1
<1> QED BY <1>1, <1>2 DEF RowsOf

\* A module that a finding is about has been dropped.
LEMMA FoundModules ==
  ASSUME NEW arts \in Tables, NEW i \in DOMAIN arts["module"], On(Reported(arts), "module", i) # {}
  PROVE  arts["module"][i] \in Dropped
<1>1. PICK f \in Reported(arts) : TableOf(f) = "module" /\ f.place[2] = i
  BY DEF On
<1>2. f \in Findings(arts) /\ f.place[1] = 9
  BY <1>1 DEF Reported, Told, TableOf
<1>3. ByRow(arts, 9, "module", Dropped, "path")
  BY RowRules
<1>4. PICK k \in Rows(arts, "module", Dropped) : f.place = <<9, k, 0>>
  BY <1>2, <1>3 DEF ByRow
<1>5. k = i
  BY <1>1, <1>4
<1> QED BY <1>4, <1>5 DEF Rows

-----------------------------------------------------------------------------
(* The order of rows and the export. *)

\* Rows change their places at most.
Moves(p, rows, others) ==
  /\ \A i \in DOMAIN rows : p[i] \in DOMAIN others /\ others[p[i]] = rows[i]
  /\ \A i, k \in DOMAIN rows : p[i] = p[k] => i = k
Rearranged(arts, other) == \A t \in Table : \E p : Moves(p, arts[t], other[t])

\* Two orders of the same rows, where no two plugins list what is reported once.
Shuffled(arts, other) ==
  /\ SameRows(arts, other) /\ SameRows(other, arts)
  /\ Rearranged(arts, other) /\ Rearranged(other, arts)
  /\ ~Ambiguous(arts) /\ ~Ambiguous(other)

LEMMA ShuffledBack ==
  ASSUME NEW arts, NEW other, Shuffled(arts, other)
  PROVE  Shuffled(other, arts)
BY DEF Shuffled

\* The same rows have as many plugins as they had.
LEMMA SourcesKept ==
  ASSUME NEW arts, NEW other, Included(arts, other), ~Ambiguous(other)
  PROVE  ~Ambiguous(arts)
<1> SUFFICES ASSUME NEW t \in Table, NEW wanted, NEW field, TwoSources(arts, t, wanted, field)
             PROVE  TwoSources(other, t, wanted, field)
  BY DEF Ambiguous, Table
<1>1. PICK i, k \in Rows(arts, t, wanted) :
        arts[t][i][field] = arts[t][k][field] /\ arts[t][i].plugin # arts[t][k].plugin
  BY DEF TwoSources
<1>2. \A j \in Rows(arts, t, wanted) : \E m \in Rows(other, t, wanted) : other[t][m] = arts[t][j]
  BY DEF Included, Rows
<1>3. PICK m \in Rows(other, t, wanted) : other[t][m] = arts[t][i]
  BY <1>2
<1>4. PICK n \in Rows(other, t, wanted) : other[t][n] = arts[t][k]
  BY <1>2
<1> QED BY <1>1, <1>3, <1>4 DEF TwoSources

\* Exchanging two rows does no more than that.
LEMMA SwapShuffles ==
  ASSUME NEW arts \in Tables, NEW t \in Table, NEW i \in 1..(Len(arts[t]) - 1), ~Ambiguous(arts)
  PROVE  Shuffled(arts, [arts EXCEPT ![t] = Swapped(@, i)])
<1> DEFINE other == [arts EXCEPT ![t] = Swapped(@, i)]
<1>1. SameRows(arts, other) /\ SameRows(other, arts)
  BY SwapKeepsRows
<1>2. ~Ambiguous(other)
  <2> HIDE DEF other
  <2> QED BY <1>1, SourcesKept DEF SameRows
<1>3. Rearranged(arts, other) /\ Rearranged(other, arts)
  <2> SUFFICES ASSUME NEW u \in Table
               PROVE  (\E p : Moves(p, arts[u], other[u])) /\ \E p : Moves(p, other[u], arts[u])
    BY DEF Rearranged
  <2>1. arts \in [Table -> Seq(Row)]
    BY DEF Tables
  <2>2. CASE u = t
    <3> DEFINE rows == arts[t]
               p == [k \in DOMAIN rows |-> IF k = i THEN i + 1 ELSE IF k = i + 1 THEN i ELSE k]
    <3>1. rows \in Seq(Row) /\ Len(rows) \in Nat /\ i \in 1..(Len(rows) - 1)
      BY <2>1
    <3>2. other[t] = Swapped(rows, i)
      BY <2>1
    <3> HIDE DEF rows
    <3>3. i \in DOMAIN rows /\ i + 1 \in DOMAIN rows /\ DOMAIN rows = 1..Len(rows)
      BY <3>1
    <3>4. \A k \in DOMAIN rows : /\ k = i => p[k] = i + 1
                                 /\ k = i + 1 => p[k] = i
                                 /\ k \notin {i, i + 1} => p[k] = k
      BY <3>1, <3>3
    <3>5. \A k \in DOMAIN rows : p[k] \in DOMAIN rows
      BY <3>3, <3>4
    <3>6. \A k, m \in DOMAIN rows : p[k] = p[m] => k = m
      BY <3>1, <3>3, <3>4
    <3>7. /\ DOMAIN Swapped(rows, i) = DOMAIN rows
          /\ Swapped(rows, i)[i] = rows[i + 1] /\ Swapped(rows, i)[i + 1] = rows[i]
          /\ \A k \in DOMAIN rows \ {i, i + 1} : Swapped(rows, i)[k] = rows[k]
      BY <3>1, <3>3 DEF Swapped
    <3>8. \A k \in DOMAIN rows : Swapped(rows, i)[p[k]] = rows[k] /\ rows[p[k]] = Swapped(rows, i)[k]
      BY <3>3, <3>4, <3>7
    <3> HIDE DEF p
    <3>9. Moves(p, rows, Swapped(rows, i)) /\ Moves(p, Swapped(rows, i), rows)
      BY <3>5, <3>6, <3>7, <3>8 DEF Moves
    <3> QED BY <2>2, <3>2, <3>9 DEF rows
  <2>3. CASE u # t
    <3> DEFINE rows == arts[u]
               p == [k \in DOMAIN rows |-> k]
    <3>1. other[u] = rows
      BY <2>1, <2>3
    <3>2. Moves(p, rows, rows)
      BY DEF Moves
    <3> HIDE DEF p
    <3> QED BY <3>1, <3>2
  <2> QED BY <2>2, <2>3
<1> HIDE DEF other
<1>4. Shuffled(arts, other)
  BY <1>1, <1>2, <1>3 DEF Shuffled
<1> QED BY <1>4 DEF other

\* What is reported of one order is reported of the other, of some row.
LEMMA ReportedEchoed ==
  ASSUME NEW arts \in Tables, NEW other \in Tables, SameRows(arts, other), SameRows(other, arts),
         NEW f \in Reported(arts)
  PROVE  \E e \in Reported(other) : Alike(f, e)
<1> DEFINE F == Findings(arts)
           G == Findings(other)
           Once == {3, 4, 5, 6, 8, 9, 11}
<1>1. Echoed(F, G) /\ Echoed(G, F)
  BY FindingsEchoed
<1>2. f \in F /\ (f.place[1] \in Once => f \in Unique(F))
  BY DEF Reported, Told, Unique
<1>3. CASE f.place[1] \in Once
  <2>1. Echoed(Unique(F), Unique(G))
    <3>1. Regular(F) /\ Regular(G)
      BY FindingsRegular
    <3> HIDE DEF F, G
    <3> QED BY <1>1, <3>1, UniqueEchoed
  <2>2. PICK e \in Unique(G) : Alike(f, e)
    BY <1>2, <1>3, <2>1 DEF Echoed
  <2> QED BY <2>2 DEF Unique, Reported, Told
<1>4. CASE f.place[1] \notin Once
  <2>1. PICK e \in G : Alike(f, e)
    BY <1>1, <1>2 DEF Echoed
  <2>2. e.place[1] \notin Once
    BY <1>4, <2>1 DEF Alike
  <2> QED BY <2>1, <2>2 DEF Reported, Told
<1> QED BY <1>3, <1>4

\* The confidence in a row, from the scores of what is found on it.
Sureness(scores, default) == ConfidenceFor[IF scores = {} THEN default ELSE Level(Max(scores))]
ScoresOn(findings, t, i) == {f.score : f \in On(findings, t, i)}

LEMMA SuretyOfScores ==
  \A findings, t, i, default : Surety(findings, t, i, default) = Sureness(ScoresOn(findings, t, i), default)
BY DEF Surety, WorstSeverity, Sureness, ScoresOn

\* Higher scores make surer, as far as the default allows.
LEMMA SurenessGrows ==
  ASSUME NEW S \in SUBSET (0..13), NEW T \in SUBSET (0..13), \A x \in S : \E y \in T : x <= y,
         NEW default \in Levels,
         (default \in {"low", "medium"} /\ T \subseteq 5..13) \/ (T # {} => S # {})
  PROVE  Sureness(S, default) <= Sureness(T, default)
<1> DEFINE then == Sureness(S, default)
           now  == Sureness(T, default)
<1>1. /\ S # {} => Max(S) \in S
      /\ T # {} => Max(T) \in T /\ \A y \in T : y <= Max(T)
  BY GreatestNumber
<1>2. CASE S # {}
  <2>1. PICK y \in T : Max(S) <= y
    BY <1>1, <1>2
  <2>2. T # {} /\ Max(T) \in T /\ y <= Max(T)
    BY <1>1, <2>1
  <2> DEFINE m == Max(S)
             n == Max(T)
  <2>3. m \in 0..13 /\ n \in 0..13 /\ y \in 0..13 /\ m <= y /\ y <= n
    BY <1>1, <1>2, <2>1, <2>2
  <2>4. then = ConfidenceFor[Level(m)] /\ now = ConfidenceFor[Level(n)]
    BY <1>2, <2>2 DEF Sureness
  <2> HIDE DEF m, n, then, now
  <2>5. ConfidenceFor[Level(m)] <= ConfidenceFor[Level(n)]
    <3>1. m <= n
      BY <2>3
    <3> QED BY <2>3, <3>1, ConfidenceGrows
  <2> QED BY <2>4, <2>5 DEF then, now
<1>3. CASE S = {} /\ T # {}
  <2> DEFINE n == Max(T)
  <2>1. default \in {"low", "medium"} /\ n \in 5..13
    BY <1>1, <1>3
  <2>2. then = ConfidenceFor[default] /\ now = ConfidenceFor[Level(n)]
    BY <1>3 DEF Sureness
  <2> HIDE DEF n, then, now
  <2>3. ConfidenceFor[default] <= ConfidenceFor[Level(n)]
    BY <2>1, ConfidenceGrows
  <2> QED BY <2>2, <2>3 DEF then, now
<1>4. CASE S = {} /\ T = {}
  <2>1. ConfidenceFor[default] \in 45..95
    BY ConfidenceRange
  <2>2. then = ConfidenceFor[default] /\ now = ConfidenceFor[default]
    BY <1>4 DEF Sureness
  <2> HIDE DEF then, now
  <2> QED BY <2>1, <2>2 DEF then, now
<1> QED BY <1>2, <1>3, <1>4

\* Scores of findings are in range, and those of rows are not low.
LEMMA ScoresRange ==
  ASSUME NEW arts \in Tables, NEW t, NEW i
  PROVE  /\ ScoresOn(Reported(arts), t, i) \in SUBSET (0..13)
         /\ t # "yara" => ScoresOn(Reported(arts), t, i) \subseteq 5..13
<1>1. \A f \in On(Reported(arts), t, i) : f \in Findings(arts) /\ TableOf(f) = t
  BY DEF On, Reported, Told
<1>2. \A f \in Findings(arts) : f.score \in 0..13
  BY FindingRange DEF Ranged
<1>3. t # "yara" => \A f \in On(Reported(arts), t, i) : f.score \in 5..13
  BY <1>1, RowScores
<1> QED BY <1>1, <1>2, <1>3 DEF ScoresOn

-----------------------------------------------------------------------------
(* What is found on a row wherever it is. *)

\* A rule that reports rows gives each the same score.
LEMMA ScoreOfRule ==
  ASSUME NEW arts \in Tables, NEW f \in Findings(arts), f.place[1] \in 1..13 \ {6, 7}
  PROVE  f.score = RuleScore[f.place[1]]
<1>1. RowFinding(f) \/ ModuleFinding(f) \/ MatchFinding(f, 7, HasRegions(arts)) \/ MatchFinding(f, 14, FALSE)
  BY FindingForm
<1>2. ~ModuleFinding(f)
  BY DEF ModuleFinding
<1>3. \A rank, c : MatchFinding(f, rank, c) => f.place[1] = rank
  BY DEF MatchFinding
<1>4. f.place[1] # 7 /\ f.place[1] # 14
  OBVIOUS
<1>5. RowFinding(f)
  BY <1>1, <1>2, <1>3, <1>4, Zenon
<1> QED BY <1>5 DEF RowFinding

\* The rows of a process that is hidden.
HiddenRows(arts) == IF Rows(arts, "process", Pslist) = {} THEN Psscan ELSE {}

LEMMA ProcessRules ==
  ASSUME NEW arts \in Tables
  PROVE  /\ ByRow(arts, 12, "process", OfficeChild, "path")
         /\ ByRow(arts, 13, "process", HiddenRows(arts), "path")
<1> DEFINE Of(rank, score, groups, i) ==
             Finding(<<rank, i, 0>>, arts["process"][i]["path"], score, groups, FALSE)
           A == Single(arts, 11, "process", Rows(arts, "process", WrongPath), "path", 8,
                       {"win_system_process_wrong_path"}, FALSE)
           B == {Of(12, 5, {"win_suspicious_parent_child"}, i) : i \in Rows(arts, "process", OfficeChild)}
           C == {Of(13, 8, {"win_psscan_only_process"}, i) : i \in Rows(arts, "process", HiddenRows(arts))}
<1>1. ProcessFindings(arts) = A \cup B \cup C
  <2>1. Hidden(arts) = Rows(arts, "process", HiddenRows(arts))
    BY DEF Hidden, HiddenRows, Rows
  <2> QED BY <2>1 DEF ProcessFindings, Single
<1>2. \A rank, score, groups, i :
        /\ Of(rank, score, groups, i).place = <<rank, i, 0>>
        /\ Of(rank, score, groups, i).key = <<rank, arts["process"][i]["path"]>>
  BY DEF Finding
<1>3. \A f \in A : f.place[1] = 11
  BY DEF Single, Finding
<1>4. ProcessFindings(arts) \subseteq Findings(arts)
      /\ \A f \in Findings(arts) : f.place[1] \in {12, 13} => f \in ProcessFindings(arts)
  BY RanksOfFindings DEF Findings
<1> HIDE DEF Of, A
<1>5. \A rank, score, groups, i : Of(rank, score, groups, i).place[1] = rank
  BY <1>2
<1>6. (\A f \in B : f.place[1] = 12) /\ \A f \in C : f.place[1] = 13
  BY <1>5
<1>7. \A f \in Findings(arts) : (f.place[1] = 12 => f \in B) /\ (f.place[1] = 13 => f \in C)
  <2> HIDE DEF B, C
  <2> QED BY <1>1, <1>3, <1>4, <1>6
<1>8. B \subseteq Findings(arts) /\ C \subseteq Findings(arts)
  <2> HIDE DEF B, C
  <2> QED BY <1>1, <1>4
<1>9. ByRow(arts, 12, "process", OfficeChild, "path")
  <2>1. \A f \in Findings(arts) : f.place[1] = 12 => f \in B
    BY <1>7
  <2>2. B \subseteq Findings(arts)
    BY <1>8
  <2> HIDE DEF C
  <2> QED BY <1>2, <2>1, <2>2 DEF ByRow
<1>10. ByRow(arts, 13, "process", HiddenRows(arts), "path")
  <2>1. \A f \in Findings(arts) : f.place[1] = 13 => f \in C
    BY <1>7
  <2>2. C \subseteq Findings(arts)
    BY <1>8
  <2> HIDE DEF B
  <2> QED BY <1>2, <2>1, <2>2 DEF ByRow
<1> QED BY <1>9, <1>10

\* Rules that report every row do so wherever it is.
LEMMA RowFound ==
  ASSUME NEW arts \in Tables, NEW other \in Tables, SameRows(arts, other), SameRows(other, arts),
         NEW f \in Reported(arts), f.place[1] \in {1, 2, 10, 12, 13},
         NEW k \in DOMAIN other[TableOf(f)], other[TableOf(f)][k] = arts[TableOf(f)][f.place[2]]
  PROVE  \E e \in On(Reported(other), TableOf(f), k) : e.place[1] = f.place[1] /\ e.score = f.score
<1> DEFINE rank == f.place[1]
           t == TableOf(f)
           i == f.place[2]
<1>1. f \in Findings(arts)
  BY DEF Reported, Told
<1>2. PICK wanted, field : /\ ByRow(arts, rank, t, wanted, field) /\ ByRow(other, rank, t, wanted, field)
  <2>1. HiddenRows(arts) = HiddenRows(other)
    <3>1. Rows(arts, "process", Pslist) = {} <=> Rows(other, "process", Pslist) = {}
      BY DEF SameRows, Included, Rows, Table
    <3> QED BY <3>1 DEF HiddenRows
  <2>2. CASE rank = 1
    <3>1. t = "command"
      BY <2>2 DEF TableOf
    <3> QED BY <2>2, <3>1, RowRules
  <2>3. CASE rank = 2
    <3>1. t = "command"
      BY <2>3 DEF TableOf
    <3> QED BY <2>3, <3>1, RowRules
  <2>4. CASE rank = 10
    <3>1. t = "network"
      BY <2>4 DEF TableOf
    <3> QED BY <2>4, <3>1, RowRules
  <2>5. CASE rank = 12
    <3>1. t = "process"
      BY <2>5 DEF TableOf
    <3> QED BY <2>5, <3>1, ProcessRules
  <2>6. CASE rank = 13
    <3>1. t = "process"
      BY <2>6 DEF TableOf
    <3> QED BY <2>1, <2>6, <3>1, ProcessRules
  <2> QED BY <2>2, <2>3, <2>4, <2>5, <2>6
<1>3. PICK j \in Rows(arts, t, wanted) : f.place = <<rank, j, 0>>
  BY <1>1, <1>2 DEF ByRow
<1>4. j = i
  BY <1>3
<1>5. k \in Rows(other, t, wanted)
  BY <1>3, <1>4 DEF Rows
<1>6. PICK e \in Findings(other) : e.place = <<rank, k, 0>>
  BY <1>2, <1>5 DEF ByRow
<1>7. e.place[1] = rank /\ e.place[2] = k
  BY <1>6
<1>8. e \in Reported(other)
  BY <1>7 DEF Reported, Told
<1>9. TableOf(e) = t
  BY <1>7 DEF TableOf
<1>10. f.score = RuleScore[rank] /\ e.score = RuleScore[rank]
  BY <1>1, <1>7, ScoreOfRule
<1> QED BY <1>7, <1>8, <1>9, <1>10 DEF On

\* So what is found on a command or a connection depends on the row alone.
LEMMA ScoresMoved ==
  ASSUME NEW arts \in Tables, NEW other \in Tables, SameRows(arts, other), SameRows(other, arts),
         NEW t \in {"command", "network"}, NEW i \in DOMAIN arts[t], NEW k \in DOMAIN other[t],
         other[t][k] = arts[t][i]
  PROVE  /\ ScoresOn(Reported(arts), t, i) = ScoresOn(Reported(other), t, k)
         /\ On(Reported(arts), t, i) # {} <=> On(Reported(other), t, k) # {}
<1>1. ASSUME NEW a \in Tables, NEW b \in Tables, SameRows(a, b), SameRows(b, a),
             NEW m \in DOMAIN a[t], NEW n \in DOMAIN b[t], b[t][n] = a[t][m],
             NEW f \in On(Reported(a), t, m)
      PROVE  \E e \in On(Reported(b), t, n) : e.score = f.score
  <2>1. f \in Reported(a) /\ TableOf(f) = t /\ f.place[2] = m
    BY DEF On
  <2>2. f.place[1] \in {1, 2, 10, 12, 13}
    <3>1. f.place[1] \in 1..14
      BY <2>1, FindingRange DEF Ranged, Reported, Told
    <3> QED BY <2>1, <3>1 DEF TableOf
  <2> QED BY <1>1, <2>1, <2>2, RowFound
<1>2. ScoresOn(Reported(arts), t, i) \subseteq ScoresOn(Reported(other), t, k)
  BY <1>1 DEF ScoresOn
<1>3. ScoresOn(Reported(other), t, k) \subseteq ScoresOn(Reported(arts), t, i)
  BY <1>1 DEF ScoresOn
<1> QED BY <1>2, <1>3 DEF ScoresOn

-----------------------------------------------------------------------------
(* Each extractor's drafts are confirmed in another order of the rows. *)

\* A connection's, by those of the same row.
LEMMA NetworkKept ==
  ASSUME NEW arts \in Tables, NEW other \in Tables, Shuffled(arts, other)
  PROVE  DraftsConfirmed(NetworkIocs(arts, Reported(arts)), NetworkIocs(other, Reported(other)))
<1> SUFFICES ASSUME NEW d \in NetworkIocs(arts, Reported(arts))
             PROVE  \E e \in NetworkIocs(other, Reported(other)) : Confirms(e, d)
  BY DEF DraftsConfirmed
<1> DEFINE F == Reported(arts)
           G == Reported(other)
           Pair(i, row, sure) == NetworkDrafts(i, row, sure)
           High(findings, i) == Surety(findings, "network", i, "medium")
           Low(findings, i)  == Lower(Surety(findings, "network", i, "low"), 40)
<1>1. PICK i \in DOMAIN arts["network"] :
        \/ arts["network"][i] \in Public /\ d \in Pair(i, arts["network"][i], High(F, i))
        \/ /\ arts["network"][i] \notin Public /\ On(F, "network", i) # {}
           /\ d \in Pair(i, arts["network"][i], Low(F, i))
  BY NetworkForm
<1>2. PICK k \in DOMAIN other["network"] : other["network"][k] = arts["network"][i]
  BY DEF Shuffled, SameRows, Included, Table
<1>3. /\ ScoresOn(F, "network", i) = ScoresOn(G, "network", k)
      /\ On(F, "network", i) # {} <=> On(G, "network", k) # {}
  BY <1>2, ScoresMoved DEF Shuffled
<1>4. High(F, i) = High(G, k) /\ Low(F, i) = Low(G, k)
  BY <1>3, SuretyOfScores
<1>5. \A c \in Int : d \in Pair(i, arts["network"][i], c)
        => \E e \in Pair(k, arts["network"][i], c) : Confirms(e, d)
  BY SameKey DEF NetworkDrafts
<1>6. /\ other["network"][k] \in Public
           => Pair(k, other["network"][k], High(G, k)) \subseteq NetworkIocs(other, G)
      /\ other["network"][k] \notin Public /\ On(G, "network", k) # {}
           => Pair(k, other["network"][k], Low(G, k)) \subseteq NetworkIocs(other, G)
  BY NetworkForm
<1>7. High(G, k) \in Int /\ Low(G, k) \in Int
  <2>1. /\ Surety(G, "network", k, "medium") \in 45..95 /\ Surety(G, "network", k, "low") \in 45..95
        /\ 40 \in 40..70
    BY SuretyRange DEF Levels
  <2> DEFINE c == Surety(G, "network", k, "low")
  <2>2. Lower(c, 40) = IF c <= 40 THEN c ELSE 40
    BY <2>1, ConfidenceRange, Zenon
  <2> HIDE DEF c
  <2> QED BY <2>1, <2>2 DEF c
<1> HIDE DEF Pair, F, G, High, Low
<1> QED BY <1>1, <1>2, <1>3, <1>4, <1>5, <1>6, <1>7 DEF F, G

LEMMA CommandKept ==
  ASSUME NEW arts \in Tables, NEW other \in Tables, Shuffled(arts, other)
  PROVE  DraftsConfirmed(CommandIocs(arts, Reported(arts)), CommandIocs(other, Reported(other)))
<1> DEFINE Default(row) == IF row \in ListedCommand THEN "high" ELSE "medium"
           Sure(tables, k) == Surety(Reported(tables), "command", k, Default(tables["command"][k]))
           Of(tables, k) == Draft(k, "command_line", tables["command"][k].text, "command",
                                  Sure(tables, k), "threat_ioc")
           Noted(tables) == {k \in DOMAIN tables["command"] :
                               \/ tables["command"][k] \in ListedCommand
                               \/ On(Reported(tables), "command", k) # {}}
<1>1. \A tables : CommandIocs(tables, Reported(tables)) = {Of(tables, k) : k \in Noted(tables)}
  BY DEF CommandIocs, Surety
<1>2. ASSUME NEW i \in Noted(arts)
      PROVE  \E k \in Noted(other) : Confirms(Of(other, k), Of(arts, i))
  <2>1. PICK k \in DOMAIN other["command"] : other["command"][k] = arts["command"][i]
    BY DEF Shuffled, SameRows, Included, Table
  <2>2. /\ ScoresOn(Reported(arts), "command", i) = ScoresOn(Reported(other), "command", k)
        /\ On(Reported(arts), "command", i) # {} <=> On(Reported(other), "command", k) # {}
    BY <2>1, ScoresMoved DEF Shuffled
  <2>3. k \in Noted(other)
    BY <2>1, <2>2
  <2>4. Sure(arts, i) = Sure(other, k)
    BY <2>1, <2>2, SuretyOfScores
  <2>5. Sure(other, k) <= Sure(other, k)
    <3>1. Default(other["command"][k]) \in Levels
      BY DEF Levels
    <3>2. Sure(other, k) \in 45..95
      <4> HIDE DEF Default
      <4> QED BY <3>1, SuretyRange
    <3> HIDE DEF Sure
    <3> QED BY <3>2
  <2>6. Confirms(Of(other, k), Of(arts, i))
    <3> HIDE DEF Sure
    <3> QED BY <2>1, <2>4, <2>5, SameKey
  <2> QED BY <2>3, <2>6
<1> HIDE DEF Of, Noted
<1> QED BY <1>1, <1>2 DEF DraftsConfirmed

\* A module's draft depends on its row alone.
LEMMA ModuleKept ==
  ASSUME NEW arts \in Tables, NEW other \in Tables, Shuffled(arts, other)
  PROVE  DraftsConfirmed(ModuleIocs(arts, Reported(arts)), ModuleIocs(other, Reported(other)))
<1> DEFINE Sure(tables, k) == Surety(Reported(tables), "module", k, "medium")
           Role(row) == IF row \in Microsoft THEN "investigation_artifact" ELSE "threat_ioc"
           Of(tables, k) == Draft(k, "module_path", tables["module"][k].path, "module",
                                  Sure(tables, k), Role(tables["module"][k]))
           Noted(tables) == {k \in DOMAIN tables["module"] :
                               \/ On(Reported(tables), "module", k) # {}
                               \/ tables["module"][k] \in ListedModule \ Microsoft}
<1>1. \A tables : ModuleIocs(tables, Reported(tables)) = {Of(tables, k) : k \in Noted(tables)}
  BY DEF ModuleIocs, Surety
<1>2. ASSUME NEW tables \in Tables, NEW k \in Noted(tables)
      PROVE  tables["module"][k] \in ListedModule \ Microsoft /\ Sure(tables, k) = 65
  <2>1. Dropped \subseteq ListedModule \ Microsoft
    BY DEF Dropped, ListedModule
  <2>2. Sure(tables, k) = 65
    <3> DEFINE S == ScoresOn(Reported(tables), "module", k)
    <3>1. \A f \in On(Reported(tables), "module", k) : f.score = 5
      <4> SUFFICES ASSUME NEW f \in On(Reported(tables), "module", k) PROVE f.score = 5
        OBVIOUS
      <4>1. f \in Findings(tables) /\ f.place[1] = 9
        BY DEF On, Reported, Told, TableOf
      <4>2. f.score = RuleScore[9]
        BY <4>1, ScoreOfRule
      <4> QED BY <4>2, RuleTable
    <3>2. S = {} \/ S = {5}
      BY <3>1 DEF ScoresOn
    <3>3. Sure(tables, k) = Sureness(S, "medium")
      BY SuretyOfScores
    <3>4. Max({5}) = 5
      <4>1. Max({5}) \in {5}
        BY DEF Max
      <4> QED BY <4>1
    <3>5. Sureness({}, "medium") = 65 /\ Sureness({5}, "medium") = 65
      BY <3>4 DEF Sureness, ConfidenceFor, Level
    <3> HIDE DEF S, Sure
    <3> QED BY <3>2, <3>3, <3>5
  <2> QED BY <2>1, <2>2, FoundModules
<1>3. ASSUME NEW i \in Noted(arts)
      PROVE  \E k \in Noted(other) : Confirms(Of(other, k), Of(arts, i))
  <2>1. PICK k \in DOMAIN other["module"] : other["module"][k] = arts["module"][i]
    BY DEF Shuffled, SameRows, Included, Table
  <2>2. k \in Noted(other)
    BY <1>2, <2>1
  <2>3. Sure(arts, i) = 65 /\ Sure(other, k) = 65
    BY <1>2, <2>2
  <2>4. Confirms(Of(other, k), Of(arts, i))
    <3> HIDE DEF Sure, Role
    <3> QED BY <2>1, <2>3, SameKey
  <2> QED BY <2>2, <2>4
<1> HIDE DEF Of, Noted
<1> QED BY <1>1, <1>3 DEF DraftsConfirmed

\* The key of a finding about a match names the rule and the plugin of the row.
LEMMA MatchKey ==
  ASSUME NEW arts \in Tables, NEW f \in Findings(arts), f.place[1] \in {7, 14}
  PROVE  /\ f.place[2] \in DOMAIN arts["yara"]
         /\ f.key = <<0, <<arts["yara"][f.place[2]].rule, arts["yara"][f.place[2]].plugin>>>>
         /\ f.place[1] = 7 => f.place[2] \in Representatives(arts, MemoryMatches(arts))
<1>1. ASSUME NEW matches \in SUBSET (DOMAIN arts["yara"]), NEW c,
             f \in YaraFindings(arts, f.place[1], matches, c)
      PROVE  /\ f.place[2] \in Representatives(arts, matches) /\ f.place[2] \in DOMAIN arts["yara"]
             /\ f.key = <<0, <<arts["yara"][f.place[2]].rule, arts["yara"][f.place[2]].plugin>>>>
  <2>1. PICK j \in Representatives(arts, matches) : f = YaraFinding(arts["yara"][j], f.place[1], j, c)
    BY <1>1, YaraForm
  <2>2. f.place[2] = j /\ f.key = <<0, <<arts["yara"][j].rule, arts["yara"][j].plugin>>>>
    BY <2>1 DEF YaraFinding
  <2> QED BY <2>2 DEF Representatives
<1>2. MemoryMatches(arts) \in SUBSET (DOMAIN arts["yara"])
      /\ ProcessMatches(arts) \in SUBSET (DOMAIN arts["yara"])
  BY DEF MemoryMatches, ProcessMatches
<1>3. CASE f.place[1] = 7
  BY <1>1, <1>2, <1>3, RanksOfFindings
<1>4. CASE f.place[1] = 14
  BY <1>1, <1>2, <1>4, RanksOfFindings
<1> QED BY <1>3, <1>4

\* So alike findings are about matches of one rule and plugin.
LEMMA SameMatch ==
  ASSUME NEW arts \in Tables, NEW other \in Tables, NEW f \in Findings(arts),
         NEW e \in Findings(other), Alike(f, e), f.place[1] \in {7, 14}
  PROVE  /\ e.place[2] \in DOMAIN other["yara"]
         /\ other["yara"][e.place[2]].rule = arts["yara"][f.place[2]].rule
         /\ other["yara"][e.place[2]].plugin = arts["yara"][f.place[2]].plugin
<1> DEFINE r == arts["yara"][f.place[2]].rule
           p == arts["yara"][f.place[2]].plugin
           s == other["yara"][e.place[2]].rule
           q == other["yara"][e.place[2]].plugin
<1>1. e.place[1] \in {7, 14} /\ e.key = f.key
  BY DEF Alike
<1>2. f.key = <<0, <<r, p>>>>
  BY MatchKey
<1>3. e.key = <<0, <<s, q>>>> /\ e.place[2] \in DOMAIN other["yara"]
  BY <1>1, MatchKey
<1> HIDE DEF r, p, s, q
<1>4. <<0, <<r, p>>>> = <<0, <<s, q>>>>
  BY <1>1, <1>2, <1>3, Zenon
<1>5. r = s /\ p = q
  BY <1>4
<1> QED BY <1>3, <1>5 DEF r, p, s, q

\* A match is drafted as a threat, for its place in the reports, wherever the first of
\* its rule and plugin is.
LEMMA MatchesKept ==
  ASSUME NEW arts \in Tables, NEW other \in Tables, Shuffled(arts, other)
  PROVE  DraftsConfirmed(YaraIocs(arts, Reported(arts)), YaraIocs(other, Reported(other)))
<1> DEFINE Declared(rule) == IF Metadata[rule].severity = "none" THEN "high" ELSE Metadata[rule].severity
           Sure(rule) == ConfidenceFor[Declared(rule)]
           Role(tables, k) == YaraRole(tables, tables["yara"][k].rule, On(Reported(tables), "yara", k))
           Held(tables, k) == IF Role(tables, k) = "threat_ioc" THEN Sure(tables["yara"][k].rule)
                              ELSE Lower(Sure(tables["yara"][k].rule), 55)
           Of(tables, k) == Draft(k, "yara_rule", tables["yara"][k].rule, tables["yara"][k].plugin,
                                  Held(tables, k), Role(tables, k))
<1>1. \A tables : YaraIocs(tables, Reported(tables)) = {Of(tables, k) : k \in DOMAIN tables["yara"]}
  BY DEF YaraIocs, Lower
<1>2. ASSUME NEW i \in DOMAIN arts["yara"]
      PROVE  \E k \in DOMAIN other["yara"] : Confirms(Of(other, k), Of(arts, i))
  <2> DEFINE rule == arts["yara"][i].rule
  <2>1. Sure(rule) \in 45..95
    <3>1. Metadata[rule].severity \in {"none"} \cup Levels
      BY MatchMetadata DEF YaraMetadata, Levels
    <3>2. Declared(rule) \in Levels
      BY <3>1 DEF Levels
    <3> HIDE DEF Declared, rule
    <3> QED BY <3>2, ConfidenceRange
  <2> DEFINE c == Sure(rule)
  <2>2. Lower(c, 55) <= c /\ Lower(c, 55) <= Lower(c, 55) /\ c <= c
    <3>1. 55 \in 40..70
      OBVIOUS
    <3>2. c \in 45..95
      BY <2>1
    <3> HIDE DEF c
    <3>3. Lower(c, 55) = IF c <= 55 THEN c ELSE 55
      BY <3>1, <3>2, ConfidenceRange, Zenon
    <3> QED BY <3>2, <3>3
  <2>3. ASSUME NEW k \in DOMAIN other["yara"], other["yara"][k].rule = rule,
               other["yara"][k].plugin = arts["yara"][i].plugin,
               Role(arts, i) = "threat_ioc" => Role(other, k) = "threat_ioc"
        PROVE  Confirms(Of(other, k), Of(arts, i))
    <3>1. /\ Held(arts, i) = IF Role(arts, i) = "threat_ioc" THEN c ELSE Lower(c, 55)
          /\ Held(other, k) = IF Role(other, k) = "threat_ioc" THEN c ELSE Lower(c, 55)
      BY <2>3
    <3>2. Held(arts, i) <= Held(other, k)
      <4> HIDE DEF c, Held, Role
      <4> QED BY <2>2, <2>3, <3>1
    <3> HIDE DEF Held, Role
    <3> QED BY <2>3, <3>2, SameKey
  <2>4. CASE Role(arts, i) = "threat_ioc"
    <3>1. rule \in MalwareRule \ ForeignRule /\ HasRegions(arts)
      BY <2>4 DEF YaraRole, Correlated
    <3>2. PICK f \in On(Reported(arts), "yara", i) : f.place[1] = 7
      BY <2>4 DEF YaraRole, Correlated
    <3>3. f \in Reported(arts) /\ f.place[2] = i
      BY <3>2 DEF On
    <3>4. PICK e \in Reported(other) : Alike(f, e)
      BY <3>3, ReportedEchoed DEF Shuffled
    <3>5. e.place[1] = 7 /\ f \in Findings(arts) /\ e \in Findings(other)
      BY <3>2, <3>3, <3>4 DEF Alike, Reported, Told
    <3> DEFINE k == e.place[2]
    <3>6. /\ k \in DOMAIN other["yara"] /\ other["yara"][k].rule = rule
          /\ other["yara"][k].plugin = arts["yara"][i].plugin
      BY <3>2, <3>3, <3>4, <3>5, SameMatch
    <3>7. e \in On(Reported(other), "yara", k)
      BY <3>4, <3>5 DEF On, TableOf
    <3> HIDE DEF k
    <3>8. HasRegions(other)
      BY <3>1 DEF HasRegions, Shuffled, SameRows, Table
    <3>9. Role(other, k) = "threat_ioc"
      BY <3>1, <3>5, <3>6, <3>7, <3>8 DEF YaraRole, Correlated
    <3> HIDE DEF Of, Role
    <3> QED BY <2>3, <3>6, <3>9
  <2>5. CASE Role(arts, i) # "threat_ioc"
    <3>1. PICK k \in DOMAIN other["yara"] : other["yara"][k] = arts["yara"][i]
      BY DEF Shuffled, SameRows, Included, Table
    <3> HIDE DEF Of, Role
    <3> QED BY <2>3, <2>5, <3>1
  <2> QED BY <2>4, <2>5, Zenon
<1> HIDE DEF Of
<1> QED BY <1>1, <1>2 DEF DraftsConfirmed

-----------------------------------------------------------------------------
(* Regions and paths that are reported once. *)

\* The range in the key of a finding about a region.
RangeOf(f) == IF f.place[1] \in {3, 8} THEN f.key[2] ELSE f.key[2][1]
FirstOfRange(arts, i) ==
  /\ i \in Rows(arts, "memory_region", Suspicious)
  /\ \A j \in Rows(arts, "memory_region", Suspicious) :
       arts["memory_region"][j].range = arts["memory_region"][i].range => i <= j

\* The first suspicious row of a range stands for it in all reports, unless two plugins
\* list the range.
LEMMA FoundFirst ==
  ASSUME NEW arts \in Tables, ~Ambiguous(arts),
         NEW f \in Reported(arts), TableOf(f) = "memory_region"
  PROVE  FirstOfRange(arts, f.place[2]) /\ RangeOf(f) = arts["memory_region"][f.place[2]].range
<1> DEFINE i == f.place[2]
           rank == f.place[1]
           At(k) == arts["memory_region"][k]
           Regions == Rows(arts, "memory_region", Suspicious)
<1>1. f \in Findings(arts) /\ rank \in {3, 4, 5, 6, 8}
  <2>1. f \in Findings(arts) /\ rank \in 1..14
    BY FindingRange DEF Ranged, Reported, Told
  <2> QED BY <2>1 DEF TableOf
<1>2. \A h \in Findings(arts) : Before(h, f) => h.key # f.key
  BY <1>1 DEF Reported, Told
<1>3. i \in Nat /\ Regions \subseteq Nat
  <2>1. Regions \subseteq Nat
    BY DEF Rows, Tables, Table
  <2>2. f.place \in Place
    BY <1>1, FindingPlaces
  <2> QED BY <2>1, <2>2 DEF Place
<1>4. CASE rank \in {3, 8}
  <2>1. ByRow(arts, rank, "memory_region", Malfind, "range")
    BY <1>4, RowRules
  <2>2. PICK k \in Rows(arts, "memory_region", Malfind) :
          f.place = <<rank, k, 0>> /\ f.key = <<rank, At(k).range>>
    BY <1>1, <2>1 DEF ByRow
  <2>3. k = i
    BY <2>2
  <2>4. i \in Regions /\ At(i).plugin = "windows.malfind"
    BY <2>2, <2>3 DEF Rows, Malfind
  <2>5. RangeOf(f) = At(i).range
    BY <1>4, <2>2, <2>3 DEF RangeOf
  <2>6. ASSUME NEW j \in Regions, At(j).range = At(i).range, j < i
        PROVE  FALSE
    <3>1. At(j).plugin = "windows.malfind"
      BY <2>4, <2>6 DEF Ambiguous, TwoSources
    <3>2. j \in Rows(arts, "memory_region", Malfind)
      BY <3>1 DEF Rows, Malfind
    <3>3. PICK h \in Findings(arts) : h.place = <<rank, j, 0>> /\ h.key = <<rank, At(j).range>>
      BY <2>1, <3>2 DEF ByRow
    <3>4. h.key = f.key
      BY <2>2, <2>3, <2>6, <3>3
    <3>5. Before(h, f)
      BY <2>6, <3>3 DEF Before
    <3> QED BY <1>2, <3>4, <3>5
  <2> QED BY <1>3, <2>4, <2>5, <2>6 DEF FirstOfRange
<1>5. CASE rank \in {4, 5, 6}
  <2>1. PICK table, wanted, field : ByPair(arts, rank, table, wanted, field)
    BY <1>5, PairRules
  <2>2. PICK k \in Regions, m \in Rows(arts, table, wanted) :
          f.place = <<rank, k, m>> /\ f.key = PairKey(arts, rank, k, table, m, field)
    BY <1>1, <2>1 DEF ByPair
  <2>3. k = i
    BY <2>2
  <2>4. RangeOf(f) = At(i).range
    BY <1>5, <2>2, <2>3 DEF RangeOf, PairKey
  <2>5. ASSUME NEW j \in Regions, At(j).range = At(i).range, j < i
        PROVE  FALSE
    <3>1. PICK h \in Findings(arts) :
            h.place = <<rank, j, m>> /\ h.key = PairKey(arts, rank, j, table, m, field)
      BY <2>1 DEF ByPair
    <3>2. h.key = f.key
      BY <2>2, <2>3, <2>5, <3>1 DEF PairKey
    <3>3. Before(h, f)
      BY <2>5, <3>1 DEF Before
    <3> QED BY <1>2, <3>2, <3>3
  <2> QED BY <1>3, <2>2, <2>3, <2>4, <2>5 DEF FirstOfRange
<1> QED BY <1>1, <1>4, <1>5

\* A malfind row that comes first is in the report.
LEMMA FirstFound ==
  ASSUME NEW arts \in Tables, NEW i, FirstOfRange(arts, i), MalfindRow(arts["memory_region"][i])
  PROVE  On(Reported(arts), "memory_region", i) # {}
<1> DEFINE At(k) == arts["memory_region"][k]
<1>1. i \in Rows(arts, "memory_region", Malfind) /\ i \in Nat
  BY DEF FirstOfRange, Rows, Malfind, MalfindRow, Tables, Table
<1>2. ByRow(arts, 3, "memory_region", Malfind, "range")
  BY RowRules
<1>3. PICK f \in Findings(arts) : f.place = <<3, i, 0>> /\ f.key = <<3, At(i).range>>
  BY <1>1, <1>2 DEF ByRow
<1>4. f.place[1] = 3 /\ f.place[2] = i /\ TableOf(f) = "memory_region"
  BY <1>3 DEF TableOf
<1>5. ASSUME NEW g \in Findings(arts), Before(g, f), g.key = f.key
      PROVE  FALSE
  <2>1. g.place[1] = 3
    <3>1. g.key[1] = 3
      BY <1>3, <1>5
    <3> QED BY <3>1, FindingRange DEF Ranged
  <2>2. PICK j \in Rows(arts, "memory_region", Malfind) :
          g.place = <<3, j, 0>> /\ g.key = <<3, At(j).range>>
    BY <1>2, <2>1 DEF ByRow
  <2>3. j \in Nat /\ j < i
    <3>1. j \in Nat
      BY DEF Tables, Table, Rows
    <3> QED BY <1>1, <1>3, <1>5, <2>2, <3>1 DEF Before
  <2>4. At(j).range = At(i).range
    <3> DEFINE a == At(j).range
               b == At(i).range
    <3>1. <<3, a>> = <<3, b>>
      BY <1>3, <1>5, <2>2
    <3> HIDE DEF a, b
    <3>2. a = b
      BY <3>1
    <3> QED BY <3>2 DEF a, b
  <2>5. j \in Rows(arts, "memory_region", Suspicious)
    BY DEF Rows, Malfind
  <2>6. i <= j
    BY <2>4, <2>5 DEF FirstOfRange
  <2> QED BY <1>1, <2>3, <2>6
<1>6. f \in Reported(arts)
  BY <1>5 DEF Reported, Told
<1> QED BY <1>4, <1>6 DEF On

\* What is found on a region is found on the row that stands for it in the other order.
LEMMA RegionMoved ==
  ASSUME NEW arts \in Tables, NEW other \in Tables, Shuffled(arts, other),
         NEW i \in DOMAIN arts["memory_region"], On(Reported(arts), "memory_region", i) # {}
  PROVE  \E k \in DOMAIN other["memory_region"] :
           /\ other["memory_region"][k].range = arts["memory_region"][i].range
           /\ other["memory_region"][k].plugin = arts["memory_region"][i].plugin
           /\ arts["memory_region"][i].plugin \notin VadContextPlugins
           /\ \A f \in On(Reported(arts), "memory_region", i) :
                \E e \in On(Reported(other), "memory_region", k) : f.score = e.score
<1> DEFINE F == On(Reported(arts), "memory_region", i)
           G(k) == On(Reported(other), "memory_region", k)
           At(k) == arts["memory_region"][k]
           There(k) == other["memory_region"][k]
<1>1. ASSUME NEW f \in F
      PROVE  \E e \in Reported(other) :
               /\ e \in G(e.place[2]) /\ f.score = e.score
               /\ FirstOfRange(other, e.place[2]) /\ There(e.place[2]).range = At(i).range
  <2>1. f \in Reported(arts) /\ TableOf(f) = "memory_region" /\ f.place[2] = i
    BY DEF On
  <2>2. PICK e \in Reported(other) : Alike(f, e)
    BY <2>1, ReportedEchoed DEF Shuffled
  <2>3. TableOf(e) = "memory_region" /\ RangeOf(e) = RangeOf(f) /\ f.score = e.score
    BY <2>1, <2>2 DEF Alike, TableOf, RangeOf
  <2>4. RangeOf(f) = At(i).range
    BY <2>1, FoundFirst DEF Shuffled
  <2>5. FirstOfRange(other, e.place[2]) /\ RangeOf(e) = There(e.place[2]).range
    BY <2>3, FoundFirst DEF Shuffled
  <2>6. e \in G(e.place[2])
    BY <2>3 DEF On
  <2> QED BY <2>3, <2>4, <2>5, <2>6
<1>2. PICK g \in F : TRUE
  OBVIOUS
<1>3. PICK e \in Reported(other) : FirstOfRange(other, e.place[2]) /\ There(e.place[2]).range = At(i).range
  BY <1>1, <1>2
<1> DEFINE k == e.place[2]
<1>4. i \in Rows(arts, "memory_region", Suspicious)
  BY <1>2, FoundFirst DEF On, Shuffled, FirstOfRange
<1>5. PICK m \in DOMAIN other["memory_region"] : There(m) = At(i)
  BY DEF Shuffled, SameRows, Included, Table
<1>6. m \in Rows(other, "memory_region", Suspicious)
  BY <1>4, <1>5 DEF Rows
<1>7. k \in Rows(other, "memory_region", Suspicious)
  BY <1>3 DEF FirstOfRange
<1>8. There(k).plugin = At(i).plugin
  BY <1>3, <1>5, <1>6, <1>7 DEF Shuffled, Ambiguous, TwoSources
<1>9. At(i).plugin \notin VadContextPlugins
  BY <1>4 DEF Rows, Suspicious
<1>10. ASSUME NEW f \in F PROVE \E h \in G(k) : f.score = h.score
  <2>1. PICK h \in Reported(other) :
          /\ h \in G(h.place[2]) /\ f.score = h.score
          /\ FirstOfRange(other, h.place[2]) /\ There(h.place[2]).range = At(i).range
    BY <1>1
  <2>2. h.place[2] = k
    <3> DEFINE Regions == Rows(other, "memory_region", Suspicious)
               j == h.place[2]
    <3>1. j \in Regions /\ k \in Regions /\ j <= k /\ k <= j
      BY <1>3, <2>1 DEF FirstOfRange
    <3>2. Regions \subseteq Nat
      BY DEF Rows, Tables, Table
    <3> HIDE DEF Regions, j, k
    <3>3. j = k
      BY <3>1, <3>2
    <3> QED BY <3>3 DEF j
  <2> QED BY <2>1, <2>2
<1>11. k \in DOMAIN other["memory_region"]
  BY <1>7 DEF Rows
<1> HIDE DEF k, F, G
<1>12. /\ There(k).range = At(i).range /\ There(k).plugin = At(i).plugin
       /\ At(i).plugin \notin VadContextPlugins
  BY <1>3, <1>8, <1>9 DEF k
<1> QED BY <1>10, <1>11, <1>12 DEF F, G

\* Of malfind rows that nothing is found on there are as many as before: where one
\* comes to stand for its range, another one steps back.
LEMMA UnfoundMoved ==
  ASSUME NEW arts \in Tables, NEW other \in Tables, Shuffled(arts, other),
         NEW i \in DOMAIN arts["memory_region"], MalfindRow(arts["memory_region"][i]),
         On(Reported(arts), "memory_region", i) = {}
  PROVE  \E k \in DOMAIN other["memory_region"] :
           /\ other["memory_region"][k].range = arts["memory_region"][i].range
           /\ other["memory_region"][k].plugin = arts["memory_region"][i].plugin
           /\ On(Reported(other), "memory_region", k) = {}
<1> DEFINE At(k) == arts["memory_region"][k]
           There(k) == other["memory_region"][k]
           Unfound(k) == On(Reported(other), "memory_region", k) = {}
<1>1. PICK p : Moves(p, arts["memory_region"], other["memory_region"])
  BY DEF Shuffled, Rearranged, Table
<1>2. p[i] \in DOMAIN other["memory_region"] /\ There(p[i]) = At(i)
  BY <1>1 DEF Moves
<1>3. CASE Unfound(p[i])
  BY <1>2, <1>3
<1>4. CASE ~Unfound(p[i])
  <2>1. ASSUME NEW k, ~Unfound(k) PROVE FirstOfRange(other, k)
    BY <2>1, FoundFirst DEF On, Shuffled
  <2>2. FirstOfRange(other, p[i])
    BY <1>4, <2>1
  <2>3. i \in Rows(arts, "memory_region", Suspicious)
    BY <1>2, <2>2 DEF FirstOfRange, Rows
  <2>4. ~FirstOfRange(arts, i)
    BY FirstFound
  <2>5. PICK j \in Rows(arts, "memory_region", Suspicious) : At(j).range = At(i).range /\ ~(i <= j)
    BY <2>3, <2>4 DEF FirstOfRange
  <2>6. i \in Nat /\ j \in Nat /\ j \in DOMAIN arts["memory_region"]
    BY <2>5 DEF Rows, Tables, Table
  <2>7. p[j] \in DOMAIN other["memory_region"] /\ There(p[j]) = At(j) /\ p[j] # p[i]
    BY <1>1, <2>5, <2>6 DEF Moves
  <2>8. At(j).plugin = At(i).plugin
    BY <2>3, <2>5 DEF Shuffled, Ambiguous, TwoSources
  <2>9. Unfound(p[j])
    <3> SUFFICES ASSUME ~Unfound(p[j]) PROVE FALSE
      OBVIOUS
    <3>1. FirstOfRange(other, p[j])
      BY <2>1
    <3>2. There(p[j]).range = There(p[i]).range
      BY <1>2, <2>5, <2>7
    <3>3. p[i] <= p[j] /\ p[j] <= p[i]
      BY <2>2, <3>1, <3>2 DEF FirstOfRange
    <3>4. p[i] \in Nat /\ p[j] \in Nat
      <4>1. p[i] \in DOMAIN other["memory_region"] /\ p[j] \in DOMAIN other["memory_region"]
        BY <1>2, <2>7
      <4>2. DOMAIN other["memory_region"] \subseteq Nat
        BY DEF Tables, Table
      <4> QED BY <4>1, <4>2
    <3> QED BY <2>7, <3>3, <3>4
  <2> HIDE DEF Unfound
  <2> QED BY <2>5, <2>7, <2>8, <2>9 DEF Unfound
<1> QED BY <1>3, <1>4

\* Each region that was drafted is, of the same plugin.
LEMMA RegionKept ==
  ASSUME NEW arts \in Tables, NEW other \in Tables, Shuffled(arts, other)
  PROVE  DraftsConfirmed(RegionIocs(arts, Reported(arts)), RegionIocs(other, Reported(other)))
<1> DEFINE Default(row) == IF MalfindRow(row) THEN "high" ELSE "medium"
           Sure(tables, k) == Surety(Reported(tables), "memory_region", k, Default(tables["memory_region"][k]))
           Held(tables, k) == IF tables["memory_region"][k].plugin \in VadContextPlugins
                                THEN Lower(Sure(tables, k), ConfidenceFor["medium"]) ELSE Sure(tables, k)
           Of(tables, k) == Draft(k, "memory_region", tables["memory_region"][k].range,
                                  tables["memory_region"][k].plugin, Held(tables, k),
                                  "investigation_artifact")
           Found(tables, k) == On(Reported(tables), "memory_region", k) # {}
           Noted(tables) == {k \in DOMAIN tables["memory_region"] :
                               MalfindRow(tables["memory_region"][k]) \/ Found(tables, k)}
           Here(k) == arts["memory_region"][k]
           There(k) == other["memory_region"][k]
<1>1. \A tables : RegionIocs(tables, Reported(tables)) = {Of(tables, k) : k \in Noted(tables)}
  BY DEF RegionIocs, Surety, Lower
<1>2. \A row : Default(row) \in Levels
  BY DEF Levels
<1>3. ASSUME NEW i \in Noted(arts), NEW k \in Noted(other), There(k).range = Here(i).range,
             There(k).plugin = Here(i).plugin, Here(i).plugin \notin VadContextPlugins,
             Sure(arts, i) <= Sure(other, k)
      PROVE  Confirms(Of(other, k), Of(arts, i))
  <2>1. Held(arts, i) = Sure(arts, i) /\ Held(other, k) = Sure(other, k)
    BY <1>3
  <2> HIDE DEF Held, Sure
  <2> QED BY <1>3, <2>1, SameKey
<1>4. ASSUME NEW i \in Noted(arts), Found(arts, i)
      PROVE  \E k \in Noted(other) : Confirms(Of(other, k), Of(arts, i))
  <2>1. PICK k \in DOMAIN other["memory_region"] :
          /\ There(k).range = Here(i).range /\ There(k).plugin = Here(i).plugin
          /\ Here(i).plugin \notin VadContextPlugins
          /\ \A f \in On(Reported(arts), "memory_region", i) :
               \E e \in On(Reported(other), "memory_region", k) : f.score = e.score
    BY <1>4, RegionMoved
  <2>2. k \in Noted(other)
    BY <1>4, <2>1
  <2> DEFINE S == ScoresOn(Reported(arts), "memory_region", i)
             T == ScoresOn(Reported(other), "memory_region", k)
             default == Default(Here(i))
  <2>3. S \in SUBSET (0..13) /\ T \in SUBSET (0..13)
    BY ScoresRange
  <2>4. S \subseteq T /\ S # {}
    BY <1>4, <2>1 DEF ScoresOn
  <2>5. Sure(arts, i) = Sureness(S, default) /\ Sure(other, k) = Sureness(T, default)
    BY <2>1, SuretyOfScores DEF MalfindRow
  <2>6. default \in Levels
    BY <1>2
  <2>7. Sure(arts, i) <= Sure(other, k)
    <3> HIDE DEF S, T, default, Sure
    <3>1. \A x \in S : \E y \in T : x <= y
      BY <2>3, <2>4
    <3>2. Sureness(S, default) <= Sureness(T, default)
      BY <2>3, <2>4, <2>6, <3>1, SurenessGrows
    <3> QED BY <2>5, <3>2
  <2>8. Confirms(Of(other, k), Of(arts, i))
    <3> HIDE DEF Of, Noted, Sure
    <3> QED BY <1>3, <2>1, <2>2, <2>7
  <2> HIDE DEF Of, Noted
  <2> QED BY <2>2, <2>8
<1>5. ASSUME NEW i \in Noted(arts), ~Found(arts, i)
      PROVE  \E k \in Noted(other) : Confirms(Of(other, k), Of(arts, i))
  <2>1. MalfindRow(Here(i)) /\ i \in DOMAIN arts["memory_region"]
    BY <1>5
  <2>2. PICK k \in DOMAIN other["memory_region"] :
          There(k).range = Here(i).range /\ There(k).plugin = Here(i).plugin /\ ~Found(other, k)
    BY <1>5, <2>1, UnfoundMoved
  <2>3. MalfindRow(There(k)) /\ Here(i).plugin \notin VadContextPlugins
    BY <2>1, <2>2 DEF MalfindRow, VadContextPlugins
  <2>4. k \in Noted(other)
    BY <2>2, <2>3
  <2>5. Sure(arts, i) = 85 /\ Sure(other, k) = 85
    BY <1>5, <2>1, <2>2, <2>3, SuretyForm DEF ConfidenceFor
  <2>6. Confirms(Of(other, k), Of(arts, i))
    <3> HIDE DEF Of, Noted, Sure
    <3> QED BY <1>3, <2>2, <2>3, <2>4, <2>5
  <2> HIDE DEF Of, Noted
  <2> QED BY <2>4, <2>6
<1>6. \A i \in Noted(arts) : \E k \in Noted(other) : Confirms(Of(other, k), Of(arts, i))
  <2> HIDE DEF Of, Noted, Found
  <2> QED BY <1>4, <1>5
<1> HIDE DEF Of, Noted
<1> QED BY <1>1, <1>6 DEF DraftsConfirmed

\* The first row of a wrong path that is reported has the plugin and the path of the
\* others, and it is reported once in any order.
LEMMA PathMoved ==
  ASSUME NEW arts \in Tables, NEW other \in Tables, Shuffled(arts, other),
         NEW f \in Reported(arts), f.place[1] = 11
  PROVE  /\ f.place[2] \in Rows(arts, "process", WrongPath) /\ f.score = 8
         /\ \E e \in Reported(other) :
              /\ e.place[1] = 11 /\ e.score = 8
              /\ e.place[2] \in Rows(other, "process", WrongPath)
              /\ other["process"][e.place[2]].plugin = arts["process"][f.place[2]].plugin
<1> DEFINE i == f.place[2]
<1>1. ASSUME NEW a \in Tables, NEW g \in Reported(a), g.place[1] = 11
      PROVE  g.place[2] \in Rows(a, "process", WrongPath) /\ g.score = 8
  <2>1. g \in Findings(a)
    BY DEF Reported, Told
  <2>2. ByRow(a, 11, "process", WrongPath, "path")
    BY RowRules
  <2>3. PICK k \in Rows(a, "process", WrongPath) : g.place = <<11, k, 0>>
    BY <1>1, <2>1, <2>2 DEF ByRow
  <2>4. g.score = RuleScore[11]
    BY <1>1, <2>1, ScoreOfRule
  <2> QED BY <2>3, <2>4, RuleTable
<1>2. i \in Rows(arts, "process", WrongPath) /\ f.score = 8
  BY <1>1
<1>3. PICK e \in Reported(other) : Alike(f, e)
  BY ReportedEchoed DEF Shuffled
<1>4. e.place[1] = 11
  BY <1>3 DEF Alike
<1>5. e.place[2] \in Rows(other, "process", WrongPath) /\ e.score = 8
  BY <1>1, <1>4
<1>6. PICK m \in DOMAIN other["process"] : other["process"][m] = arts["process"][i]
  BY <1>2 DEF Shuffled, SameRows, Included, Table, Rows
<1>7. m \in Rows(other, "process", WrongPath)
  BY <1>2, <1>6 DEF Rows
<1>8. \A k \in Rows(other, "process", WrongPath) : other["process"][k].path = "elsewhere"
  BY DEF Rows, WrongPath
<1>9. other["process"][e.place[2]].plugin = other["process"][m].plugin
  BY <1>5, <1>7, <1>8 DEF Shuffled, Ambiguous, TwoSources
<1> QED BY <1>2, <1>4, <1>5, <1>6, <1>9

LEMMA ProcessKept ==
  ASSUME NEW arts \in Tables, NEW other \in Tables, Shuffled(arts, other)
  PROVE  DraftsConfirmed(ProcessIocs(arts, Reported(arts)), ProcessIocs(other, Reported(other)))
<1> DEFINE About(tables, k) == On(Reported(tables), "process", k)
           Sure(tables, k) == Surety(Reported(tables), "process", k, "medium")
           Held(tables, k) == Lower(Sure(tables, k), 70)
           Art(k, row, type, value, sure) ==
             Draft(k, type, value, row.plugin, sure, "investigation_artifact")
           Name(tables, k) == {Art(k, tables["process"][k], "process_name", "name", Sure(tables, k))}
           Pid(tables, k)  == IF About(tables, k) = {} THEN {}
                              ELSE {Art(k, tables["process"][k], "pid", "pid", Held(tables, k))}
           Path(tables, k) == IF tables["process"][k].path = "none" THEN {}
                              ELSE {Art(k, tables["process"][k], "file_path", tables["process"][k].path,
                                        Sure(tables, k))}
           Noted(tables) == {k \in DOMAIN tables["process"] :
                               NotedProcess(tables["process"][k], About(tables, k))}
           Here(k) == arts["process"][k]
           There(k) == other["process"][k]
<1>1. \A tables : ProcessIocs(tables, Reported(tables))
                    = UNION {Name(tables, k) \cup Pid(tables, k) \cup Path(tables, k) : k \in Noted(tables)}
  BY DEF ProcessIocs, Surety, Lower
<1>2. ASSUME NEW i \in Noted(arts)
      PROVE  \E k \in DOMAIN other["process"] :
               /\ There(k).plugin = Here(i).plugin /\ There(k).path = Here(i).path
               /\ About(arts, i) # {} => About(other, k) # {}
               /\ \A f \in About(arts, i) : \E e \in About(other, k) : f.score <= e.score
  <2>1. \A f \in About(arts, i) :
          f \in Reported(arts) /\ f.place[1] \in {11, 12, 13} /\ f.place[2] = i /\ TableOf(f) = "process"
    <3> SUFFICES ASSUME NEW f \in About(arts, i) PROVE f.place[1] \in {11, 12, 13}
      BY DEF On
    <3>1. f.place[1] \in 1..14 /\ TableOf(f) = "process"
      BY FindingRange DEF Ranged, Reported, Told, On
    <3> QED BY <3>1 DEF TableOf
  <2>2. CASE \E f \in About(arts, i) : f.place[1] = 11
    <3>1. PICK f \in About(arts, i) : f.place[1] = 11
      BY <2>2
    <3>2. i \in Rows(arts, "process", WrongPath)
      BY <2>1, <3>1, PathMoved
    <3>3. PICK e \in Reported(other) :
            /\ e.place[1] = 11 /\ e.score = 8 /\ e.place[2] \in Rows(other, "process", WrongPath)
            /\ There(e.place[2]).plugin = Here(i).plugin
      BY <2>1, <3>1, PathMoved
    <3> DEFINE k == e.place[2]
    <3>4. There(k).path = Here(i).path /\ k \in DOMAIN other["process"]
      BY <3>2, <3>3 DEF Rows, WrongPath
    <3>5. e \in About(other, k)
      BY <3>3 DEF On, TableOf
    <3>6. \A g \in About(arts, i) : g.score <= e.score
      <4> SUFFICES ASSUME NEW g \in About(arts, i) PROVE g.score <= 8
        BY <3>3
      <4>1. g \in Findings(arts) /\ g.place[1] \in {11, 12, 13}
        BY <2>1 DEF Reported, Told
      <4>2. g.score = RuleScore[g.place[1]]
        BY <4>1, ScoreOfRule
      <4>3. g.score \in {8, 5}
        BY <4>1, <4>2, RuleTable
      <4> QED BY <4>3
    <3> HIDE DEF k, About
    <3> QED BY <3>3, <3>4, <3>5, <3>6 DEF k
  <2>3. CASE \A f \in About(arts, i) : f.place[1] # 11
    <3>1. PICK k \in DOMAIN other["process"] : There(k) = Here(i)
      BY DEF Shuffled, SameRows, Included, Table
    <3>2. ASSUME NEW f \in About(arts, i) PROVE \E e \in About(other, k) : f.score <= e.score
      <4>1. f \in Reported(arts) /\ f.place[1] \in {12, 13} /\ f.place[2] = i /\ TableOf(f) = "process"
        BY <2>1, <2>3
      <4>2. PICK e \in About(other, k) : e.score = f.score
        BY <3>1, <4>1, RowFound DEF Shuffled
      <4>3. f.score \in 0..13
        BY <4>1, FindingRange DEF Ranged, Reported, Told
      <4> QED BY <4>2, <4>3
    <3> HIDE DEF About
    <3> QED BY <3>1, <3>2
  <2> HIDE DEF About
  <2> QED BY <2>2, <2>3
<1>3. ASSUME NEW i \in Noted(arts)
      PROVE  \E k \in Noted(other) :
               /\ DraftsConfirmed(Name(arts, i), Name(other, k))
               /\ DraftsConfirmed(Pid(arts, i), Pid(other, k))
               /\ DraftsConfirmed(Path(arts, i), Path(other, k))
  <2>1. PICK k \in DOMAIN other["process"] :
          /\ There(k).plugin = Here(i).plugin /\ There(k).path = Here(i).path
          /\ About(arts, i) # {} => About(other, k) # {}
          /\ \A f \in About(arts, i) : \E e \in About(other, k) : f.score <= e.score
    BY <1>2
  <2>2. k \in Noted(other)
    BY <2>1 DEF NotedProcess, ListedPath
  <2>3. Sure(arts, i) <= Sure(other, k)
    <3> DEFINE S == ScoresOn(Reported(arts), "process", i)
               T == ScoresOn(Reported(other), "process", k)
    <3>1. S \in SUBSET (0..13) /\ T \in SUBSET (0..13) /\ T \subseteq 5..13
      BY ScoresRange
    <3>2. \A x \in S : \E y \in T : x <= y
      BY <2>1 DEF ScoresOn
    <3>3. Sure(arts, i) = Sureness(S, "medium") /\ Sure(other, k) = Sureness(T, "medium")
      BY SuretyOfScores
    <3> DEFINE default == "medium"
    <3>4. default \in Levels /\ default \in {"low", "medium"}
      BY DEF Levels
    <3> HIDE DEF S, T, Sure, default
    <3>5. Sureness(S, default) <= Sureness(T, default)
      BY <3>1, <3>2, <3>4, SurenessGrows
    <3> QED BY <3>3, <3>5 DEF default
  <2>4. Held(arts, i) <= Held(other, k)
    <3>1. Sure(arts, i) \in 45..95 /\ Sure(other, k) \in 45..95 /\ 70 \in 40..70
      BY SuretyRange DEF Levels
    <3> HIDE DEF Sure
    <3> QED BY <2>3, <3>1, LowerGrows, Zenon
  <2>5. \A type, value, sure, surer :
          sure <= surer => Confirms(Art(k, There(k), type, value, surer), Art(i, Here(i), type, value, sure))
    BY <2>1, SameKey
  <2> HIDE DEF Sure, Held, Art, About
  <2>6. DraftsConfirmed(Name(arts, i), Name(other, k))
    BY <2>3, <2>5 DEF DraftsConfirmed
  <2>7. DraftsConfirmed(Pid(arts, i), Pid(other, k))
    BY <2>1, <2>4, <2>5 DEF DraftsConfirmed
  <2>8. DraftsConfirmed(Path(arts, i), Path(other, k))
    BY <2>1, <2>3, <2>5 DEF DraftsConfirmed
  <2> QED BY <2>2, <2>6, <2>7, <2>8
<1> HIDE DEF Name, Pid, Path, Noted
<1> SUFFICES ASSUME NEW d \in ProcessIocs(arts, Reported(arts))
             PROVE  \E e \in ProcessIocs(other, Reported(other)) : Confirms(e, d)
  BY DEF DraftsConfirmed
<1>4. PICK i \in Noted(arts) : d \in Name(arts, i) \cup Pid(arts, i) \cup Path(arts, i)
  BY <1>1
<1>5. PICK k \in Noted(other) :
        \E e \in Name(other, k) \cup Pid(other, k) \cup Path(other, k) : Confirms(e, d)
  BY <1>3, <1>4 DEF DraftsConfirmed
<1>6. PICK e \in Name(other, k) \cup Pid(other, k) \cup Path(other, k) : Confirms(e, d)
  BY <1>5
<1>7. e \in ProcessIocs(other, Reported(other))
  BY <1>1, <1>6
<1> QED BY <1>6, <1>7

-----------------------------------------------------------------------------
(* Plugins, roles and the export as a whole. *)

\* A plugin is referred to for a finding about the same row, or about another one of
\* the plugin, or because its rows are context anyway.
LEMMA SourceKept ==
  ASSUME NEW arts \in Tables, NEW other \in Tables, Shuffled(arts, other), NEW f \in Reported(arts),
         TableOf(f) \notin {"memory_region", "module"}
  PROVE  \E e \in Reported(other) : PluginOf(other, e) = PluginOf(arts, f) /\ e.score = f.score
<1> DEFINE t == TableOf(f)
           i == f.place[2]
<1>1. f \in Findings(arts) /\ t \in Table /\ i \in DOMAIN arts[t]
  BY FindingIndex DEF Reported, Told
<1>2. f.place[1] \in {1, 2, 10, 12, 13} \/ f.place[1] = 11 \/ f.place[1] \in {7, 14}
  <2>1. f.place[1] \in 1..14
    BY <1>1, FindingRange DEF Ranged
  <2> QED BY <2>1 DEF TableOf
<1>3. CASE f.place[1] \in {1, 2, 10, 12, 13}
  <2>1. PICK k \in DOMAIN other[t] : other[t][k] = arts[t][i]
    BY <1>1 DEF Shuffled, SameRows, Included
  <2>2. PICK e \in On(Reported(other), t, k) : e.score = f.score
    BY <1>3, <2>1, RowFound DEF Shuffled
  <2>3. e \in Reported(other) /\ TableOf(e) = t /\ e.place[2] = k
    BY <2>2 DEF On
  <2>4. PluginOf(other, e) = PluginOf(arts, f)
    BY <2>1, <2>3 DEF PluginOf
  <2> QED BY <2>2, <2>3, <2>4
<1>4. CASE f.place[1] = 11
  <2>1. PICK e \in Reported(other) :
          /\ e.place[1] = 11 /\ e.score = 8
          /\ other["process"][e.place[2]].plugin = arts["process"][i].plugin
    BY <1>4, PathMoved
  <2>2. f.score = 8
    BY <1>4, PathMoved
  <2>3. TableOf(e) = "process" /\ t = "process"
    BY <1>4, <2>1 DEF TableOf
  <2>4. PluginOf(other, e) = PluginOf(arts, f)
    BY <2>1, <2>3 DEF PluginOf, RowPlugin
  <2> QED BY <2>1, <2>2, <2>4
<1>5. CASE f.place[1] \in {7, 14}
  <2>1. PICK e \in Reported(other) : Alike(f, e)
    BY ReportedEchoed DEF Shuffled
  <2>2. e \in Findings(other)
    BY DEF Reported, Told
  <2>3. other["yara"][e.place[2]].plugin = arts["yara"][i].plugin
    BY <1>1, <1>5, <2>1, <2>2, SameMatch
  <2>4. TableOf(e) = "yara" /\ t = "yara" /\ e.score = f.score
    BY <1>5, <2>1 DEF TableOf, Alike
  <2>5. PluginOf(other, e) = PluginOf(arts, f)
    BY <2>3, <2>4 DEF PluginOf, RowPlugin
  <2> QED BY <2>4, <2>5
<1> QED BY <1>2, <1>3, <1>4, <1>5

LEMMA ReferencesKept ==
  ASSUME NEW arts \in Tables, NEW other \in Tables, Shuffled(arts, other)
  PROVE  DraftsConfirmed(PluginReferences(arts, Reported(arts)), PluginReferences(other, Reported(other)))
<1> DEFINE OfFinding(tables, f) == Reference(f.place[2], PluginOf(tables, f), SeverityOf(f))
           OfMatch(match, i) == Reference(i, match.plugin, YaraSeverity(Metadata[match.rule], FALSE))
           OfPlugin(plugin) == Reference(0, plugin, "medium")
           A(tables) == {OfFinding(tables, f) : f \in Reported(tables)}
           B(tables) == {OfMatch(tables["yara"][i], i) : i \in JobSummaries(tables)}
           C(tables) == {OfPlugin(plugin) : plugin \in ContextPlugins(tables)}
<1>1. \A tables : PluginReferences(tables, Reported(tables)) = A(tables) \cup B(tables) \cup C(tables)
  BY DEF PluginReferences
<1>2. ASSUME NEW severity \in Levels, NEW at, NEW place, NEW plugin
      PROVE  /\ Confirms(Reference(place, plugin, severity), Reference(at, plugin, severity))
             /\ Confirms(Reference(place, plugin, "medium"), Reference(at, plugin, severity))
  <2> DEFINE c == ConfidenceFor[severity]
             Of(x, sure) == Draft(x, "plugin_reference", plugin, plugin, sure, "investigation_artifact")
  <2>1. \A x, level : Reference(x, plugin, level) = Of(x, Lower(ConfidenceFor[level], 60))
    BY DEF Reference, Lower
  <2>2. c \in 45..95 /\ 60 \in 40..70 /\ ConfidenceFor["medium"] = 65 /\ 65 \in 45..95
    BY ConfidenceRange DEF ConfidenceFor
  <2>3. \A d \in 45..95 : Lower(d, 60) = IF d <= 60 THEN d ELSE 60
    <3>1. 60 \in 40..70
      OBVIOUS
    <3> QED BY <3>1, ConfidenceRange, Zenon
  <2> HIDE DEF c
  <2>4. Lower(c, 60) <= Lower(c, 60) /\ Lower(c, 60) <= Lower(65, 60)
    BY <2>2, <2>3
  <2>5. \A sure, surer : sure <= surer => Confirms(Of(place, surer), Of(at, sure))
    BY SameKey
  <2> HIDE DEF Of
  <2> QED BY <2>1, <2>2, <2>4, <2>5 DEF c
<1>3. ContextPlugins(arts) \subseteq ContextPlugins(other)
  <2> DEFINE Of(tables, t) == {RowPlugin(t, tables[t][i]) : i \in DOMAIN tables[t]}
  <2>1. ASSUME NEW t \in Table PROVE Of(arts, t) \subseteq Of(other, t)
    <3> SUFFICES ASSUME NEW i \in DOMAIN arts[t] PROVE RowPlugin(t, arts[t][i]) \in Of(other, t)
      OBVIOUS
    <3>1. PICK k \in DOMAIN other[t] : other[t][k] = arts[t][i]
      BY DEF Shuffled, SameRows, Included
    <3> QED BY <3>1
  <2>2. \A tables : ContextPlugins(tables) = Of(tables, "memory_region") \cup Of(tables, "module")
    BY DEF ContextPlugins
  <2>3. "memory_region" \in Table /\ "module" \in Table
    BY DEF Table
  <2> HIDE DEF Of
  <2> QED BY <2>1, <2>2, <2>3
<1>4. ASSUME NEW f \in Reported(arts)
      PROVE  \E e \in A(other) \cup C(other) : Confirms(e, OfFinding(arts, f))
  <2>1. SeverityOf(f) \in Levels
    BY DEF SeverityOf, Level, Levels
  <2>2. CASE TableOf(f) \in {"memory_region", "module"}
    <3>1. f.place[2] \in DOMAIN arts[TableOf(f)]
      BY FindingIndex DEF Reported, Told
    <3>2. PluginOf(arts, f) \in ContextPlugins(arts)
      BY <2>2, <3>1 DEF PluginOf, ContextPlugins
    <3>3. OfPlugin(PluginOf(arts, f)) \in C(other)
      BY <1>3, <3>2
    <3>4. Confirms(OfPlugin(PluginOf(arts, f)), OfFinding(arts, f))
      BY <1>2, <2>1
    <3> HIDE DEF OfPlugin, OfFinding, C
    <3> QED BY <3>3, <3>4
  <2>3. CASE TableOf(f) \notin {"memory_region", "module"}
    <3>1. PICK e \in Reported(other) : PluginOf(other, e) = PluginOf(arts, f) /\ e.score = f.score
      BY <2>3, SourceKept
    <3>2. SeverityOf(e) = SeverityOf(f)
      BY <3>1 DEF SeverityOf
    <3>3. Confirms(OfFinding(other, e), OfFinding(arts, f))
      BY <1>2, <2>1, <3>1, <3>2
    <3>4. OfFinding(other, e) \in A(other)
      OBVIOUS
    <3> HIDE DEF OfFinding, A
    <3> QED BY <3>3, <3>4
  <2> QED BY <2>2, <2>3
<1>5. ASSUME NEW i \in JobSummaries(arts)
      PROVE  \E e \in B(other) : Confirms(e, OfMatch(arts["yara"][i], i))
  <2>1. i \in DOMAIN arts["yara"] /\ JobSummaryOnly(Metadata[arts["yara"][i].rule], FALSE)
    BY DEF JobSummaries
  <2>2. PICK k \in DOMAIN other["yara"] : other["yara"][k] = arts["yara"][i]
    BY <2>1 DEF Shuffled, SameRows, Included, Table
  <2>3. k \in JobSummaries(other)
    BY <2>1, <2>2 DEF JobSummaries
  <2>4. YaraSeverity(Metadata[arts["yara"][i].rule], FALSE) \in Levels
    BY <2>1, MatchMetadata, YaraSeverityType DEF Levels
  <2>5. Confirms(OfMatch(arts["yara"][i], k), OfMatch(arts["yara"][i], i))
    BY <1>2, <2>4
  <2> HIDE DEF OfMatch
  <2> QED BY <2>2, <2>3, <2>5
<1>6. ASSUME NEW plugin \in ContextPlugins(arts)
      PROVE  \E e \in C(other) : Confirms(e, OfPlugin(plugin))
  <2>1. Confirms(OfPlugin(plugin), OfPlugin(plugin))
    BY <1>2 DEF Levels
  <2> HIDE DEF OfPlugin
  <2> QED BY <1>3, <2>1
<1> HIDE DEF OfFinding, OfMatch, OfPlugin
<1>7. \A d \in A(arts) \cup B(arts) \cup C(arts) :
        \E e \in A(other) \cup B(other) \cup C(other) : Confirms(e, d)
  BY <1>4, <1>5, <1>6
<1> HIDE DEF A, B, C
<1> QED BY <1>1, <1>7 DEF DraftsConfirmed

\* A match that is a threat, whichever match of its rule and plugin the finding is about.
Threatening(arts, rule, plugin) ==
  /\ HasRegions(arts) /\ rule \in MalwareRule \ ForeignRule
  /\ plugin = "windows.vadyarascan" /\ ~JobSummaryOnly(Metadata[rule], TRUE)

\* The role of an indicator is a matter of its key.
RoleOf(arts, type, value, plugin) ==
  IF \/ type \in {"ip_address", "network_endpoint", "command_line"}
     \/ type = "module_path" /\ value # "microsoft"
     \/ type = "yara_rule" /\ Threatening(arts, value, plugin)
    THEN "threat_ioc" ELSE "investigation_artifact"

MatchRole(arts, i) == YaraRole(arts, arts["yara"][i].rule, On(Reported(arts), "yara", i))

\* The drafts of all extractors are confirmed in any order of the rows.
LEMMA DraftsShuffled ==
  ASSUME NEW arts \in Tables, NEW other \in Tables, Shuffled(arts, other)
  PROVE  DraftsConfirmed(DraftsOf(arts, Reported(arts)), DraftsOf(other, Reported(other)))
<1>1. /\ DraftsConfirmed(NetworkIocs(arts, Reported(arts)), NetworkIocs(other, Reported(other)))
      /\ DraftsConfirmed(CommandIocs(arts, Reported(arts)), CommandIocs(other, Reported(other)))
      /\ DraftsConfirmed(ModuleIocs(arts, Reported(arts)), ModuleIocs(other, Reported(other)))
      /\ DraftsConfirmed(ProcessIocs(arts, Reported(arts)), ProcessIocs(other, Reported(other)))
  BY NetworkKept, CommandKept, ModuleKept, ProcessKept
<1>2. /\ DraftsConfirmed(YaraIocs(arts, Reported(arts)), YaraIocs(other, Reported(other)))
      /\ DraftsConfirmed(RegionIocs(arts, Reported(arts)), RegionIocs(other, Reported(other)))
      /\ DraftsConfirmed(PluginReferences(arts, Reported(arts)), PluginReferences(other, Reported(other)))
  BY MatchesKept, RegionKept, ReferencesKept
<1> QED BY <1>1, <1>2, DraftsJoined

\* A match drafted as a threat is one of the scan of memory that no rule leaves to the
\* summary of the job.
LEMMA ThreatMatch ==
  ASSUME NEW arts \in Tables, NEW i \in DOMAIN arts["yara"], MatchRole(arts, i) = "threat_ioc"
  PROVE  Threatening(arts, arts["yara"][i].rule, arts["yara"][i].plugin)
<1> DEFINE row == arts["yara"][i]
<1>1. row.rule \in MalwareRule \ ForeignRule /\ HasRegions(arts)
  BY DEF MatchRole, YaraRole, Correlated
<1>2. PICK f \in On(Reported(arts), "yara", i) : f.place[1] = 7
  BY DEF MatchRole, YaraRole, Correlated
<1>3. f \in Findings(arts) /\ f.place[2] = i
  BY <1>2 DEF On, Reported, Told
<1>4. i \in Representatives(arts, MemoryMatches(arts))
  BY <1>2, <1>3, MatchKey
<1>5. InMemory(row) /\ ~JobSummaryOnly(Metadata[row.rule], HasRegions(arts))
  BY <1>4 DEF Representatives, MemoryMatches
<1>6. HasRegions(arts) = TRUE
  BY <1>1 DEF HasRegions
<1>7. ~JobSummaryOnly(Metadata[row.rule], TRUE)
  BY <1>5, <1>6
<1> QED BY <1>1, <1>5, <1>7 DEF Threatening, InMemory

\* Of such matches of one rule and plugin, one that comes first is drafted as a threat.
LEMMA ThreatDrafted ==
  ASSUME NEW arts \in Tables, NEW i \in DOMAIN arts["yara"],
         Threatening(arts, arts["yara"][i].rule, arts["yara"][i].plugin)
  PROVE  \E j \in DOMAIN arts["yara"] :
           /\ j <= i /\ MatchRole(arts, j) = "threat_ioc"
           /\ arts["yara"][j].rule = arts["yara"][i].rule
           /\ arts["yara"][j].plugin = arts["yara"][i].plugin
<1> DEFINE rows == arts["yara"]
           matches == MemoryMatches(arts)
           S == {k \in matches : rows[k].rule = rows[i].rule /\ rows[k].plugin = rows[i].plugin}
<1>1. HasRegions(arts) = TRUE
  BY DEF Threatening, HasRegions
<1>2. i \in S
  BY <1>1 DEF Threatening, MemoryMatches, InMemory
<1>3. S \in SUBSET Nat
  <2>1. DOMAIN rows \subseteq Nat
    BY DEF Tables, Table
  <2>2. matches \subseteq DOMAIN rows
    BY DEF MemoryMatches
  <2> QED BY <2>1, <2>2
<1>4. PICK j \in S : \A k \in S : j <= k
  <2> HIDE DEF S
  <2> QED BY <1>2, <1>3, LeastNumber
<1>5. j \in Representatives(arts, matches)
  <2>1. ASSUME NEW k \in matches, k < j
        PROVE  <<rows[k].rule, rows[k].plugin>> # <<rows[j].rule, rows[j].plugin>>
    <3>1. SUFFICES ASSUME rows[k].rule = rows[j].rule, rows[k].plugin = rows[j].plugin PROVE FALSE
      OBVIOUS
    <3>2. k \in S
      BY <3>1
    <3>3. k \in Nat /\ j \in Nat /\ j <= k
      BY <1>3, <1>4, <3>2
    <3> HIDE DEF S, matches, rows
    <3> QED BY <2>1, <3>3
  <2> HIDE DEF matches
  <2> QED BY <2>1, <1>4 DEF Representatives
<1> DEFINE f == YaraFinding(rows[j], 7, j, HasRegions(arts))
<1>6. f \in YaraFindings(arts, 7, matches, HasRegions(arts))
  BY <1>5, YaraForm
<1>7. f.place[1] = 7 /\ f.place[2] = j
  BY DEF YaraFinding
<1> HIDE DEF f
<1>8. f \in Reported(arts)
  <2>1. f \in Findings(arts)
    BY <1>6 DEF Findings
  <2>2. f.place[1] \notin {3, 4, 5, 6, 8, 9, 11}
    BY <1>7
  <2> QED BY <2>1, <2>2 DEF Reported, Told
<1>9. f \in On(Reported(arts), "yara", j)
  BY <1>7, <1>8 DEF On, TableOf
<1>10. j \in DOMAIN rows /\ rows[j].rule = rows[i].rule /\ rows[j].plugin = rows[i].plugin
  BY <1>4 DEF MemoryMatches
<1>11. MatchRole(arts, j) = "threat_ioc"
  BY <1>1, <1>7, <1>9, <1>10 DEF MatchRole, YaraRole, Correlated, Threatening
<1> HIDE DEF S
<1> QED BY <1>2, <1>4, <1>10, <1>11

\* So the match that the export keeps of a rule and a plugin is drafted as a threat if
\* one is.
LEMMA WinnerMatch ==
  ASSUME NEW arts \in Tables, NEW x \in YaraIocs(arts, Reported(arts)),
         \A e \in YaraIocs(arts, Reported(arts)) : Key(e) = Key(x) => Preferred(x, e)
  PROVE  x.role = RoleOf(arts, x.type, x.value, x.plugin)
<1> DEFINE Declared(rule) == IF Metadata[rule].severity = "none" THEN "high" ELSE Metadata[rule].severity
           Sure(rule) == ConfidenceFor[Declared(rule)]
           Held(k) == IF MatchRole(arts, k) = "threat_ioc" THEN Sure(arts["yara"][k].rule)
                      ELSE Lower(Sure(arts["yara"][k].rule), 55)
           Of(k) == Draft(k, "yara_rule", arts["yara"][k].rule, arts["yara"][k].plugin,
                          Held(k), MatchRole(arts, k))
<1>1. YaraIocs(arts, Reported(arts)) = {Of(k) : k \in DOMAIN arts["yara"]}
  BY DEF YaraIocs, Lower, MatchRole
<1>2. PICK i \in DOMAIN arts["yara"] : x = Of(i)
  <2> HIDE DEF Of
  <2> QED BY <1>1
<1> DEFINE rule == arts["yara"][i].rule
           plugin == arts["yara"][i].plugin
<1>3. /\ x.type = "yara_rule" /\ x.value = rule /\ x.plugin = plugin
      /\ x.role = MatchRole(arts, i) /\ x.confidence = Held(i) /\ x.at = i
  BY <1>2, Zenon DEF Draft
<1>4. MatchRole(arts, i) \in {"threat_ioc", "investigation_artifact"}
  BY DEF MatchRole, YaraRole
<1>5. CASE MatchRole(arts, i) = "threat_ioc"
  <2>1. Threatening(arts, rule, plugin)
    BY <1>5, ThreatMatch
  <2> QED BY <1>3, <1>5, <2>1 DEF RoleOf
<1>6. CASE MatchRole(arts, i) # "threat_ioc"
  <2>1. ~Threatening(arts, rule, plugin)
    <3> SUFFICES ASSUME Threatening(arts, rule, plugin) PROVE FALSE
      OBVIOUS
    <3>1. PICK j \in DOMAIN arts["yara"] :
            /\ j <= i /\ MatchRole(arts, j) = "threat_ioc"
            /\ arts["yara"][j].rule = rule /\ arts["yara"][j].plugin = plugin
      BY ThreatDrafted
    <3>2. Of(j) \in YaraIocs(arts, Reported(arts))
      <4> HIDE DEF Of
      <4> QED BY <1>1
    <3>3. Of(j).confidence = Held(j) /\ Of(j).at = j
      BY DEF Draft
    <3>4. Key(Of(j)) = Key(x)
      BY <1>2, <3>1, Zenon DEF Key, Draft
    <3>5. Preferred(x, Of(j))
      <4> HIDE DEF Of
      <4> QED BY <3>2, <3>4
    <3> DEFINE c == Sure(rule)
    <3>6. Held(j) = c /\ Held(i) = Lower(c, 55)
      BY <1>6, <3>1
    <3>7. c \in 45..95
      <4>1. Metadata[rule].severity \in {"none"} \cup Levels
        BY MatchMetadata DEF YaraMetadata, Levels
      <4>2. Declared(rule) \in Levels
        BY <4>1 DEF Levels
      <4> HIDE DEF Declared, rule
      <4> QED BY <4>2, ConfidenceRange
    <3>8. Lower(c, 55) = IF c <= 55 THEN c ELSE 55
      <4>1. 55 \in 40..70
        OBVIOUS
      <4> HIDE DEF c
      <4>2. c \in 45..95
        BY <3>7
      <4> QED BY <4>1, <4>2, ConfidenceRange, Zenon
    <3>9. Lower(c, 55) > c \/ i <= j
      <4> HIDE DEF c, Held, Of
      <4> QED BY <1>3, <3>3, <3>5, <3>6 DEF Preferred
    <3>10. i <= j
      <4> HIDE DEF c
      <4>1. c \in 45..95
        BY <3>7
      <4> QED BY <3>8, <3>9, <4>1
    <3>11. i \in Nat /\ j \in Nat
      BY DEF Tables, Table
    <3>12. i = j
      <4> HIDE DEF rule, plugin
      <4> QED BY <3>1, <3>10, <3>11
    <3> QED BY <1>6, <3>1, <3>12
  <2> QED BY <1>3, <1>4, <1>6, <2>1 DEF RoleOf
<1> QED BY <1>5, <1>6

\* What deduplication keeps has the role of its key.
LEMMA WinnerRole ==
  ASSUME NEW arts \in Tables, NEW x \in DraftsOf(arts, Reported(arts)),
         \A e \in DraftsOf(arts, Reported(arts)) : Key(e) = Key(x) => Preferred(x, e)
  PROVE  x.role = RoleOf(arts, x.type, x.value, x.plugin)
<1> DEFINE findings == Reported(arts)
<1>1. \/ x.type \in {"ip_address", "network_endpoint", "command_line"} /\ x.role = "threat_ioc"
      \/ x.type = "module_path" /\ x \in ModuleIocs(arts, findings)
      \/ x.type = "yara_rule" /\ x \in YaraIocs(arts, findings)
      \/ x.type \in Artifacts /\ x.role = "investigation_artifact"
  BY DraftForms
<1> HIDE DEF findings
<1>2. CASE x.type = "module_path" /\ x \in ModuleIocs(arts, findings)
  <2> DEFINE Role(row) == IF row \in Microsoft THEN "investigation_artifact" ELSE "threat_ioc"
  <2>1. PICK i \in DOMAIN arts["module"] : \E sure :
          x = Draft(i, "module_path", arts["module"][i].path, "module", sure, Role(arts["module"][i]))
    BY <1>2 DEF ModuleIocs
  <2>2. x.value = arts["module"][i].path /\ x.role = Role(arts["module"][i])
    <3> HIDE DEF Role
    <3> QED BY <2>1 DEF Draft
  <2>3. arts["module"][i] \in Microsoft <=> arts["module"][i].path = "microsoft"
    BY RowsTyped DEF Table, Microsoft, Writable
  <2> QED BY <1>2, <2>2, <2>3 DEF RoleOf
<1>3. CASE x.type = "yara_rule" /\ x \in YaraIocs(arts, findings)
  <2>1. \A e \in YaraIocs(arts, Reported(arts)) : Key(e) = Key(x) => Preferred(x, e)
    BY DEF DraftsOf
  <2> QED BY <1>3, <2>1, WinnerMatch DEF findings
<1> QED BY <1>1, <1>2, <1>3 DEF RoleOf, Artifacts

\* So what is exported of the rows is exported of them in any other order.
LEMMA ExportIncluded ==
  ASSUME NEW arts \in Tables, NEW other \in Tables, Shuffled(arts, other)
  PROVE  Exported(arts) \subseteq Exported(other)
<1> DEFINE D == DraftsOf(arts, Reported(arts))
           E == DraftsOf(other, Reported(other))
           Wins(drafts, x) == \A e \in drafts : Key(e) = Key(x) => Preferred(x, e)
<1>1. /\ Exported(arts) = {Record(d) : d \in {x \in D : Wins(D, x)}}
      /\ Exported(other) = {Record(d) : d \in {x \in E : Wins(E, x)}}
  BY ExportForm DEF Exported, Deduplicated
<1>2. Draftlike(D) /\ Draftlike(E)
  BY AllDrafts
<1>3. DraftsConfirmed(D, E) /\ DraftsConfirmed(E, D)
  BY DraftsShuffled, ShuffledBack
<1>4. /\ \A x \in D : Wins(D, x) => x.role = RoleOf(arts, x.type, x.value, x.plugin)
      /\ \A x \in E : Wins(E, x) => x.role = RoleOf(other, x.type, x.value, x.plugin)
  BY WinnerRole
<1>5. \A rule, plugin : Threatening(arts, rule, plugin) <=> Threatening(other, rule, plugin)
  BY DEF Threatening, HasRegions, Shuffled, SameRows, Table
<1> HIDE DEF D, E
<1> SUFFICES ASSUME NEW d \in D, Wins(D, d)
             PROVE  \E x \in E : Wins(E, x) /\ Record(x) = Record(d)
  BY <1>1
<1>6. PICK e \in E : Key(e) = Key(d) /\ d.confidence <= e.confidence
  BY <1>3 DEF DraftsConfirmed, Confirms
<1>7. PICK x \in E : Wins(E, x) /\ Key(x) = Key(d) /\ e.confidence <= x.confidence
  <2> DEFINE S == {y \in E : Key(y) = Key(d)}
  <2>1. S # {} /\ Draftlike(S)
    BY <1>2, <1>6 DEF Draftlike
  <2>2. PICK x \in S : \A y \in S : Preferred(x, y)
    <3> HIDE DEF S
    <3> QED BY <2>1, Preference
  <2>3. Wins(E, x) /\ Key(x) = Key(d)
    BY <2>2
  <2>4. Preferred(x, e)
    BY <1>6, <2>2
  <2>5. x.confidence \in 0..100 /\ e.confidence \in 0..100
    BY <1>2 DEF Draftlike
  <2>6. e.confidence <= x.confidence
    BY <2>4, <2>5, PreferredIsSurer
  <2> HIDE DEF Wins
  <2> QED BY <2>3, <2>6
<1>8. PICK b \in D : Key(b) = Key(x) /\ x.confidence <= b.confidence
  BY <1>3 DEF DraftsConfirmed, Confirms
<1>9. x.confidence = d.confidence
  <2>1. Preferred(d, b)
    BY <1>7, <1>8
  <2>2. /\ d.confidence \in 0..100 /\ e.confidence \in 0..100
        /\ x.confidence \in 0..100 /\ b.confidence \in 0..100
    BY <1>2 DEF Draftlike
  <2>3. b.confidence <= d.confidence
    BY <2>1, <2>2, PreferredIsSurer
  <2> DEFINE p == d.confidence
             q == e.confidence
             r == x.confidence
             s == b.confidence
  <2>4. p \in 0..100 /\ q \in 0..100 /\ r \in 0..100 /\ s \in 0..100
    BY <2>2
  <2>5. p <= q /\ q <= r /\ r <= s /\ s <= p
    BY <1>6, <1>7, <1>8, <2>3
  <2> HIDE DEF p, q, r, s
  <2>6. r = p
    BY <2>4, <2>5
  <2> QED BY <2>6 DEF p, r
<1>10. /\ x.type = d.type /\ x.value = d.value /\ Key(x)[3] = Key(d)[3]
       /\ d.type # "pid" => x.plugin = d.plugin
  <2>1. \A y : /\ Key(y)[1] = y.type /\ Key(y)[2] = y.value
               /\ y.type # "pid" => Key(y)[3] = y.plugin
    BY DEF Key
  <2>2. Key(x) = Key(d)
    BY <1>7
  <2> QED BY <2>1, <2>2
<1>11. x.role = d.role
  <2>1. d.role = RoleOf(arts, d.type, d.value, d.plugin)
    BY <1>4
  <2>2. x.role = RoleOf(other, d.type, d.value, x.plugin)
    BY <1>4, <1>7, <1>10
  <2>3. RoleOf(other, d.type, d.value, x.plugin) = RoleOf(arts, d.type, d.value, d.plugin)
    BY <1>5, <1>10 DEF RoleOf
  <2> QED BY <2>1, <2>2, <2>3
<1>12. Record(x) = Record(d)
  BY <1>9, <1>10, <1>11 DEF Record
<1> QED BY <1>7, <1>12

\* Whatever order the database returns the rows of a table in, the export has the same
\* indicators, for any rules and metadata, unless two plugins list the same wrong path
\* or suspicious region: the drafts of one order confirm those of the other and the
\* other way round, and the role of what deduplication keeps is a matter of its key.
THEOREM RowOrderKeepsExport == Spec => []ExportOrderIrrelevant
<1>1. TypeOK => ExportOrderIrrelevant
  <2> SUFFICES ASSUME TypeOK, ~Ambiguous(artifacts), NEW t \in Table,
                      NEW i \in 1..(Len(artifacts[t]) - 1)
               PROVE  Exported([artifacts EXCEPT ![t] = Swapped(@, i)]) = Exported(artifacts)
    BY DEF ExportOrderIrrelevant
  <2>1. PICK arts : arts = artifacts
    OBVIOUS
  <2>2. arts \in Tables
    BY <2>1 DEF TypeOK, Tables
  <2>3. PICK other : other = [arts EXCEPT ![t] = Swapped(@, i)]
    OBVIOUS
  <2>4. other \in Tables
    BY <2>1, <2>2, <2>3, SwapKeepsRows
  <2>5. Shuffled(arts, other)
    BY <2>1, <2>2, <2>3, SwapShuffles
  <2>6. Shuffled(other, arts)
    BY <2>5, ShuffledBack
  <2>7. Exported(arts) \subseteq Exported(other)
    BY <2>2, <2>4, <2>5, ExportIncluded
  <2>8. Exported(other) \subseteq Exported(arts)
    BY <2>2, <2>4, <2>6, ExportIncluded
  <2>9. Exported(arts) = Exported(other)
    BY <2>7, <2>8
  <2> QED BY <2>1, <2>3, <2>9
<1> QED BY <1>1, RiskTypeCorrect, PTL DEF Spec
=============================================================================
