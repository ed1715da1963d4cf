--------------------------- MODULE MCReportContext ---------------------------
(***************************************************************************)
(* Small instances of ReportContext, IocExport and ProcessRisk.            *)
(***************************************************************************)
EXTENDS ReportContext

Region(range, plugin)   == [table |-> "memory_region", range |-> range, plugin |-> plugin,
                            executable |-> TRUE]
Connection(endpoint, address, public, state) ==
  [table |-> "network", endpoint |-> endpoint, address |-> address, public |-> public,
   state |-> state]
Command(text)           == [table |-> "command", text |-> text]
Module(path)            == [table |-> "module", path |-> path]
Match(rule)             == [table |-> "yara", rule |-> rule, plugin |-> "windows.vadyarascan"]
Process(plugin, path, parent) ==
  [table |-> "process", plugin |-> plugin, path |-> path, parent |-> parent]

\* One or two rows of each kind that a rule tells apart.
MCRow ==
  {Region("r1", "windows.malfind"), Region("r2", "windows.malfind"),
   Region("r1", "windows.vadinfo"), Connection("e1", "a1", TRUE, "closed"),
   Connection("a1", "a1", TRUE, "closed"), Connection("any", "any", FALSE, "listening"),
   Command("encoded"), Command("certutil"), Command("shellcode"),
   Module("dropped"), Module("microsoft"), Module("downloads"),
   Match("family"), Match("broad"), Match("gated"), Match("vendor"), Match("rumour"),
   Process("windows.psscan", "users", "other"), Process("windows.pslist", "elsewhere", "office"),
   Process("windows.psscan", "elsewhere", "other")}

Meta(severity, flags) ==
  [severity |-> severity, trusted |-> "trusted" \in flags,
   noisy |-> "noisy" \in flags, specific |-> "specific" \in flags,
   requiresCorrelation |-> "correlate" \in flags, broad |-> "broad" \in flags]

\* A trusted rule for a malware family, a broad one, one that asks for
\* correlation, a trusted one that names no malware, a doubtful one that does.
MCMetadata ==
  [family |-> Meta("critical", {"trusted", "specific"}),
   broad  |-> Meta("none", {"broad"}),
   gated  |-> Meta("high", {"trusted", "specific", "noisy", "correlate", "broad"}),
   vendor |-> Meta("none", {"trusted"}),
   rumour |-> Meta("high", {"specific", "correlate"})]

\* The lists are short enough for four rows to be cut.
MCLimit == [findings |-> 1, processes |-> 1, rows |-> 2, display |-> 1, samples |-> 1,
            regions |-> 2, iocs |-> 100]
MCNameRank == [family |-> 2, broad |-> 1, gated |-> 3, vendor |-> 5, rumour |-> 4]
MCOthers == {FindingRow(0, "other", "medium", 6, {"memory_region"}, <<19, 0, 0>>)}
=============================================================================
