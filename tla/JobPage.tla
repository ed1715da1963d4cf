-------------------------------- MODULE JobPage --------------------------------
(***************************************************************************)
(* The status page of an analysis job while the worker is at it, and the   *)
(* review of its findings on the page and by a colleague elsewhere.        *)
(*                                                                         *)
(* The page is React effects over an API that reads the tables: one loads  *)
(* the job once, one polls its status while it is active, one loads the    *)
(* results when the page opens or its review filter changes, one when the  *)
(* job is seen in a terminal status, one the artifacts on every change of  *)
(* the status.  An effect that runs again drops its earlier requests; the  *)
(* answers of different effects arrive in any order.                       *)
(*                                                                         *)
(* The worker behind the tables is JobResults, which AnalysisJob           *)
(* implements, and the reviews are those of FindingReview.                 *)
(***************************************************************************)
EXTENDS Integers, FiniteSets

CONSTANTS
  Listed,      \* the results with a request of their own: findings, iocs, report
  Form,        \* what analysts save, by FindingReview
  MaxSaves,    \* bound: how often somebody saves a review
  MaxEvents,   \* bound: filter changes and lost requests
  MaxPolls,    \* bound: how many statuses polls on their way back may carry
  Filter,      \* the review statuses to list, with "all"
  Faults       \* kinds of failed saves, by FindingReview

ASSUME PageAssumption ==
  /\ Listed \subseteq {"findings", "iocs", "report"}
  /\ Filter \subseteq {"all", "new", "investigating", "reviewed"} /\ "all" \in Filter
  /\ MaxEvents \in Nat /\ MaxPolls \in Nat \ {0}

VARIABLES
  status, phase, stored,   \* the job in the tables, by JobResults
  row, notes, save, saves, sent, crossed,   \* FindingReview
  load,       \* the first GET of the job
  job,        \* the page's job.status, "none" before it is loaded
  polls,      \* statuses read for polls of the current polling effect
  request,    \* effect and result: its latest request
  shown,      \* what each section of the page shows
  failed,     \* sections that show an error
  highPriorityTotal,   \* how many findings the first effect counted as high or critical
  filter,     \* reviewStatusFilter
  events,     \* filter changes and lost requests so far
  savedUnder, \* the filter when "Save review" was pressed, kept by its closure
  overtaken,  \* history: a section whose first request was answered after the
              \* one for the terminal status
  ownSaved,   \* history: the version of the finding in the last answer to a save
  unsettled,  \* history: a list request or a filter change crossed a save
  fresh       \* history: the findings were stored when the first effect last ran

backendVars == <<status, phase, stored>>
reviewVars  == <<row, notes, save, saves, sent, crossed>>
pageVars    == <<load, job, polls, request, shown, failed, highPriorityTotal, filter, events,
                 savedUnder, overtaken, ownSaved, unsettled, fresh>>
vars == <<backendVars, reviewVars, pageVars>>

Panel   == {"page", "colleague"}
Tables  == INSTANCE JobResults WITH Job <- {"job"}, Result <- (Listed \cup {"artifacts"}) \ {"report"}
Reviews == INSTANCE FindingReview WITH Client <- Panel

ASSUME ReviewAssumption == Form \subseteq Reviews!Answer /\ MaxSaves \in Nat

Section == Listed \cup {"artifacts"}
Active  == {"queued", "running"}
Ended   == {"completed", "failed"}
\* The first effect also asks how many findings are high or critical, "priority", and
\* waits for that answer with the list.
With(s)   == IF s = "findings" THEN {"findings", "priority"} ELSE {s}
Slot      == ({"mount"} \X UNION {With(s) : s \in Listed}) \cup ({"final"} \X Listed)
               \cup {<<"drill", "artifacts">>}
NoRequest == [at |-> "none", got |-> 0]
Sent      == [at |-> "sent", got |-> 0]
Null      == -1

\* What a request reads: nothing, or version 1 of a section; findings have a new
\* version with every review, and may be filtered out of their list.  The finding is
\* a high one, and counted whatever its review.
Matches(reviewStatus, f) == f = "all" \/ reviewStatus = f
Stored(x) == (IF x = "priority" THEN "findings" ELSE x) \in stored["job"]
Content(x) ==
  IF ~Stored(x) THEN 0
  ELSE IF x # "findings" THEN 1
  ELSE IF Matches(row.form.review_status, filter) THEN row.version + 1 ELSE 0

InFlight(slot) == request[slot].at # "none"
Start(effects) == [slot \in Slot |-> IF slot[1] \in effects THEN Sent ELSE request[slot]]
FirstEffectRuns == fresh' = ("findings" \in stored["job"])

Init ==
  /\ Tables!Init
  /\ Reviews!Init
  /\ load = "none" /\ job = "none" /\ polls = {}
  /\ request = [slot \in Slot |-> NoRequest]
  /\ shown = [s \in Section |-> 0]
  /\ failed = {} /\ highPriorityTotal = Null /\ filter = "all" /\ events = 0
  /\ savedUnder = "all" /\ overtaken = {} /\ ownSaved = 0 /\ unsettled = FALSE /\ fresh = FALSE

-----------------------------------------------------------------------------
\* The user opens the page of a job that exists.
Open ==
  /\ load = "none"
  /\ status["job"] # "none"
  /\ load' = "sent"
  /\ request' = Start({"mount", "drill"})
  /\ FirstEffectRuns
  /\ UNCHANGED <<backendVars, reviewVars, job, polls, shown, failed, highPriorityTotal, filter,
                 events, savedUnder, overtaken, ownSaved, unsettled>>

\* setJob.  A new status starts the polling and the artifact effect again, and a
\* terminal one the final request for results.  Mutated forms: results are asked
\* for on any status, or never again; the clean-up forgets the polls under way.
OnAnyStatus(v) == "final"
OnNoStatus(v)  == "drill"
OnTerminal(v)  == IF v \in Ended THEN "final" ELSE "drill"
PollsKept(left)    == left
PollsDropped(left) == {}

SetJob(v, left) ==
  /\ job' = v
  /\ IF v = job
       THEN polls' = left /\ UNCHANGED <<request, unsettled>>
       ELSE /\ polls' = PollsDropped(left)
            /\ request' = Start({"drill", OnTerminal(v)})
            /\ unsettled' = (unsettled \/ save["page"].at # "idle")
  /\ UNCHANGED <<backendVars, reviewVars, shown, failed, highPriorityTotal, filter, events,
                 savedUnder, overtaken, ownSaved, fresh>>

\* getAnalysisJob, once.
ReadJob ==
  /\ load = "sent"
  /\ load' = status["job"]
  /\ UNCHANGED <<backendVars, reviewVars, job, polls, request, shown, failed, highPriorityTotal,
                 filter, events, savedUnder, overtaken, ownSaved, unsettled, fresh>>

JobLoaded ==
  /\ load \in Active \cup Ended
  /\ load' = "done"
  /\ SetJob(load, {})

\* The page shows an error instead of the job; nothing asks for it again.
LoadFails ==
  /\ load = "sent"
  /\ events < MaxEvents
  /\ load' = "error"
  /\ events' = events + 1
  /\ UNCHANGED <<backendVars, reviewVars, job, polls, request, shown, failed, highPriorityTotal,
                 filter, savedUnder, overtaken, ownSaved, unsettled, fresh>>

\* isActiveJobStatus.  Mutated form: a queued job is not polled.
RunningOnly(v) == v = "running"
IsActive(v)    == v \in Active

\* The interval sends a request and the backend reads the row; several may be on
\* their way back, and the answer of one may be an error.
Poll ==
  /\ IsActive(job)
  /\ Cardinality(polls \cup {status["job"]}) <= MaxPolls
  /\ polls' = polls \cup {status["job"]}
  /\ UNCHANGED <<backendVars, reviewVars, load, job, request, shown, failed, highPriorityTotal,
                 filter, events, savedUnder, overtaken, ownSaved, unsettled, fresh>>

PollAnswered ==
  /\ \E v \in polls : SetJob(v, polls \ {v})
  /\ UNCHANGED load

PollFails ==
  /\ \E v \in polls : polls' = polls \ {v}
  /\ UNCHANGED <<backendVars, reviewVars, load, job, request, shown, failed, highPriorityTotal,
                 filter, events, savedUnder, overtaken, ownSaved, unsettled, fresh>>

-----------------------------------------------------------------------------
\* The backend reads the rows for a request, or the request fails.
Read(slot) ==
  /\ request[slot].at = "sent"
  /\ \/ /\ request' = [request EXCEPT ![slot] = [at |-> "read", got |-> Content(slot[2])]]
        /\ UNCHANGED events
     \/ /\ events < MaxEvents
        /\ request' = [request EXCEPT ![slot] = [at |-> "error", got |-> 0]]
        /\ events' = events + 1
  /\ UNCHANGED <<backendVars, reviewVars, load, job, polls, shown, failed, highPriorityTotal,
                 filter, savedUnder, overtaken, ownSaved, unsettled, fresh>>

Without(slots) == [slot \in Slot |-> IF slot \in slots THEN NoRequest ELSE request[slot]]

\* The answers to the given requests arrive together: each section shows its rows,
\* or an error over what it showed.
Arrive(slots) ==
  LET good == {slot[2] : slot \in {x \in slots : request[x].at = "read"}}
      bad  == {slot[2] : slot \in {x \in slots : request[x].at = "error"}}
  IN
  /\ \A x \in slots : request[x].at \in {"read", "error"}
  /\ shown' = [s \in Section |->
                 IF s \in good THEN request[CHOOSE x \in slots : x[2] = s].got ELSE shown[s]]
  /\ failed' = (failed \ (good \cap {"artifacts"})) \cup bad
  /\ request' = Without(slots)
  /\ UNCHANGED <<backendVars, reviewVars, load, job, polls, highPriorityTotal, filter, events,
                 savedUnder, ownSaved, unsettled, fresh>>

\* A section of the first effect; for findings Promise.all waits for the list and the
\* numbers, and shows an error with the first of them that fails.
SectionRead(s) ==
  /\ \A x \in With(s) : request[<<"mount", x>>].at = "read"
  /\ shown' = [shown EXCEPT ![s] = request[<<"mount", s>>].got]
  /\ highPriorityTotal' = IF s = "findings" THEN request[<<"mount", "priority">>].got
                                            ELSE highPriorityTotal
  /\ UNCHANGED failed

SectionFails(s) ==
  /\ \E x \in With(s) : request[<<"mount", x>>].at = "error"
  /\ failed' = failed \cup {s}
  /\ UNCHANGED <<shown, highPriorityTotal>>

SectionArrives(s) ==
  /\ SectionRead(s) \/ SectionFails(s)
  /\ request' = Without({"mount"} \X With(s))
  /\ overtaken' = IF job \in Ended /\ ~InFlight(<<"final", s>>)
                  THEN overtaken \cup {s} ELSE overtaken
  /\ UNCHANGED <<backendVars, reviewVars, load, job, polls, filter, events, savedUnder,
                 ownSaved, unsettled, fresh>>

\* The artifact tables and the plugin results, together.
ArtifactsArrive ==
  /\ InFlight(<<"drill", "artifacts">>)
  /\ Arrive({<<"drill", "artifacts">>})
  /\ UNCHANGED overtaken

\* Promise.allSettled of the terminal status, which asks for no number.
FinalArrives ==
  LET slots == {"final"} \X Listed IN
  /\ \A slot \in slots : InFlight(slot)
  /\ Arrive(slots)
  /\ overtaken' = {}

\* The user picks another review status: the first effect runs again, and the
\* final one when the job has ended.
SetFilter ==
  /\ job # "none"
  /\ events < MaxEvents
  /\ events' = events + 1
  /\ \E f \in Filter \ {filter} : filter' = f
  /\ request' = Start({"mount"} \cup (IF job \in Ended THEN {"final"} ELSE {}))
  /\ FirstEffectRuns
  /\ unsettled' = (unsettled \/ save["page"].at # "idle")
  /\ UNCHANGED <<backendVars, reviewVars, load, job, polls, shown, failed, highPriorityTotal,
                 savedUnder, overtaken, ownSaved>>

-----------------------------------------------------------------------------
\* A bound on the analysts: they review when the worker is over and everything is
\* stored, the page says completed and has the artifacts, and the number of high
\* priority was read, which no review changes.  Nobody rejects the job by then.
ReviewTime ==
  /\ job = "completed" /\ status["job"] = "completed"
  /\ {"artifacts", "findings", "report"} \subseteq stored["job"]
  /\ ~InFlight(<<"drill", "artifacts">>)
  /\ request[<<"mount", "priority">>].at # "sent"

\* "Save review" on the page, for a finding it shows.  The answer will be handled
\* by the function of this rendering, with the filter it was made with.
SavePressed ==
  /\ ReviewTime
  /\ shown["findings"] # 0
  /\ \E form \in Form : Reviews!Send("page", form)
  /\ savedUnder' = filter
  /\ unsettled' = (unsettled \/ \E slot \in Slot : slot[2] = "findings" /\ InFlight(slot))
  /\ UNCHANGED <<backendVars, load, job, polls, request, shown, failed, highPriorityTotal, filter,
                 events, overtaken, ownSaved, fresh>>

\* handleFindingUpdated: the finding leaves a filtered list it no longer belongs to,
\* or is replaced where it is listed.  Mutated form: the list is left as it was.
KeepListed(updated) == shown["findings"]
Replaced(updated) ==
  IF shown["findings"] # 0 /\ Matches(updated.form.review_status, savedUnder)
    THEN updated.version + 1 ELSE 0

SaveAnswered ==
  /\ Reviews!Answered("page")
  /\ shown' = [shown EXCEPT !["findings"] = Replaced(save["page"].loaded)]
  /\ ownSaved' = save["page"].loaded.version
  /\ UNCHANGED <<backendVars, load, job, polls, request, failed, highPriorityTotal, filter, events,
                 savedUnder, overtaken, unsettled, fresh>>

\* The handlers of the API serve both analysts, and a save may fail; a colleague
\* reviews the same finding somewhere else.
ReviewServed ==
  /\ \E c \in Panel : Reviews!Serve(c)
  /\ UNCHANGED <<backendVars, pageVars>>

ColleagueReviews ==
  /\ \/ ReviewTime /\ \E form \in Form : Reviews!Send("colleague", form)
     \/ Reviews!Answered("colleague")
  /\ UNCHANGED <<backendVars, pageVars>>

WorkerStep ==
  /\ saves = 0
  /\ Tables!Next
  /\ UNCHANGED <<reviewVars, pageVars>>

Next ==
  \/ Open \/ ReadJob \/ JobLoaded \/ LoadFails
  \/ Poll \/ PollAnswered \/ PollFails
  \/ \E slot \in Slot : Read(slot)
  \/ \E s \in Listed : SectionArrives(s)
  \/ ArtifactsArrive \/ FinalArrives \/ SetFilter
  \/ SavePressed \/ SaveAnswered \/ ReviewServed \/ ColleagueReviews
  \/ WorkerStep

Spec == Init /\ [][Next]_vars

\* While the page is open the interval fires, and a poll is answered again and
\* again if polls are sent again and again.
FairSpec == Spec /\ WF_vars(Poll) /\ SF_vars(PollAnswered)

-----------------------------------------------------------------------------
\* Types, and the final requests are under way only for a job shown as ended.
TypeOK ==
  /\ Reviews!ReviewOK
  /\ status["job"] \in {"none"} \cup Active \cup Ended
  /\ stored["job"] \subseteq Section \cup {"report"}
  /\ load \in {"none", "sent", "done", "error"} \cup Active \cup Ended
  /\ job \in {"none"} \cup Active \cup Ended
  /\ polls \subseteq Active \cup Ended
  /\ request \in [Slot -> [at : {"none", "sent", "read", "error"}, got : 0..(MaxSaves + 1)]]
  /\ shown \in [Section -> 0..(MaxSaves + 1)]
  /\ failed \subseteq Section /\ overtaken \subseteq Listed
  /\ filter \in Filter /\ savedUnder \in Filter
  /\ events \in 0..MaxEvents
  /\ (\E s \in Listed : InFlight(<<"final", s>>)) => job \in Ended
  /\ ownSaved \in 0..MaxSaves /\ unsettled \in BOOLEAN
  /\ highPriorityTotal \in {Null} \cup 0..(MaxSaves + 1) /\ fresh \in BOOLEAN

Rank(v) == CASE v = "none" -> 0 [] v = "queued" -> 1 [] v = "running" -> 2 [] OTHER -> 3

\* The status the page shows never goes back, and a terminal one stays: a poll that
\* was overtaken by another is dropped with the effect that sent it.
ShownStatusAdvances == [][job' # job => Rank(job') > Rank(job)]_job

AtRest ==
  /\ load = "done"
  /\ phase["job"] = "over"
  /\ polls = {} /\ job \in Ended
  /\ \A slot \in Slot : ~InFlight(slot)
  /\ save["page"].at = "idle"

\* The number under "High priority": of the listed findings until they are counted.
HighPriority ==
  IF highPriorityTotal # Null THEN highPriorityTotal
  ELSE IF shown["findings"] # 0 THEN 1 ELSE 0

\* A page at rest that says "completed" lists what the worker stored before it wrote
\* that, in every section that has no error and whose first request did not come back
\* after the last: nobody has to reload the page for these lists.  The number of high
\* and critical findings is the one the first effect counted: it is right where the
\* findings were stored when that effect last ran, on opening the page or changing the
\* filter, and of a page that was opened before it may stay 0 until a reload.
ResultsShownAtRest ==
  AtRest /\ job = "completed" =>
    /\ \A s \in (stored["job"] \ {"report"}) \ (failed \cup overtaken) :
         \/ shown[s] # 0
         \/ s = "findings" /\ (filter # "all" \/ unsettled)
    /\ fresh /\ "findings" \in stored["job"] \ failed => HighPriority = 1

\* The page does not fall behind its own analyst: unless a list or filter change
\* crosses the save, a listed finding is shown as saved here last or newer.
OwnSaveShown ==
  AtRest /\ ~unsettled /\ shown["findings"] # 0 =>
    shown["findings"] > ownSaved

\* A job that has ended is shown as ended, by polling alone.
StatusShown == status["job"] \in Ended /\ job \in Active ~> job \in Ended

\* The promise of FindingReview holds beside the page: the columns of two forms
\* are mixed only by crossing saves, and a reviewed finding has its time.
ReviewIsWhole == Reviews!ReviewIsWhole

\* README.md, "Dashboard displays artifacts, findings, IOCs, plugin coverage, and
\* report links": a page at rest whose job is completed lists the report there is.
ReportShown ==
  AtRest /\ job = "completed" /\ "report" \in stored["job"] \ failed
    => shown["report"] # 0
=============================================================================
