----------------------------- MODULE FindingReview -----------------------------
(***************************************************************************)
(* The review of one risk finding by several analysts: the review panel    *)
(* sends its whole form, update_review loads the row, sets the fields and  *)
(* writes back those that differ from what it loaded, with an optional     *)
(* note in the same transaction, and answers with the row read again.      *)
(***************************************************************************)
EXTENDS Naturals, FiniteSets

CONSTANTS
  Client,     \* review panels, in one browser or several
  Form,       \* what analysts send: review_status, analyst_verdict or "unset", a note
  MaxSaves,   \* bound: how often somebody presses "Save review"
  Faults      \* the kinds of failure a run may meet

ReviewStatus == {"new", "investigating", "reviewed"}
Verdict      == {"unset", "true_positive", "false_positive", "benign", "suspicious",
                 "needs_more_evidence", "ignored"}
Columns      == [review_status : ReviewStatus, verdict : Verdict]
Unread       == [review_status |-> "new", verdict |-> "unset"]

Answer       == [review_status : ReviewStatus, verdict : Verdict, note : BOOLEAN]

VARIABLES
  row,        \* risk_findings: the review columns and the number of updates
  notes,      \* analyst_notes: the saves whose note is stored
  save,       \* panel: the request under way, and what its handler loaded
  saves,      \* saves sent so far
  sent,       \* history: the forms sent so far
  crossed     \* history: a save committed between the load and commit of another

vars == <<row, notes, save, saves, sent, crossed>>

Row    == [form : Columns, reviewed_at : 0..MaxSaves, version : 0..MaxSaves]
NewRow == [form |-> Unread, reviewed_at |-> 0, version |-> 0]
Blank  == [review_status |-> "new", verdict |-> "unset", note |-> FALSE]
Idle   == [at |-> "idle", form |-> Blank, id |-> 0, loaded |-> NewRow]

Init ==
  /\ row = NewRow /\ notes = {} /\ saves = 0
  /\ save = [c \in Client |-> Idle]
  /\ sent = {Unread} /\ crossed = FALSE

\* saveReview: the button is disabled until the answer is there.
Send(c, form) ==
  /\ save[c].at = "idle"
  /\ saves < MaxSaves
  /\ saves' = saves + 1
  /\ save' = [save EXCEPT ![c] = [at |-> "sent", form |-> form, id |-> saves + 1,
                                  loaded |-> NewRow]]
  /\ sent' = sent \cup {[f \in DOMAIN Unread |-> form[f]]}
  /\ UNCHANGED <<row, notes, crossed>>

Load(c) ==
  /\ save[c].at = "sent"
  /\ save' = [save EXCEPT ![c] = [@ EXCEPT !.at = "loaded", !.loaded = row]]
  /\ UNCHANGED <<row, notes, saves, sent, crossed>>

\* The handler's UPDATE has the columns that differ from the loaded ones.  Mutated
\* form: the panel leaves out a verdict that is not set.
SetOnly(old, loaded, new) ==
  [review_status |-> new.review_status,
   verdict |-> IF new.verdict = "unset" THEN old.verdict ELSE new.verdict]
Written(old, loaded, new) ==
  [f \in DOMAIN old |-> IF new[f] = loaded[f] THEN old[f] ELSE new[f]]

\* reviewed_at is set by the first save as reviewed.
ReviewedAt(loaded, new, now) ==
  IF new.review_status = "reviewed" /\ loaded.reviewed_at = 0 THEN now
  ELSE loaded.reviewed_at

\* create_finding_note, in the transaction of the review.
NoteOf(k) == IF k.form.note THEN {k.id} ELSE {}

Outcome == {"committed"} \cup (Faults \cap {"rollback", "in_doubt"})

Commit(c) ==
  LET k == save[c]
      at == ReviewedAt(k.loaded, k.form, row.version + 1)
      new == [form        |-> Written(row.form, k.loaded.form, k.form),
              reviewed_at |-> IF at = k.loaded.reviewed_at THEN row.reviewed_at ELSE at,
              version     |-> row.version + 1]
  IN
  /\ k.at = "loaded"
  /\ \E o \in Outcome :
       LET applied == o # "rollback" IN
       /\ row' = IF applied THEN new ELSE row
       /\ notes' = IF applied THEN notes \cup NoteOf(k) ELSE notes
       /\ crossed' = (crossed \/ (applied /\ k.loaded # row))
       /\ save' = [save EXCEPT ![c] = IF o = "committed" THEN [@ EXCEPT !.at = "stored"]
                                                         ELSE Idle]
  /\ UNCHANGED <<saves, sent>>

\* The row is read again for the answer.
Refresh(c) ==
  /\ save[c].at = "stored"
  /\ save' = [save EXCEPT ![c] = [@ EXCEPT !.at = "answered", !.loaded = row]]
  /\ UNCHANGED <<row, notes, saves, sent, crossed>>

Answered(c) ==
  /\ save[c].at = "answered"
  /\ save' = [save EXCEPT ![c] = Idle]
  /\ UNCHANGED <<row, notes, saves, sent, crossed>>

Serve(c) == Load(c) \/ Commit(c) \/ Refresh(c)

Next ==
  \E c \in Client :
    \/ \E form \in Form : Send(c, form)
    \/ Serve(c)
    \/ Answered(c)

Spec == Init /\ [][Next]_vars

-----------------------------------------------------------------------------
ReviewOK ==
  /\ row \in Row
  /\ notes \subseteq 1..MaxSaves
  /\ saves \in 0..MaxSaves /\ row.version <= saves
  /\ save \in [Client -> [at : {"idle", "sent", "loaded", "stored", "answered"},
                          form : Answer, id : 0..MaxSaves, loaded : Row]]
  /\ sent \subseteq Columns /\ crossed \in BOOLEAN

\* What the row says was on one analyst's screen: the columns of two forms are
\* mixed only when one save is loaded before and written after another.
RowIsOneForm == row.form \in sent \/ crossed

\* A finding that was ever saved as reviewed has the time of that review, also
\* after somebody has put it back, and whoever else is saving.
ReviewedHasTime ==
  row.form.review_status = "reviewed" => row.reviewed_at \in 1..row.version

\* So a review is one analyst's, however many are at it.
ReviewIsWhole == RowIsOneForm /\ ReviewedHasTime
=============================================================================
