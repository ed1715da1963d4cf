---------------------------- MODULE JobPageProofs ----------------------------
(***************************************************************************)
(* Theorems about JobPage, and the reviews of FindingReview within it, for *)
(* any sections, forms and filters, and any number of saves and polls.     *)
(***************************************************************************)
EXTENDS JobPage, TLAPS

USE DEF OnTerminal, PollsDropped, IsActive

-----------------------------------------------------------------------------
(* The reviews and the tables behind the page.                             *)

\* A step of the page is at most one step of the reviews and one of the tables.
LEMMA ReviewMoves ==
  ASSUME [Next]_vars
  PROVE  Reviews!Next \/ UNCHANGED reviewVars
<1>1. CASE SavePressed
  BY <1>1 DEF SavePressed, Reviews!Next, Panel
<1>2. CASE SaveAnswered
  BY <1>2 DEF SaveAnswered, Reviews!Next, Panel
<1>3. CASE ReviewServed
  BY <1>3 DEF ReviewServed, Reviews!Next
<1>4. CASE ColleagueReviews
  BY <1>4 DEF ColleagueReviews, Reviews!Next, Panel
<1>5. CASE UNCHANGED vars
  BY <1>5 DEF vars
<1>6. CASE ~(SavePressed \/ SaveAnswered \/ ReviewServed \/ ColleagueReviews) /\ Next
  BY <1>6 DEF Next, Open, ReadJob, JobLoaded, LoadFails, Poll, PollAnswered, PollFails, SetJob,
     Read, SectionArrives, ArtifactsArrive, FinalArrives, Arrive, SetFilter, WorkerStep
<1> QED
  BY <1>1, <1>2, <1>3, <1>4, <1>5, <1>6

LEMMA TableMoves ==
  ASSUME [Next]_vars
  PROVE  \/ Tables!Next /\ UNCHANGED <<reviewVars, pageVars>>
         \/ UNCHANGED backendVars
<1>1. CASE WorkerStep
  BY <1>1 DEF WorkerStep
<1>2. CASE UNCHANGED vars
  BY <1>2 DEF vars
<1>3. CASE ~WorkerStep /\ Next
  BY <1>3 DEF Next, Open, ReadJob, JobLoaded, LoadFails, Poll, PollAnswered, PollFails, SetJob,
     Read, SectionArrives, ArtifactsArrive, FinalArrives, Arrive, SetFilter, SavePressed,
     SaveAnswered, ReviewServed, ColleagueReviews
<1> QED
  BY <1>1, <1>2, <1>3

SaveRecord ==
  {k \in [at : {"idle", "sent", "loaded", "stored", "answered"}, form : Reviews!Answer,
          id : 0..MaxSaves, loaded : Reviews!Row] : k.at \in {"sent", "loaded"} => k.id # 0}

\* 1 for a save whose handler has not committed yet.
Uncommitted(k) == IF k.at \in {"sent", "loaded"} THEN 1 ELSE 0
OpenSaves == Uncommitted(save["page"]) + Uncommitted(save["colleague"])

\* Every version of the finding comes from a save of its own.
ReviewTypes ==
  /\ Reviews!ReviewOK /\ save \in [Panel -> SaveRecord]
  /\ row.version + OpenSaves <= saves

LEMMA ReviewFields ==
  ASSUME ReviewTypes
  PROVE  /\ row \in Reviews!Row
         /\ row.form \in Reviews!Columns
         /\ row.reviewed_at \in 0..MaxSaves /\ row.version \in 0..MaxSaves
         /\ saves \in 0..MaxSaves /\ save \in [Panel -> SaveRecord]
         /\ OpenSaves \in 0..2 /\ row.version + OpenSaves <= saves
  BY DEF ReviewTypes, Reviews!ReviewOK, Reviews!Row, SaveRecord, OpenSaves, Uncommitted

LEMMA RecordsOK ==
  /\ Reviews!Idle \in SaveRecord /\ Uncommitted(Reviews!Idle) = 0
  /\ Reviews!NewRow \in Reviews!Row
  /\ Reviews!Unread \in Reviews!Columns
<1>0. 0 \in 0..MaxSaves
  BY ReviewAssumption
<1>1. Reviews!Unread \in Reviews!Columns
  BY DEF Reviews!Unread, Reviews!Columns, Reviews!ReviewStatus, Reviews!Verdict
<1>2. Reviews!NewRow \in Reviews!Row
  BY <1>0, <1>1 DEF Reviews!NewRow, Reviews!Row
<1>3. Reviews!Blank \in Reviews!Answer
  BY DEF Reviews!Blank, Reviews!Answer, Reviews!ReviewStatus, Reviews!Verdict
<1>4. Reviews!Idle \in SaveRecord /\ Reviews!Idle.at = "idle"
  BY <1>0, <1>2, <1>3 DEF Reviews!Idle, SaveRecord
<1> QED
  BY <1>1, <1>2, <1>4 DEF Uncommitted

\* The save of one panel changes.
LEMMA OneSave ==
  ASSUME save \in [Panel -> SaveRecord], NEW c \in Panel, NEW k \in SaveRecord,
         save' = [save EXCEPT ![c] = k]
  PROVE  /\ save' \in [Panel -> SaveRecord]
         /\ save'[c] = k
         /\ \A d \in Panel \ {c} : save'[d] = save[d]
         /\ OpenSaves' = OpenSaves - Uncommitted(save[c]) + Uncommitted(k)
<1>1. /\ save' \in [Panel -> SaveRecord] /\ save'[c] = k
      /\ \A d \in Panel \ {c} : save'[d] = save[d]
  OBVIOUS
<1>2. CASE c = "page"
  <2>1. save'["page"] = k /\ save'["colleague"] = save["colleague"]
    BY <1>1, <1>2 DEF Panel
  <2> QED BY <1>1, <1>2, <2>1 DEF OpenSaves, Uncommitted
<1>3. CASE c = "colleague"
  <2>1. save'["colleague"] = k /\ save'["page"] = save["page"]
    BY <1>1, <1>3 DEF Panel
  <2> QED BY <1>1, <1>3, <2>1 DEF OpenSaves, Uncommitted
<1> QED
  BY <1>2, <1>3 DEF Panel

\* The columns a form is about.
Columns(form) == [f \in DOMAIN Reviews!Unread |-> form[f]]

\* What a step of the reviews does to one save and to the row.
ReviewEffect(c) ==
  \/ \E form \in Form :
       /\ save[c].at = "idle" /\ saves < MaxSaves /\ saves' = saves + 1
       /\ save' = [save EXCEPT ![c] = [at |-> "sent", form |-> form, id |-> saves + 1,
                                       loaded |-> Reviews!NewRow]]
       /\ sent' = sent \cup {Columns(form)}
       /\ UNCHANGED <<row, notes, crossed>>
  \/ \E p \in {"loaded", "answered"} :
       /\ p = "loaded" => save[c].at = "sent"
       /\ p = "answered" => save[c].at = "stored"
       /\ save' = [save EXCEPT ![c] = [save[c] EXCEPT !.at = p, !.loaded = row]]
       /\ UNCHANGED <<row, notes, saves, sent, crossed>>
  \/ /\ save[c].at \in {"loaded", "answered"}
     /\ save' = [save EXCEPT ![c] = Reviews!Idle]
     /\ UNCHANGED <<row, notes, saves, sent, crossed>>
  \/ /\ save[c].at = "loaded"
     /\ \E k \in {Reviews!Idle, [save[c] EXCEPT !.at = "stored"]} :
          save' = [save EXCEPT ![c] = k]
     /\ row' = [form |-> Reviews!Written(row.form, save[c].loaded.form, save[c].form),
                reviewed_at |->
                  IF Reviews!ReviewedAt(save[c].loaded, save[c].form, row.version + 1)
                       = save[c].loaded.reviewed_at
                    THEN row.reviewed_at
                    ELSE Reviews!ReviewedAt(save[c].loaded, save[c].form, row.version + 1),
                version |-> row.version + 1]
     /\ notes' = notes \cup Reviews!NoteOf(save[c])
     /\ crossed' = (crossed \/ save[c].loaded # row)
     /\ UNCHANGED <<saves, sent>>

LEMMA ReviewEffects ==
  ASSUME ReviewTypes, Reviews!Next
  PROVE  \E c \in Panel : ReviewEffect(c)
<1>1. PICK c \in Panel : (\E form \in Form : Reviews!Send(c, form)) \/ Reviews!Serve(c)
                         \/ Reviews!Answered(c)
  BY DEF Reviews!Next
<1>2. ASSUME NEW form \in Form, Reviews!Send(c, form) PROVE ReviewEffect(c)
  BY <1>2 DEF Reviews!Send, ReviewEffect, Columns
<1>3. CASE Reviews!Load(c)
  BY <1>3 DEF Reviews!Load, ReviewEffect
<1>4. CASE Reviews!Refresh(c)
  BY <1>4 DEF Reviews!Refresh, ReviewEffect
<1>5. CASE Reviews!Answered(c)
  BY <1>5 DEF Reviews!Answered, ReviewEffect
<1>6. CASE Reviews!Commit(c)
  <2>1. PICK o \in Reviews!Outcome :
          /\ crossed' = (crossed \/ (o # "rollback" /\ save[c].loaded # row))
          /\ save' = [save EXCEPT ![c] = IF o = "committed"
                                         THEN [save[c] EXCEPT !.at = "stored"] ELSE Reviews!Idle]
          /\ notes' = IF o # "rollback" THEN notes \cup Reviews!NoteOf(save[c]) ELSE notes
          /\ row' = IF o # "rollback"
                    THEN [form |-> Reviews!Written(row.form, save[c].loaded.form, save[c].form),
                          reviewed_at |->
                            IF Reviews!ReviewedAt(save[c].loaded, save[c].form, row.version + 1)
                                 = save[c].loaded.reviewed_at
                              THEN row.reviewed_at
                              ELSE Reviews!ReviewedAt(save[c].loaded, save[c].form,
                                                      row.version + 1),
                          version |-> row.version + 1]
                    ELSE row
    BY <1>6 DEF Reviews!Commit
  <2>2. save[c].at = "loaded" /\ UNCHANGED <<saves, sent>>
    BY <1>6 DEF Reviews!Commit
  <2>3. CASE o = "rollback"
    <3>1. crossed \in BOOLEAN
      BY DEF ReviewTypes, Reviews!ReviewOK
    <3>2. UNCHANGED <<row, notes, crossed>>
      BY <2>1, <2>3, <3>1
    <3>3. save' = [save EXCEPT ![c] = Reviews!Idle]
      BY <2>1, <2>3
    <3> QED BY <2>2, <3>2, <3>3 DEF ReviewEffect
  <2>4. CASE o # "rollback"
    <3>1. crossed' = (crossed \/ save[c].loaded # row)
      BY <2>1, <2>4
    <3>2. \E k \in {Reviews!Idle, [save[c] EXCEPT !.at = "stored"]} :
            save' = [save EXCEPT ![c] = k]
      BY <2>1
    <3> QED BY <2>1, <2>2, <2>4, <3>1, <3>2 DEF ReviewEffect
  <2> QED BY <2>3, <2>4
<1> QED
  BY <1>1, <1>2, <1>3, <1>4, <1>5, <1>6 DEF Reviews!Serve

\* The row a commit writes, over what was there and what its handler had loaded.
LEMMA WrittenOK ==
  ASSUME NEW old \in Reviews!Columns, NEW loaded \in Reviews!Columns, NEW new \in Reviews!Answer
  PROVE  /\ Reviews!Written(old, loaded, new) \in Reviews!Columns
         /\ Reviews!Written(old, loaded, new).review_status
              = IF new.review_status = loaded.review_status THEN old.review_status
                                                            ELSE new.review_status
         /\ old = loaded => Reviews!Written(old, loaded, new)
                              = Columns(new)
<1>1. DOMAIN old = {"review_status", "verdict"}
      /\ DOMAIN Reviews!Unread = {"review_status", "verdict"}
  BY DEF Reviews!Columns, Reviews!Unread
<1>2. /\ old.review_status \in Reviews!ReviewStatus /\ old.verdict \in Reviews!Verdict
      /\ new.review_status \in Reviews!ReviewStatus /\ new.verdict \in Reviews!Verdict
  BY DEF Reviews!Columns, Reviews!Answer
<1>3. PICK r : r = Reviews!Written(old, loaded, new)
  OBVIOUS
<1>4. r = [f \in {"review_status", "verdict"} |-> IF new[f] = loaded[f] THEN old[f] ELSE new[f]]
  BY <1>1, <1>3 DEF Reviews!Written
<1>5. r = [review_status |-> IF new.review_status = loaded.review_status
                               THEN old.review_status ELSE new.review_status,
           verdict |-> IF new.verdict = loaded.verdict THEN old.verdict ELSE new.verdict]
  BY <1>4
<1>6. r \in Reviews!Columns
      /\ r.review_status = IF new.review_status = loaded.review_status
                             THEN old.review_status ELSE new.review_status
  BY <1>2, <1>5 DEF Reviews!Columns
<1>7. ASSUME old = loaded PROVE r = Columns(new)
  BY <1>1, <1>4, <1>7 DEF Columns
<1> QED
  BY <1>3, <1>6, <1>7

LEMMA ReviewTypesInit == Init => ReviewTypes
<1> SUFFICES ASSUME Init PROVE ReviewTypes
  OBVIOUS
<1>1. /\ row = Reviews!NewRow /\ row.version = 0 /\ notes = {} /\ saves = 0
      /\ save = [c \in Panel |-> Reviews!Idle] /\ sent = {Reviews!Unread} /\ crossed = FALSE
  BY DEF Init, Reviews!Init, Reviews!NewRow
<1>2. OpenSaves = 0
  BY <1>1, RecordsOK DEF OpenSaves, Panel
<1>3. save \in [Panel -> SaveRecord] /\ row \in Reviews!Row /\ sent \subseteq Reviews!Columns
  BY <1>1, RecordsOK
<1>4. saves \in 0..MaxSaves
  BY <1>1, ReviewAssumption
<1>5. Reviews!ReviewOK
  <2>1. row.version <= saves
    BY <1>1
  <2>3. notes \subseteq 1..MaxSaves /\ crossed \in BOOLEAN
    BY <1>1
  <2>2. \A k \in SaveRecord : k \in [at : {"idle", "sent", "loaded", "stored", "answered"},
                                     form : Reviews!Answer, id : 0..MaxSaves,
                                     loaded : Reviews!Row]
    BY DEF SaveRecord
  <2> QED BY <1>3, <1>4, <2>1, <2>2, <2>3 DEF Reviews!ReviewOK
<1> QED
  BY <1>1, <1>2, <1>3, <1>5 DEF ReviewTypes

LEMMA ReviewTypesEffect ==
  ASSUME ReviewTypes, NEW c \in Panel, ReviewEffect(c)
  PROVE  ReviewTypes'
<1>0. /\ row \in Reviews!Row /\ row.form \in Reviews!Columns /\ row.reviewed_at \in 0..MaxSaves
      /\ row.version \in 0..MaxSaves /\ saves \in 0..MaxSaves /\ MaxSaves \in Nat
      /\ save \in [Panel -> SaveRecord] /\ OpenSaves \in 0..2
      /\ row.version + OpenSaves <= saves
      /\ notes \subseteq 1..MaxSaves /\ sent \subseteq Reviews!Columns /\ crossed \in BOOLEAN
      /\ row.version \in Nat /\ saves \in Nat
  BY ReviewFields, ReviewAssumption DEF ReviewTypes, Reviews!ReviewOK
<1>1. PICK k \in SaveRecord : k = save[c]
  BY <1>0
<1>a. k.form \in Reviews!Answer /\ k.loaded \in Reviews!Row /\ k.id \in 0..MaxSaves
  BY <1>1 DEF SaveRecord
<1>2. ASSUME NEW m \in SaveRecord, save' = [save EXCEPT ![c] = m],
             row'.version + Uncommitted(m) - Uncommitted(k) - row.version <= saves' - saves,
             row' \in Reviews!Row, notes' \subseteq 1..MaxSaves, saves' \in 0..MaxSaves,
             sent' \subseteq Reviews!Columns, crossed' \in BOOLEAN
      PROVE  ReviewTypes'
  <2>1. /\ save' \in [Panel -> SaveRecord]
        /\ OpenSaves' = OpenSaves - Uncommitted(k) + Uncommitted(m)
    BY <1>0, <1>1, <1>2, OneSave
  <2>2. OpenSaves' \in 0..2
    BY <2>1 DEF OpenSaves, Uncommitted
  <2>3. row'.version \in Nat
    BY <1>0, <1>2 DEF Reviews!Row
  <2>4. row'.version + OpenSaves' <= saves'
    BY <1>0, <1>2, <2>1, <2>2, <2>3 DEF Uncommitted
  <2>5. row'.version <= saves'
    BY <1>2, <2>2, <2>3, <2>4
  <2> QED BY <1>2, <2>1, <2>4, <2>5 DEF ReviewTypes, Reviews!ReviewOK, SaveRecord
<1>3. ASSUME NEW form \in Form, k.at = "idle", saves < MaxSaves, saves' = saves + 1,
             save' = [save EXCEPT ![c] = [at |-> "sent", form |-> form, id |-> saves + 1,
                                          loaded |-> Reviews!NewRow]],
             sent' = sent \cup {Columns(form)},
             UNCHANGED <<row, notes, crossed>>
      PROVE  ReviewTypes'
  <2>1. form \in Reviews!Answer
    BY ReviewAssumption
  <2>2. PICK m : m = [at |-> "sent", form |-> form, id |-> saves + 1, loaded |-> Reviews!NewRow]
    OBVIOUS
  <2>3. m \in SaveRecord /\ Uncommitted(m) = 1 /\ Uncommitted(k) = 0
    BY <1>0, <1>3, <2>1, <2>2, RecordsOK DEF SaveRecord, Uncommitted
  <2>4. Columns(form) \in Reviews!Columns
    BY <2>1, WrittenOK, RecordsOK
  <2>5. save' = [save EXCEPT ![c] = m]
    BY <1>3, <2>2
  <2>6. row'.version + Uncommitted(m) - Uncommitted(k) - row.version <= saves' - saves
    BY <1>0, <1>3, <2>3
  <2>7. saves' \in 0..MaxSaves /\ sent' \subseteq Reviews!Columns
    BY <1>0, <1>3, <2>4
  <2> QED BY <1>0, <1>2, <1>3, <2>3, <2>5, <2>6, <2>7
<1>4. ASSUME NEW p \in {"loaded", "answered"},
             p = "loaded" => k.at = "sent", p = "answered" => k.at = "stored",
             save' = [save EXCEPT ![c] = [k EXCEPT !.at = p, !.loaded = row]],
             UNCHANGED <<row, notes, saves, sent, crossed>>
      PROVE  ReviewTypes'
  <2>1. PICK m : m = [k EXCEPT !.at = p, !.loaded = row]
    OBVIOUS
  <2>2. m \in SaveRecord /\ m.at = p
    <3>1. /\ m \in [at : {"idle", "sent", "loaded", "stored", "answered"},
                     form : Reviews!Answer, id : 0..MaxSaves, loaded : Reviews!Row]
          /\ m.at = p /\ m.id = k.id
      BY <1>0, <2>1 DEF SaveRecord
    <3>2. p = "loaded" => k.id # 0
      BY <1>4 DEF SaveRecord
    <3> QED BY <3>1, <3>2 DEF SaveRecord
  <2>3. Uncommitted(m) = Uncommitted(k)
    BY <1>4, <2>2 DEF Uncommitted
  <2>4. save' = [save EXCEPT ![c] = m]
    BY <1>4, <2>1
  <2>5. row'.version + Uncommitted(m) - Uncommitted(k) - row.version <= saves' - saves
    BY <1>0, <1>4, <2>3 DEF Uncommitted
  <2> QED BY <1>0, <1>2, <1>4, <2>2, <2>4, <2>5
<1>5. ASSUME k.at \in {"loaded", "answered"}, save' = [save EXCEPT ![c] = Reviews!Idle],
             UNCHANGED <<row, notes, saves, sent, crossed>>
      PROVE  ReviewTypes'
  <2>1. Uncommitted(Reviews!Idle) - Uncommitted(k) <= 0
    BY RecordsOK DEF Uncommitted
  <2>2. row'.version + Uncommitted(Reviews!Idle) - Uncommitted(k) - row.version
          <= saves' - saves
    BY <1>0, <1>5, <2>1 DEF Uncommitted
  <2> QED BY <1>0, <1>2, <1>5, <2>2, RecordsOK
<1>6. ASSUME k.at = "loaded",
             NEW m \in {Reviews!Idle, [k EXCEPT !.at = "stored"]}, save' = [save EXCEPT ![c] = m],
             NEW at \in 0..MaxSaves,
             row' = [form |-> Reviews!Written(row.form, k.loaded.form, k.form),
                     reviewed_at |-> at, version |-> row.version + 1],
             notes' = notes \cup Reviews!NoteOf(k), crossed' \in BOOLEAN,
             UNCHANGED <<saves, sent>>
      PROVE  ReviewTypes'
  <2>1. m \in SaveRecord /\ Uncommitted(m) = 0 /\ Uncommitted(k) = 1
    BY <1>6, RecordsOK DEF SaveRecord, Uncommitted
  <2>2. row.version + 1 <= saves
    BY <1>0, <1>1, <2>1 DEF OpenSaves, Uncommitted, Panel
  <2>3. k.loaded.form \in Reviews!Columns
    BY <1>a DEF Reviews!Row
  <2>4. Reviews!Written(row.form, k.loaded.form, k.form) \in Reviews!Columns
    BY <1>0, <1>a, <2>3, WrittenOK
  <2>5. row' \in Reviews!Row /\ row'.version = row.version + 1
    BY <1>0, <1>6, <2>2, <2>4 DEF Reviews!Row
  <2>6. notes' \subseteq 1..MaxSaves
    <3>1. k.id \in 1..MaxSaves
      BY <1>0, <1>6 DEF SaveRecord
    <3> QED BY <1>0, <1>6, <3>1 DEF Reviews!NoteOf
  <2>7. row'.version + Uncommitted(m) - Uncommitted(k) - row.version <= saves' - saves
    BY <1>0, <1>6, <2>1, <2>5
  <2> QED BY <1>0, <1>2, <1>6, <2>1, <2>5, <2>6, <2>7
<1>7. CASE \E form \in Form :
             /\ save[c].at = "idle" /\ saves < MaxSaves /\ saves' = saves + 1
             /\ save' = [save EXCEPT ![c] = [at |-> "sent", form |-> form, id |-> saves + 1,
                                             loaded |-> Reviews!NewRow]]
             /\ sent' = sent \cup {Columns(form)}
             /\ UNCHANGED <<row, notes, crossed>>
  BY <1>1, <1>3, <1>7
<1>8. CASE \E p \in {"loaded", "answered"} :
             /\ p = "loaded" => save[c].at = "sent"
             /\ p = "answered" => save[c].at = "stored"
             /\ save' = [save EXCEPT ![c] = [save[c] EXCEPT !.at = p, !.loaded = row]]
             /\ UNCHANGED <<row, notes, saves, sent, crossed>>
  BY <1>1, <1>4, <1>8
<1>9. CASE /\ save[c].at \in {"loaded", "answered"}
           /\ save' = [save EXCEPT ![c] = Reviews!Idle]
           /\ UNCHANGED <<row, notes, saves, sent, crossed>>
  BY <1>1, <1>5, <1>9
<1>10. ASSUME k.at = "loaded"
       PROVE  (IF Reviews!ReviewedAt(k.loaded, k.form, row.version + 1) = k.loaded.reviewed_at
                 THEN row.reviewed_at
                 ELSE Reviews!ReviewedAt(k.loaded, k.form, row.version + 1)) \in 0..MaxSaves
  <2>1. Uncommitted(k) = 1
    BY <1>10 DEF Uncommitted
  <2>2. row.version + 1 <= saves
    BY <1>0, <1>1, <2>1 DEF OpenSaves, Uncommitted, Panel
  <2> QED BY <1>0, <2>2 DEF Reviews!ReviewedAt
<1>11. CASE /\ save[c].at = "loaded"
            /\ \E m \in {Reviews!Idle, [save[c] EXCEPT !.at = "stored"]} :
                 save' = [save EXCEPT ![c] = m]
            /\ row' = [form |-> Reviews!Written(row.form, save[c].loaded.form, save[c].form),
                       reviewed_at |->
                         IF Reviews!ReviewedAt(save[c].loaded, save[c].form, row.version + 1)
                              = save[c].loaded.reviewed_at
                           THEN row.reviewed_at
                           ELSE Reviews!ReviewedAt(save[c].loaded, save[c].form,
                                                   row.version + 1),
                       version |-> row.version + 1]
            /\ notes' = notes \cup Reviews!NoteOf(save[c])
            /\ crossed' = (crossed \/ save[c].loaded # row)
            /\ UNCHANGED <<saves, sent>>
  <2>1. PICK at \in 0..MaxSaves :
          at = IF Reviews!ReviewedAt(k.loaded, k.form, row.version + 1) = k.loaded.reviewed_at
                 THEN row.reviewed_at
                 ELSE Reviews!ReviewedAt(k.loaded, k.form, row.version + 1)
    BY <1>1, <1>10, <1>11
  <2>2. PICK m \in {Reviews!Idle, [k EXCEPT !.at = "stored"]} : save' = [save EXCEPT ![c] = m]
    BY <1>1, <1>11
  <2>3. crossed' \in BOOLEAN
    BY <1>11
  <2>4. row' = [form |-> Reviews!Written(row.form, k.loaded.form, k.form),
                reviewed_at |-> at, version |-> row.version + 1]
    BY <1>1, <1>11, <2>1
  <2> QED BY <1>1, <1>6, <1>11, <2>2, <2>3, <2>4
<1> QED
  BY <1>7, <1>8, <1>9, <1>11 DEF ReviewEffect

LEMMA ReviewTypesStep == ReviewTypes /\ [Next]_vars => ReviewTypes'
<1> SUFFICES ASSUME ReviewTypes, [Next]_vars PROVE ReviewTypes'
  OBVIOUS
<1>1. CASE UNCHANGED reviewVars
  BY <1>1 DEF reviewVars, ReviewTypes, OpenSaves, Reviews!ReviewOK
<1>2. CASE Reviews!Next
  BY <1>2, ReviewEffects, ReviewTypesEffect
<1> QED
  BY <1>1, <1>2, ReviewMoves

LEMMA ReviewTypesCorrect == Spec => []ReviewTypes
  BY ReviewTypesInit, ReviewTypesStep, PTL DEF Spec

-----------------------------------------------------------------------------
(* A review is one analyst's.                                              *)

\* A save under way asks for one of the forms sent, and a review time that its
\* handler has loaded is never taken back.
FormsInv ==
  /\ ReviewIsWhole /\ row.reviewed_at <= row.version
  /\ \A c \in Panel :
       /\ save[c].at \in {"sent", "loaded"}
            => Columns(save[c].form) \in sent
       /\ save[c].at = "loaded" /\ save[c].loaded.reviewed_at # 0 => row.reviewed_at # 0

\* The version a handler has loaded is not newer than the row's.
VersionsInv ==
  \A c \in Panel : save[c].at = "answered" => save[c].loaded.version <= row.version

LEMMA FormsEffect ==
  ASSUME ReviewTypes, FormsInv, NEW c \in Panel, ReviewEffect(c)
  PROVE  FormsInv'
<1> USE DEF ReviewIsWhole, Reviews!ReviewIsWhole, Reviews!RowIsOneForm, Reviews!ReviewedHasTime
<1>0. /\ row \in Reviews!Row /\ row.form \in Reviews!Columns
      /\ row.reviewed_at \in 0..MaxSaves /\ row.version \in Nat
      /\ save \in [Panel -> SaveRecord]
  BY ReviewFields DEF Reviews!Row
<1>1. PICK k \in SaveRecord : k = save[c]
  BY <1>0
<1>2. /\ k.form \in Reviews!Answer /\ k.loaded \in Reviews!Row
      /\ k.loaded.form \in Reviews!Columns /\ k.loaded.reviewed_at \in Nat
  BY DEF SaveRecord, Reviews!Row
<1>3. Reviews!Idle.at = "idle"
  BY DEF Reviews!Idle
<1>4. CASE \E form \in Form :
             /\ save[c].at = "idle" /\ saves < MaxSaves /\ saves' = saves + 1
             /\ save' = [save EXCEPT ![c] = [at |-> "sent", form |-> form, id |-> saves + 1,
                                             loaded |-> Reviews!NewRow]]
             /\ sent' = sent \cup {Columns(form)}
             /\ UNCHANGED <<row, notes, crossed>>
  BY <1>0, <1>4 DEF FormsInv
<1>5. CASE \E p \in {"loaded", "answered"} :
             /\ p = "loaded" => save[c].at = "sent"
             /\ p = "answered" => save[c].at = "stored"
             /\ save' = [save EXCEPT ![c] = [save[c] EXCEPT !.at = p, !.loaded = row]]
             /\ UNCHANGED <<row, notes, saves, sent, crossed>>
  <2>1. PICK p \in {"loaded", "answered"} :
          /\ p = "loaded" => k.at = "sent"
          /\ save' = [save EXCEPT ![c] = [k EXCEPT !.at = p, !.loaded = row]]
          /\ UNCHANGED <<row, sent, crossed>>
    BY <1>1, <1>5
  <2>2. PICK m : m = [k EXCEPT !.at = p, !.loaded = row]
    OBVIOUS
  <2>3. m.at = p /\ m.loaded = row /\ m.form = k.form
    BY <2>2 DEF SaveRecord
  <2>4. save'[c] = m /\ \A d \in Panel \ {c} : save'[d] = save[d]
    BY <1>0, <2>1, <2>2
  <2> QED BY <1>1, <2>1, <2>3, <2>4 DEF FormsInv
<1>6. CASE /\ save[c].at \in {"loaded", "answered"}
           /\ save' = [save EXCEPT ![c] = Reviews!Idle]
           /\ UNCHANGED <<row, notes, saves, sent, crossed>>
  BY <1>0, <1>3, <1>6 DEF FormsInv
<1>7. CASE /\ save[c].at = "loaded"
           /\ \E m \in {Reviews!Idle, [save[c] EXCEPT !.at = "stored"]} :
                save' = [save EXCEPT ![c] = m]
           /\ row' = [form |-> Reviews!Written(row.form, save[c].loaded.form, save[c].form),
                      reviewed_at |->
                        IF Reviews!ReviewedAt(save[c].loaded, save[c].form, row.version + 1)
                             = save[c].loaded.reviewed_at
                          THEN row.reviewed_at
                          ELSE Reviews!ReviewedAt(save[c].loaded, save[c].form,
                                                  row.version + 1),
                      version |-> row.version + 1]
           /\ notes' = notes \cup Reviews!NoteOf(save[c])
           /\ crossed' = (crossed \/ save[c].loaded # row)
           /\ UNCHANGED <<saves, sent>>
  <2> DEFINE written == Reviews!Written(row.form, k.loaded.form, k.form)
             now     == Reviews!ReviewedAt(k.loaded, k.form, row.version + 1)
  <2>1. /\ row'.form = written
        /\ row'.reviewed_at = IF now = k.loaded.reviewed_at THEN row.reviewed_at ELSE now
        /\ row'.version = row.version + 1
    BY <1>1, <1>7
  <2>2. /\ written.review_status = IF k.form.review_status = k.loaded.form.review_status
                                     THEN row.form.review_status ELSE k.form.review_status
        /\ row.form = k.loaded.form
             => written = Columns(k.form)
    <3>1. PICK old \in Reviews!Columns : old = row.form
      BY <1>0
    <3>2. PICK loaded \in Reviews!Columns : loaded = k.loaded.form
      BY <1>2
    <3>3. PICK new \in Reviews!Answer : new = k.form
      BY <1>2
    <3>4. written = Reviews!Written(old, loaded, new)
      BY <3>1, <3>2, <3>3
    <3> HIDE DEF written
    <3>5. /\ Reviews!Written(old, loaded, new).review_status
               = IF new.review_status = loaded.review_status
                   THEN old.review_status ELSE new.review_status
          /\ old = loaded => Reviews!Written(old, loaded, new) = Columns(new)
      BY WrittenOK
    <3> QED BY <3>1, <3>2, <3>3, <3>4, <3>5
  <2>3. now = IF k.form.review_status = "reviewed" /\ k.loaded.reviewed_at = 0
                THEN row.version + 1 ELSE k.loaded.reviewed_at
    BY DEF Reviews!ReviewedAt
  <2>4. k.at = "loaded" /\ (k.loaded.reviewed_at # 0 => row.reviewed_at # 0)
        /\ Columns(k.form) \in sent
    BY <1>1, <1>7 DEF FormsInv
  <2> HIDE DEF written, now
  <2>5. row'.form \in sent' \/ crossed'
    <3>1. CASE row = k.loaded
      BY <1>7, <2>1, <2>2, <2>4, <3>1
    <3>2. CASE row # k.loaded
      BY <1>1, <1>7, <3>2
    <3> QED BY <3>1, <3>2
  <2>6. row.reviewed_at # 0 => row'.reviewed_at # 0
    BY <1>0, <1>2, <2>1, <2>3
  <2>7. row'.form.review_status = "reviewed" => row'.reviewed_at \in 1..row'.version
    <3>1. row.reviewed_at # 0 => row.reviewed_at \in 1..(row.version + 1)
      BY <1>0 DEF FormsInv
    <3>2. CASE now = row.version + 1 /\ now # k.loaded.reviewed_at
      BY <1>0, <2>1, <3>2
    <3>3. CASE now = k.loaded.reviewed_at
      <4>1. row'.reviewed_at = row.reviewed_at
        BY <2>1, <3>3
      <4> QED BY <1>0, <1>2, <2>1, <2>2, <2>3, <2>4, <3>1, <4>1 DEF FormsInv
    <3> QED BY <2>3, <3>2, <3>3
  <2>8. \A d \in Panel :
          /\ save'[d].at \in {"sent", "loaded"} => save'[d] = save[d]
          /\ save'[d].at = "loaded" => save'[d] = save[d]
    BY <1>0, <1>1, <1>3, <1>7 DEF SaveRecord
  <2>9. \A d \in Panel :
          /\ save'[d].at \in {"sent", "loaded"}
               => Columns(save'[d].form) \in sent'
          /\ save'[d].at = "loaded" /\ save'[d].loaded.reviewed_at # 0
               => row'.reviewed_at # 0
    BY <1>7, <2>6, <2>8 DEF FormsInv
  <2>10. row'.reviewed_at <= row'.version
    BY <1>0, <1>2, <2>1, <2>3 DEF FormsInv
  <2> QED BY <2>5, <2>7, <2>9, <2>10 DEF FormsInv
<1> QED
  BY <1>4, <1>5, <1>6, <1>7 DEF ReviewEffect

LEMMA FormsInit == Init => FormsInv
<1> SUFFICES ASSUME Init PROVE FormsInv
  OBVIOUS
<1>1. /\ row.form = Reviews!Unread /\ row.version = 0 /\ row.reviewed_at = 0
      /\ row.form.review_status = "new" /\ sent = {Reviews!Unread}
      /\ \A c \in Panel : save[c].at = "idle"
  BY DEF Init, Reviews!Init, Reviews!NewRow, Reviews!Unread, Reviews!Idle
<1> QED
  BY <1>1 DEF FormsInv, ReviewIsWhole, Reviews!ReviewIsWhole, Reviews!RowIsOneForm,
     Reviews!ReviewedHasTime

LEMMA FormsStep == ReviewTypes /\ FormsInv /\ [Next]_vars => FormsInv'
<1> SUFFICES ASSUME ReviewTypes, FormsInv, [Next]_vars PROVE FormsInv'
  OBVIOUS
<1>1. CASE UNCHANGED reviewVars
  BY <1>1 DEF reviewVars, FormsInv, ReviewIsWhole, Reviews!ReviewIsWhole, Reviews!RowIsOneForm,
     Reviews!ReviewedHasTime
<1>2. CASE Reviews!Next
  BY <1>2, ReviewEffects, FormsEffect
<1> QED
  BY <1>1, <1>2, ReviewMoves

\* The finding's columns are one analyst's form unless saves crossed, and a finding
\* saved as reviewed has its time, for any number of saves and any order of the
\* handlers' loads and commits.
THEOREM ReviewsWhole == Spec => []ReviewIsWhole
<1>1. FormsInv => ReviewIsWhole
  BY DEF FormsInv
<1> QED
  BY <1>1, FormsInit, FormsStep, ReviewTypesCorrect, PTL DEF Spec

LEMMA VersionsEffect ==
  ASSUME ReviewTypes, VersionsInv, NEW c \in Panel, ReviewEffect(c)
  PROVE  VersionsInv' /\ row'.version >= row.version
<1>0. row.version \in Nat /\ save \in [Panel -> SaveRecord]
  BY ReviewFields
<1>1. PICK k \in SaveRecord : k = save[c]
  BY <1>0
<1>2. \A d \in Panel : save[d].loaded.version \in Nat
  BY <1>0 DEF SaveRecord, Reviews!Row
<1>3. row' = row \/ row'.version = row.version + 1
  BY DEF ReviewEffect
<1>4. PICK m : /\ save' = [save EXCEPT ![c] = m]
               /\ m.at = "answered" => m.loaded = row
  <2>1. CASE \E p \in {"loaded", "answered"} :
               save' = [save EXCEPT ![c] = [k EXCEPT !.at = p, !.loaded = row]]
    <3>1. PICK p \in {"loaded", "answered"} :
            save' = [save EXCEPT ![c] = [k EXCEPT !.at = p, !.loaded = row]]
      BY <2>1
    <3>2. PICK m : m = [k EXCEPT !.at = p, !.loaded = row]
      OBVIOUS
    <3>3. m.loaded = row
      BY <3>2 DEF SaveRecord
    <3> QED BY <3>1, <3>2, <3>3
  <2>2. CASE \E m : save' = [save EXCEPT ![c] = m] /\ m.at # "answered"
    BY <2>2
  <2>3. Reviews!Idle.at = "idle" /\ [k EXCEPT !.at = "stored"].at = "stored"
    BY DEF Reviews!Idle, SaveRecord
  <2> QED BY <1>1, <2>1, <2>2, <2>3 DEF ReviewEffect
<1>5. \A d \in Panel : save'[d] = save[d] \/ (save'[d].at = "answered" => save'[d].loaded = row)
  BY <1>0, <1>4
<1>6. row'.version >= row.version
  BY <1>0, <1>3
<1> QED
  BY <1>0, <1>2, <1>3, <1>5, <1>6 DEF VersionsInv

LEMMA VersionsStep ==
  ReviewTypes /\ VersionsInv /\ [Next]_vars => VersionsInv' /\ row'.version >= row.version
<1> SUFFICES ASSUME ReviewTypes, VersionsInv, [Next]_vars
             PROVE  VersionsInv' /\ row'.version >= row.version
  OBVIOUS
<1>1. CASE UNCHANGED reviewVars
  BY <1>1, ReviewFields DEF reviewVars, VersionsInv
<1>2. CASE Reviews!Next
  BY <1>2, ReviewEffects, VersionsEffect
<1> QED
  BY <1>1, <1>2, ReviewMoves

LEMMA VersionsCorrect == Spec => []VersionsInv
<1>1. Init => VersionsInv
  BY DEF Init, Reviews!Init, Reviews!Idle, VersionsInv
<1> QED
  BY <1>1, ReviewTypesCorrect, VersionsStep, PTL DEF Spec

-----------------------------------------------------------------------------
(* Type correctness.                                                       *)

JobStatus == {"none"} \cup Active \cup Ended
RequestRecord == [at : {"none", "sent", "read", "error"}, got : 0..(MaxSaves + 1)]

TablesInv ==
  /\ status \in [{"job"} -> JobStatus]
  /\ DOMAIN phase = {"job"}
  /\ stored \in [{"job"} -> SUBSET (Section \cup {"report"})]

ViewTypes ==
  /\ load \in {"none", "sent", "done", "error"} \cup Active \cup Ended
  /\ job \in JobStatus
  /\ polls \subseteq Active \cup Ended
  /\ request \in [Slot -> RequestRecord]
  /\ shown \in [Section -> 0..(MaxSaves + 1)]
  /\ failed \subseteq Section /\ overtaken \subseteq Listed
  /\ filter \in Filter /\ savedUnder \in Filter
  /\ events \in 0..MaxEvents
  /\ ownSaved \in 0..MaxSaves /\ unsettled \in BOOLEAN
  /\ highPriorityTotal \in {Null} \cup 0..(MaxSaves + 1) /\ fresh \in BOOLEAN

\* Where the first load, the polls, the final requests and the saves can be at all.
StagesInv ==
  /\ load # "done" => job = "none" /\ polls = {}
  /\ job \in Ended => polls = {}
  /\ save["page"].at # "idle" => job = "completed"
  /\ \A s \in Listed : InFlight(<<"final", s>>) => job \in Ended

\* Statuses on their way to the page are not behind it, nor ahead of the tables.
StatusInv ==
  /\ load \in Active \cup Ended => Rank(load) <= Rank(status["job"])
  /\ Rank(job) <= Rank(status["job"])
  /\ \A v \in polls : Rank(job) <= Rank(v) /\ Rank(v) <= Rank(status["job"])

TypeInv == ReviewTypes /\ TablesInv /\ ViewTypes /\ StagesInv /\ StatusInv

LEMMA TypeInvType == TypeInv => TypeOK
  BY DEF TypeInv, ReviewTypes, TablesInv, ViewTypes, StagesInv, TypeOK, JobStatus, RequestRecord

LEMMA RankFacts ==
  /\ Rank("none") = 0 /\ Rank("queued") = 1 /\ Rank("running") = 2
  /\ Rank("completed") = 3 /\ Rank("failed") = 3
  /\ \A v \in JobStatus : Rank(v) \in 0..3 /\ (Rank(v) = 3 <=> v \in Ended)
  BY DEF Rank, JobStatus, Active, Ended

LEMMA SlotFacts ==
  /\ \A s \in Listed : <<"mount", s>> \in Slot /\ <<"final", s>> \in Slot
  /\ \A s \in Listed : {"mount"} \X With(s) \in SUBSET Slot
  /\ <<"drill", "artifacts">> \in Slot
  /\ \A slot \in Slot : slot = <<slot[1], slot[2]>>
  /\ \A slot \in Slot : slot[1] = "drill" => slot = <<"drill", "artifacts">>
  /\ "artifacts" \notin Listed /\ Listed \subseteq Section /\ "artifacts" \in Section
  /\ "priority" \notin Section
  BY PageAssumption DEF Slot, Section, With

LEMMA RequestFacts ==
  /\ NoRequest \in RequestRecord /\ Sent \in RequestRecord
  /\ NoRequest.at = "none" /\ Sent.at = "sent"
  BY ReviewAssumption DEF RequestRecord, NoRequest, Sent

LEMMA ContentOK ==
  ASSUME ReviewTypes, NEW s
  PROVE  Content(s) \in 0..(MaxSaves + 1)
  BY ReviewFields, ReviewAssumption DEF Content, Stored

LEMMA StartOK ==
  ASSUME request \in [Slot -> RequestRecord], NEW effects
  PROVE  /\ Start(effects) \in [Slot -> RequestRecord]
         /\ \A slot \in Slot : Start(effects)[slot] = IF slot[1] \in effects THEN Sent
                                                      ELSE request[slot]
  BY RequestFacts DEF Start

\* What a step of the worker does to the tables.
LEMMA TablesStep ==
  ASSUME TablesInv, Tables!Next
  PROVE  /\ TablesInv'
         /\ \/ status'["job"] = status["job"]
            \/ status["job"] = "none" /\ status'["job"] = "queued"
            \/ status["job"] = "queued" /\ status'["job"] = "running"
            \/ /\ status'["job"] = "completed"
               /\ phase'["job"] \in {"reporting", "failing"}
            \/ status["job"] # "none" /\ status'["job"] = "failed"
            \/ status'["job"] = "failed" /\ phase["job"] # "to come"
         /\ stored["job"] \subseteq stored'["job"]
         /\ phase["job"] \in {"reporting", "failing", "over"}
              => /\ phase'["job"] \in {"reporting", "failing", "over"}
                 /\ stored'["job"] \ {"report"} = stored["job"] \ {"report"}
<1> USE DEF TablesInv, JobStatus, Active, Ended
<1>1. PICK j \in {"job"} :
        \/ Tables!Submit(j) \/ Tables!Start(j) \/ Tables!Complete(j) \/ Tables!StoreReport(j)
        \/ Tables!End(j) \/ Tables!Reject(j)
        \/ \E kind \in (Listed \cup {"artifacts"}) \ {"report"} : Tables!Store(j, kind)
  BY DEF Tables!Next
<1>2. CASE Tables!Submit(j) \/ Tables!Reject(j)
  BY <1>1, <1>2 DEF Tables!Submit, Tables!Reject
<1>3. CASE Tables!Start(j)
  BY <1>1, <1>3 DEF Tables!Start
<1>4. CASE Tables!Complete(j)
  BY <1>1, <1>4 DEF Tables!Complete
<1>5. CASE Tables!StoreReport(j)
  BY <1>1, <1>5 DEF Tables!StoreReport
<1>6. CASE Tables!End(j)
  BY <1>1, <1>6 DEF Tables!End
<1>7. ASSUME NEW kind \in (Listed \cup {"artifacts"}) \ {"report"}, Tables!Store(j, kind)
      PROVE  /\ TablesInv' /\ status' = status /\ phase["job"] = "storing"
             /\ stored["job"] \subseteq stored'["job"]
  BY <1>1, <1>7 DEF Tables!Store, Section
<1> QED
  BY <1>1, <1>2, <1>3, <1>4, <1>5, <1>6, <1>7

\* setJob, on a status a poll or the first load has read.
LEMMA SetJobOK ==
  ASSUME TypeInv, NEW v \in Active \cup Ended, NEW left \in SUBSET (Active \cup Ended),
         SetJob(v, left),
         \/ load' = load /\ load = "done"
         \/ load' = "done" /\ left = {},
         job \in Ended => v = job, job \in Ended => left = {}
  PROVE  ViewTypes' /\ StagesInv'
<1> USE DEF TypeInv, ViewTypes, StagesInv, SetJob, reviewVars
<1>1. CASE v = job
  BY <1>1 DEF JobStatus, Active, Ended, InFlight
<1>2. CASE v # job
  <2>1. /\ request' \in [Slot -> RequestRecord]
        /\ \A slot \in Slot : slot[1] = "final" /\ v \notin Ended => request'[slot] = request[slot]
    BY <1>2, StartOK
  <2>2. job' = v /\ polls' = {} /\ job \notin Ended
    BY <1>2
  <2>3. unsettled' \in BOOLEAN
    BY <1>2
  <2>4. \A s \in Listed : <<"final", s>> \in Slot
    BY SlotFacts
  <2>5. \A s \in Listed : ~InFlight(<<"final", s>>)
    BY <2>2
  <2>6. \A s \in Listed : InFlight(<<"final", s>>)' => v \in Ended
    BY <2>1, <2>4, <2>5 DEF InFlight
  <2>7. ViewTypes'
    BY <2>1, <2>2, <2>3 DEF JobStatus
  <2>8. save["page"].at = "idle"
    BY <2>2 DEF Ended
  <2>9. StagesInv'
    BY <2>2, <2>6, <2>8
  <2> QED BY <2>7, <2>9
<1> QED
  BY <1>1, <1>2

\* The answers to requests.
LEMMA ArriveOK ==
  ASSUME TypeInv, NEW slots \in SUBSET Slot, Arrive(slots), overtaken' \subseteq Listed,
         \A x \in slots : x[2] \in Section
  PROVE  ViewTypes' /\ StagesInv'
<1> USE DEF TypeInv, ViewTypes, StagesInv
<1>1. \A slot \in Slot : request'[slot] = IF slot \in slots THEN NoRequest ELSE request[slot]
  BY DEF Arrive, Without
<1>2. request' \in [Slot -> RequestRecord]
  BY RequestFacts DEF Arrive, Without
<1>3. shown' \in [Section -> 0..(MaxSaves + 1)]
  <2>1. ASSUME NEW s \in Section,
               s \in {slot[2] : slot \in {x \in slots : request[x].at = "read"}}
        PROVE  request[CHOOSE x \in slots : x[2] = s].got \in 0..(MaxSaves + 1)
    <3>1. \E x \in slots : x[2] = s
      BY <2>1
    <3>2. (CHOOSE x \in slots : x[2] = s) \in slots
      BY <3>1
    <3> QED BY <3>2 DEF RequestRecord
  <2> QED BY <2>1 DEF Arrive
<1>4. failed' \subseteq Section
  BY SlotFacts DEF Arrive
<1>5. ViewTypes'
  BY <1>2, <1>3, <1>4 DEF Arrive
<1>6. \A s \in Listed : InFlight(<<"final", s>>)' => InFlight(<<"final", s>>)
  BY <1>1, SlotFacts, RequestFacts DEF InFlight
<1>7. StagesInv'
  BY <1>6 DEF Arrive, reviewVars
<1> QED
  BY <1>5, <1>7

LEMMA PageStepOK ==
  ASSUME TypeInv, [Next]_vars
  PROVE  ViewTypes' /\ StagesInv'
<1> USE DEF TypeInv, ViewTypes, StagesInv, reviewVars, backendVars
<1>0. TablesInv /\ MaxSaves \in Nat /\ MaxEvents \in Nat
  BY ReviewAssumption, PageAssumption
<1>1. CASE Open
  <2>1. request' = Start({"mount", "drill"}) /\ request \in [Slot -> RequestRecord]
    BY <1>1 DEF Open
  <2>2. /\ request' \in [Slot -> RequestRecord]
        /\ \A slot \in Slot : slot[1] = "final" => request'[slot] = request[slot]
    BY <2>1, StartOK
  <2>3. \A s \in Listed : request'[<<"final", s>>] = request[<<"final", s>>]
    BY <2>2, SlotFacts
  <2> QED BY <1>1, <2>2, <2>3 DEF Open, InFlight, Ended, FirstEffectRuns
<1>2. CASE ReadJob
  <2>1. status["job"] \in JobStatus
    BY <1>0 DEF TablesInv
  <2> QED BY <1>2, <2>1 DEF ReadJob, JobStatus, InFlight, Active, Ended
<1>3. CASE JobLoaded
  <2>1. load \in Active \cup Ended /\ load' = "done" /\ SetJob(load, {})
    BY <1>3 DEF JobLoaded
  <2>2. job = "none" /\ polls = {}
    BY <2>1 DEF Active, Ended
  <2> QED BY <2>1, <2>2, SetJobOK DEF Ended
<1>4. CASE LoadFails
  BY <1>0, <1>4 DEF LoadFails, InFlight
<1>5. CASE Poll
  <2>1. status["job"] \in JobStatus
    BY <1>0 DEF TablesInv
  <2>2. job \in Active /\ load = "done"
    BY <1>5 DEF Poll, Active
  <2>3. status["job"] # "none"
    BY <2>2, RankFacts DEF StatusInv, Active
  <2> QED BY <1>5, <2>1, <2>2, <2>3 DEF Poll, JobStatus, InFlight, Active, Ended
<1>6. CASE PollAnswered
  <2>1. PICK v \in polls : SetJob(v, polls \ {v})
    BY <1>6 DEF PollAnswered
  <2>2. load' = load /\ load = "done" /\ job \notin Ended
    BY <1>6 DEF PollAnswered
  <2>3. v \in Active \cup Ended /\ polls \ {v} \in SUBSET (Active \cup Ended)
    OBVIOUS
  <2> QED BY <2>1, <2>2, <2>3, SetJobOK
<1>7. CASE PollFails
  BY <1>7 DEF PollFails, InFlight
<1>8. ASSUME NEW slot \in Slot, Read(slot) PROVE ViewTypes' /\ StagesInv'
  <2>1. request[slot].at = "sent"
    BY <1>8 DEF Read
  <2>2. PICK r \in RequestRecord : request' = [request EXCEPT ![slot] = r]
    <3>1. /\ [at |-> "read", got |-> Content(slot[2])] \in RequestRecord
          /\ [at |-> "error", got |-> 0] \in RequestRecord
      BY <1>0, ContentOK DEF RequestRecord
    <3> QED BY <1>8, <3>1 DEF Read
  <2>3. request' \in [Slot -> RequestRecord]
    BY <2>2
  <2>4. \A x \in Slot : InFlight(x)' => InFlight(x)
    BY <2>1, <2>2 DEF InFlight
  <2>5. events' \in 0..MaxEvents
    BY <1>0, <1>8 DEF Read
  <2> QED BY <1>8, <2>3, <2>4, <2>5, SlotFacts DEF Read
<1>9. ASSUME NEW s \in Listed, SectionArrives(s) PROVE ViewTypes' /\ StagesInv'
  <2>1. request' \in [Slot -> RequestRecord]
    BY <1>9, RequestFacts DEF SectionArrives, Without
  <2>2. \A slot \in Slot : InFlight(slot)' => InFlight(slot)
    BY <1>9, RequestFacts DEF SectionArrives, Without, InFlight
  <2>3. overtaken' \subseteq Listed
    BY <1>9 DEF SectionArrives
  <2>4. /\ shown' \in [Section -> 0..(MaxSaves + 1)] /\ failed' \subseteq Section
        /\ highPriorityTotal' \in {Null} \cup 0..(MaxSaves + 1)
    <3>1. CASE SectionFails(s)
      BY <3>1, SlotFacts DEF SectionFails
    <3>2. CASE SectionRead(s)
      <4>1. request[<<"mount", s>>].got \in 0..(MaxSaves + 1)
        BY SlotFacts DEF RequestRecord
      <4>2. s = "findings" => <<"mount", "priority">> \in Slot
        BY SlotFacts DEF With
      <4>3. s = "findings" => request[<<"mount", "priority">>].got \in 0..(MaxSaves + 1)
        BY <4>2 DEF RequestRecord
      <4> QED BY <3>2, <4>1, <4>3 DEF SectionRead
    <3> QED BY <1>9, <3>1, <3>2 DEF SectionArrives
  <2> QED BY <1>9, <2>1, <2>2, <2>3, <2>4, SlotFacts DEF SectionArrives
<1>10. CASE ArtifactsArrive
  <2>1. Arrive({<<"drill", "artifacts">>}) /\ {<<"drill", "artifacts">>} \in SUBSET Slot
    BY <1>10, SlotFacts DEF ArtifactsArrive
  <2>2. \A x \in {<<"drill", "artifacts">>} : x[2] \in Section
    BY SlotFacts
  <2> QED BY <1>10, <2>1, <2>2, ArriveOK DEF ArtifactsArrive
<1>11. CASE FinalArrives
  <2>1. Arrive({"final"} \X Listed) /\ {"final"} \X Listed \in SUBSET Slot
    BY <1>11 DEF FinalArrives, Slot
  <2>2. \A x \in {"final"} \X Listed : x[2] \in Section
    BY SlotFacts
  <2> QED BY <1>11, <2>1, <2>2, ArriveOK DEF FinalArrives
<1>12. CASE SetFilter
  <2> DEFINE effects == {"mount"} \cup (IF job \in Ended THEN {"final"} ELSE {})
  <2>1. request' = Start(effects) /\ request \in [Slot -> RequestRecord]
    BY <1>12 DEF SetFilter
  <2>2. /\ request' \in [Slot -> RequestRecord]
        /\ \A slot \in Slot : slot[1] = "final" /\ job \notin Ended
             => request'[slot] = request[slot]
    BY <2>1, StartOK
  <2>3. \A s \in Listed : InFlight(<<"final", s>>)' => job \in Ended
    BY <2>2, SlotFacts DEF InFlight
  <2>4. events' \in 0..MaxEvents /\ unsettled' \in BOOLEAN
    BY <1>0, <1>12 DEF SetFilter
  <2>5. fresh' \in BOOLEAN
    BY <1>12 DEF SetFilter, FirstEffectRuns
  <2> HIDE DEF effects
  <2> QED BY <1>12, <2>2, <2>3, <2>4, <2>5 DEF SetFilter
<1>13. CASE SavePressed
  <2>1. unsettled' \in BOOLEAN
    BY <1>13 DEF SavePressed
  <2> QED BY <1>13, <2>1 DEF SavePressed, ReviewTime, InFlight
<1>14. CASE SaveAnswered
  <2>1. save["page"].loaded.version \in 0..MaxSaves
    BY ReviewFields DEF SaveRecord, Reviews!Row, Panel
  <2>2. Replaced(save["page"].loaded) \in 0..(MaxSaves + 1)
    BY <1>0, <2>1 DEF Replaced
  <2>3. save'["page"].at = "idle"
    BY <1>14, ReviewFields DEF SaveAnswered, Reviews!Answered, Reviews!Idle, Panel
  <2> QED BY <1>14, <2>1, <2>2, <2>3 DEF SaveAnswered, InFlight
<1>15. CASE ReviewServed
  <2>1. save'["page"].at # "idle" => save["page"].at # "idle"
    BY <1>15, ReviewFields DEF ReviewServed, Reviews!Serve, Reviews!Load, Reviews!Commit,
       Reviews!Refresh, Panel
  <2> QED BY <1>15, <2>1 DEF ReviewServed, pageVars, InFlight
<1>16. CASE ColleagueReviews
  <2>1. save'["page"] = save["page"]
    BY <1>16, ReviewFields DEF ColleagueReviews, Reviews!Send, Reviews!Answered, Panel
  <2> QED BY <1>16, <2>1 DEF ColleagueReviews, pageVars, InFlight
<1>17. CASE WorkerStep
  BY <1>17 DEF WorkerStep, pageVars, InFlight
<1>18. CASE UNCHANGED vars
  BY <1>18 DEF vars, pageVars, InFlight
<1> QED
  BY <1>1, <1>2, <1>3, <1>4, <1>5, <1>6, <1>7, <1>8, <1>9, <1>10, <1>11, <1>12, <1>13, <1>14,
     <1>15, <1>16, <1>17, <1>18 DEF Next

LEMMA StatusStep ==
  ASSUME TypeInv, [Next]_vars
  PROVE  StatusInv'
<1> USE DEF TypeInv, StatusInv
<1>0. /\ status["job"] \in JobStatus /\ job \in JobStatus
      /\ load \in {"none", "sent", "done", "error"} \cup Active \cup Ended
      /\ polls \subseteq Active \cup Ended
  BY DEF TablesInv, ViewTypes
<1>1. ASSUME UNCHANGED <<status, job>>, load' \in {load, "sent", "done", "error"},
             polls' \subseteq polls
      PROVE  StatusInv'
  BY <1>1 DEF Active, Ended
<1>2. CASE WorkerStep
  <2>1. Tables!Next /\ UNCHANGED <<load, job, polls>>
    BY <1>2 DEF WorkerStep, pageVars
  <2>2. status'["job"] \in JobStatus /\ Rank(status["job"]) <= Rank(status'["job"])
    <3>1. TablesInv' /\ (\/ status'["job"] = status["job"]
                         \/ status["job"] = "none" /\ status'["job"] = "queued"
                         \/ status["job"] = "queued" /\ status'["job"] = "running"
                         \/ status'["job"] \in {"completed", "failed"})
      BY <2>1, TablesStep
    <3>2. status'["job"] \in JobStatus
      BY <3>1 DEF TablesInv
    <3> QED BY <1>0, <3>1, <3>2, RankFacts
  <2>3. \A v \in JobStatus : Rank(v) <= Rank(status["job"]) => Rank(v) <= Rank(status'["job"])
    BY <1>0, <2>2, RankFacts
  <2> QED BY <1>0, <2>1, <2>3 DEF JobStatus
<1>3. CASE ReadJob
  <2>1. load' = status["job"] /\ UNCHANGED <<status, job, polls>>
    BY <1>3 DEF ReadJob, backendVars
  <2>2. Rank(status["job"]) <= Rank(status["job"])
    BY <1>0, RankFacts
  <2> QED BY <2>1, <2>2
<1>4. CASE JobLoaded
  <2>1. /\ load \in Active \cup Ended /\ load' = "done" /\ job' = load /\ polls' = {}
        /\ status' = status
    BY <1>4 DEF JobLoaded, SetJob, backendVars
  <2> QED BY <2>1 DEF Active, Ended
<1>5. CASE Poll
  <2>1. polls' = polls \cup {status["job"]} /\ UNCHANGED <<status, job, load>>
    BY <1>5 DEF Poll, backendVars
  <2>2. Rank(status["job"]) <= Rank(status["job"])
    BY <1>0, RankFacts
  <2> QED BY <2>1, <2>2
<1>6. CASE PollAnswered
  <2>1. PICK v \in polls :
          /\ job' = v /\ UNCHANGED <<status, load>>
          /\ \/ v = job /\ polls' \subseteq polls
             \/ polls' = {}
    BY <1>6 DEF PollAnswered, SetJob, backendVars
  <2> QED BY <2>1
<1>7. CASE Open \/ LoadFails \/ PollFails
  BY <1>1, <1>7 DEF Open, LoadFails, PollFails, backendVars
<1>8. CASE SetFilter \/ SavePressed \/ SaveAnswered \/ ReviewServed \/ ColleagueReviews
  BY <1>1, <1>8 DEF SetFilter, SavePressed, SaveAnswered, ReviewServed, ColleagueReviews,
     backendVars, pageVars
<1>9. CASE (\E slot \in Slot : Read(slot)) \/ (\E s \in Listed : SectionArrives(s))
  BY <1>1, <1>9 DEF Read, SectionArrives, backendVars
<1>10. CASE ArtifactsArrive \/ FinalArrives
  BY <1>1, <1>10 DEF ArtifactsArrive, FinalArrives, Arrive, backendVars
<1>11. CASE UNCHANGED vars
  BY <1>1, <1>11 DEF vars, pageVars, backendVars
<1> QED
  BY <1>2, <1>3, <1>4, <1>5, <1>6, <1>7, <1>8, <1>9, <1>10, <1>11 DEF Next

LEMMA TypeInvInit == Init => TypeInv
<1> SUFFICES ASSUME Init PROVE TypeInv
  OBVIOUS
<1>1. TablesInv /\ status["job"] = "none"
  BY DEF Init, Tables!Init, TablesInv, JobStatus
<1>2. \A slot \in Slot : request[slot].at = "none"
  BY RequestFacts DEF Init
<1>3. ViewTypes
  <2>1. /\ request \in [Slot -> RequestRecord] /\ 0 \in 0..MaxSaves /\ 0 \in 0..(MaxSaves + 1)
        /\ 0 \in 0..MaxEvents /\ "all" \in Filter
    BY RequestFacts, ReviewAssumption, PageAssumption DEF Init
  <2>2. unsettled \in BOOLEAN
    BY DEF Init
  <2>3. shown \in [Section -> 0..(MaxSaves + 1)] /\ fresh \in BOOLEAN
    BY <2>1 DEF Init
  <2> QED BY <2>1, <2>2, <2>3 DEF Init, ViewTypes, JobStatus
<1>4. save["page"].at = "idle"
  BY DEF Init, Reviews!Init, Reviews!Idle, Panel
<1>5. StagesInv
  BY <1>2, <1>4, SlotFacts DEF Init, StagesInv, InFlight
<1>6. StatusInv
  BY <1>1, RankFacts DEF Init, StatusInv, Active, Ended
<1> QED
  BY <1>1, <1>3, <1>5, <1>6, ReviewTypesInit DEF TypeInv

LEMMA TypeInvStep == TypeInv /\ [Next]_vars => TypeInv'
<1> SUFFICES ASSUME TypeInv, [Next]_vars PROVE TypeInv'
  OBVIOUS
<1>1. ReviewTypes'
  BY ReviewTypesStep DEF TypeInv
<1>2. TablesInv'
  <2>1. CASE Tables!Next
    BY <2>1, TablesStep DEF TypeInv
  <2>2. CASE UNCHANGED backendVars
    BY <2>2 DEF TypeInv, TablesInv, backendVars
  <2> QED BY <2>1, <2>2, TableMoves
<1> QED
  BY <1>1, <1>2, PageStepOK, StatusStep DEF TypeInv

LEMMA TypeInvCorrect == Spec => []TypeInv
  BY TypeInvInit, TypeInvStep, PTL DEF Spec

\* The page, the tables and the reviews keep their shapes, and results are only
\* asked for a last time when the job is shown as ended.
THEOREM TypeCorrect == Spec => []TypeOK
  BY TypeInvCorrect, TypeInvType, PTL

\* The status on the page only moves on, however polls overtake one another, and a
\* terminal one is never replaced.
THEOREM StatusAdvances == Spec => ShownStatusAdvances
<1>1. TypeInv /\ [Next]_vars => [job' # job => Rank(job') > Rank(job)]_job
  <2> SUFFICES ASSUME TypeInv, [Next]_vars, job' # job PROVE Rank(job') > Rank(job)
    OBVIOUS
  <2>1. JobLoaded \/ PollAnswered
    BY DEF Next, Open, ReadJob, LoadFails, Poll, PollFails, Read, SectionArrives,
       ArtifactsArrive, FinalArrives, Arrive, SetFilter, SavePressed, SaveAnswered,
       ReviewServed, ColleagueReviews, WorkerStep, vars, pageVars
  <2>2. job \in JobStatus /\ polls \subseteq Active \cup Ended
    BY DEF TypeInv, ViewTypes
  <2>3. CASE JobLoaded
    <3>1. job = "none" /\ job' \in Active \cup Ended
      BY <2>3 DEF JobLoaded, SetJob, TypeInv, StagesInv, Active, Ended
    <3> QED BY <3>1, RankFacts DEF Active, Ended
  <2>4. CASE PollAnswered
    <3>1. job' \in polls /\ job \notin Ended
      BY <2>4 DEF PollAnswered, SetJob, TypeInv, StagesInv
    <3>2. Rank(job) <= Rank(job')
      BY <3>1 DEF TypeInv, StatusInv
    <3>3. job' \in Active \cup Ended
      BY <2>2, <3>1
    <3> QED BY <2>2, <3>1, <3>2, <3>3, RankFacts DEF Active, Ended, JobStatus
  <2> QED BY <2>1, <2>3, <2>4
<1> QED
  BY <1>1, TypeInvCorrect, PTL DEF Spec, ShownStatusAdvances

-----------------------------------------------------------------------------
(* What the page shows.                                                    *)

\* What answers that arrive together do to the sections, one request for each.
LEMMA ArriveEffect ==
  ASSUME TypeInv, NEW slots \in SUBSET Slot, Arrive(slots),
         \A x, y \in slots : x[2] = y[2] => x = y, \A x \in slots : x[2] \in Section
  PROVE  /\ \A slot \in Slot : request'[slot] = IF slot \in slots THEN NoRequest
                                                ELSE request[slot]
         /\ \A x \in slots : request[x].at \in {"read", "error"}
         /\ \A x \in slots : request[x].at = "read" => shown'[x[2]] = request[x].got
         /\ \A x \in slots : request[x].at = "error" =>
              x[2] \in failed' /\ shown'[x[2]] = shown[x[2]]
         /\ \A s \in Section : (\A x \in slots : x[2] # s) =>
              shown'[s] = shown[s] /\ (s \in failed => s \in failed')
         /\ \A s \in Listed : s \in failed => s \in failed'
<1> DEFINE good == {slot[2] : slot \in {x \in slots : request[x].at = "read"}}
           bad  == {slot[2] : slot \in {x \in slots : request[x].at = "error"}}
<1>1. /\ \A x \in slots : request[x].at \in {"read", "error"}
      /\ shown' = [s \in Section |->
                     IF s \in good THEN request[CHOOSE x \in slots : x[2] = s].got ELSE shown[s]]
      /\ failed' = (failed \ (good \cap {"artifacts"})) \cup bad
      /\ request' = [slot \in Slot |-> IF slot \in slots THEN NoRequest ELSE request[slot]]
  BY DEF Arrive, Without
<1>2. \A x \in slots : x[2] \in Section
  OBVIOUS
<1>3. ASSUME NEW x \in slots, request[x].at = "read" PROVE shown'[x[2]] = request[x].got
  <2>1. x[2] \in good /\ x[2] \in Section
    BY <1>2, <1>3
  <2>2. (CHOOSE y \in slots : y[2] = x[2]) = x
    OBVIOUS
  <2> QED BY <1>1, <2>1, <2>2
<1>4. ASSUME NEW x \in slots, request[x].at = "error"
      PROVE  x[2] \in failed' /\ shown'[x[2]] = shown[x[2]]
  <2>1. x[2] \in bad /\ x[2] \notin good /\ x[2] \in Section
    BY <1>2, <1>4
  <2> QED BY <1>1, <2>1
<1>5. ASSUME NEW s \in Section, \A x \in slots : x[2] # s
      PROVE  shown'[s] = shown[s] /\ (s \in failed => s \in failed')
  <2>1. s \notin good
    BY <1>5
  <2> QED BY <1>1, <2>1
<1>6. \A s \in Listed : s \in failed => s \in failed'
  BY <1>1, SlotFacts
<1> QED
  BY <1>1, <1>3, <1>4, <1>5, <1>6

\* What the answers for a section of the first effect do.
LEMMA SectionEffect ==
  ASSUME TypeInv, NEW s \in Listed, SectionArrives(s)
  PROVE  /\ \A slot \in Slot : request'[slot] = IF slot \in {"mount"} \X With(s) THEN NoRequest
                                                ELSE request[slot]
         /\ <<"mount", s>> \in {"mount"} \X With(s)
         /\ \/ /\ request[<<"mount", s>>].at = "read"
               /\ shown' = [shown EXCEPT ![s] = request[<<"mount", s>>].got]
               /\ failed' = failed
            \/ shown' = shown /\ failed' = failed \cup {s}
         /\ \A t \in Section \ {s} : shown'[t] = shown[t] /\ (t \in failed' <=> t \in failed)
         /\ overtaken' = IF job \in Ended /\ ~InFlight(<<"final", s>>)
                         THEN overtaken \cup {s} ELSE overtaken
<1>1. \A slot \in Slot : request'[slot] = IF slot \in {"mount"} \X With(s) THEN NoRequest
                                          ELSE request[slot]
  BY DEF SectionArrives, Without
<1>2. s \in With(s)
  BY DEF With
<1>3. \/ /\ request[<<"mount", s>>].at = "read"
         /\ shown' = [shown EXCEPT ![s] = request[<<"mount", s>>].got]
         /\ failed' = failed
      \/ shown' = shown /\ failed' = failed \cup {s}
  BY <1>2 DEF SectionArrives, SectionRead, SectionFails
<1>4. \A t \in Section \ {s} : shown'[t] = shown[t] /\ (t \in failed' <=> t \in failed)
  BY <1>3 DEF TypeInv, ViewTypes
<1> QED
  BY <1>1, <1>2, <1>3, <1>4 DEF SectionArrives

\* While the page's analyst saves, and no list or filter change has crossed the save,
\* the finding stays listed under the filter the save was made with.
CrossInv ==
  save["page"].at # "idle" /\ ~unsettled =>
    /\ "findings" \in Listed
    /\ savedUnder = filter /\ shown["findings"] # 0
    /\ \A slot \in Slot : slot[2] = "findings" => ~InFlight(slot)

LEMMA SaveGoesOn ==
  ASSUME TypeInv, [Next]_vars, save'["page"].at # "idle"
  PROVE  save["page"].at # "idle" \/ SavePressed
<1>0. save \in [Panel -> SaveRecord]
  BY ReviewFields DEF TypeInv
<1>1. CASE SaveAnswered
  BY <1>0, <1>1 DEF SaveAnswered, Reviews!Answered, Panel
<1>2. CASE ReviewServed
  BY <1>0, <1>2 DEF ReviewServed, Reviews!Serve, Reviews!Load, Reviews!Commit,
     Reviews!Refresh, Panel
<1>3. CASE ColleagueReviews
  BY <1>0, <1>3 DEF ColleagueReviews, Reviews!Send, Reviews!Answered, Panel
<1>4. CASE UNCHANGED vars
  BY <1>4 DEF vars, reviewVars
<1>5. CASE ~(SavePressed \/ SaveAnswered \/ ReviewServed \/ ColleagueReviews) /\ Next
  BY <1>5 DEF Next, Open, ReadJob, JobLoaded, LoadFails, Poll, PollAnswered, PollFails, SetJob,
     Read, SectionArrives, ArtifactsArrive, FinalArrives, Arrive, SetFilter, WorkerStep,
     reviewVars
<1> QED
  BY <1>1, <1>2, <1>3, <1>4, <1>5

LEMMA CrossStep ==
  ASSUME TypeInv, CrossInv, [Next]_vars
  PROVE  CrossInv'
<1> SUFFICES ASSUME save'["page"].at # "idle", ~unsettled'
             PROVE  /\ "findings" \in Listed
                    /\ savedUnder' = filter' /\ shown'["findings"] # 0
                    /\ \A slot \in Slot : slot[2] = "findings" => ~InFlight(slot)'
  BY DEF CrossInv
<1> USE DEF InFlight
<1>1. CASE SavePressed
  <2>1. {"artifacts", "findings"} \subseteq stored["job"] /\ shown["findings"] # 0
    BY <1>1 DEF SavePressed, ReviewTime
  <2>2. "findings" \in Listed
    BY <2>1 DEF TypeInv, TablesInv, Section
  <2>3. \A slot \in Slot : slot[2] = "findings" => ~InFlight(slot)
    BY <1>1 DEF SavePressed
  <2> QED BY <1>1, <2>1, <2>2, <2>3 DEF SavePressed
<1>2. ASSUME ~SavePressed
      PROVE  /\ "findings" \in Listed
             /\ savedUnder' = filter' /\ shown'["findings"] # 0
             /\ \A slot \in Slot : slot[2] = "findings" => ~InFlight(slot)'
  <2>1. save["page"].at # "idle"
    BY <1>2, SaveGoesOn
  <2>2. job = "completed" /\ load = "done" /\ polls = {}
    BY <2>1 DEF TypeInv, StagesInv, Ended
  <2>3. ASSUME ~unsettled, savedUnder' = savedUnder, filter' = filter,
               shown'["findings"] = shown["findings"],
               \A slot \in Slot : slot[2] = "findings" => (InFlight(slot)' => InFlight(slot))
        PROVE  /\ "findings" \in Listed
               /\ savedUnder' = filter' /\ shown'["findings"] # 0
               /\ \A slot \in Slot : slot[2] = "findings" => ~InFlight(slot)'
    BY <2>1, <2>3 DEF CrossInv
  <2>4. CASE Open \/ ReadJob \/ JobLoaded \/ LoadFails \/ Poll \/ PollAnswered
    BY <2>2, <2>4 DEF Open, ReadJob, JobLoaded, LoadFails, Poll, PollAnswered, Active, Ended
  <2>5. CASE PollFails
    BY <2>2, <2>5 DEF PollFails
  <2>6. ASSUME NEW slot \in Slot, Read(slot)
        PROVE  /\ UNCHANGED <<unsettled, savedUnder, filter, shown>>
               /\ \A x \in Slot : InFlight(x)' => InFlight(x)
    <3>1. PICK r : request' = [request EXCEPT ![slot] = r] /\ request[slot].at = "sent"
      BY <2>6 DEF Read
    <3> QED BY <2>6, <3>1 DEF Read, TypeInv, ViewTypes
  <2>7. ASSUME NEW slots \in SUBSET Slot, Arrive(slots),
               \A x, y \in slots : x[2] = y[2] => x = y, \A x \in slots : InFlight(x),
               \A x \in slots : x[2] \in Section
        PROVE  /\ "findings" \in Listed
               /\ savedUnder' = filter' /\ shown'["findings"] # 0
               /\ \A slot \in Slot : slot[2] = "findings" => ~InFlight(slot)'
    <3>1. ~unsettled /\ savedUnder' = savedUnder /\ filter' = filter
      BY <2>7 DEF Arrive
    <3>2. "findings" \in Section /\ \A x \in slots : x[2] # "findings"
      BY <2>1, <2>7, <3>1 DEF CrossInv, Section
    <3>3. shown'["findings"] = shown["findings"]
      BY <2>7, <3>2, ArriveEffect
    <3>4. \A slot \in Slot : InFlight(slot)' => InFlight(slot)
      BY <2>7, ArriveEffect, RequestFacts
    <3> QED BY <2>3, <3>1, <3>3, <3>4
  <2>8. CASE \E s \in Listed : SectionArrives(s)
    <3>1. PICK s \in Listed : SectionArrives(s)
      BY <2>8
    <3>2. ~unsettled /\ savedUnder' = savedUnder /\ filter' = filter
      BY <3>1 DEF SectionArrives
    <3>3. "findings" \in Listed /\ ~InFlight(<<"mount", "findings">>)
      BY <2>1, <3>2, SlotFacts DEF CrossInv
    <3>4. shown'["findings"] = shown["findings"]
      BY <3>1, <3>3, SectionEffect, SlotFacts
    <3>5. \A slot \in Slot : InFlight(slot)' => InFlight(slot)
      BY <3>1, SectionEffect, RequestFacts
    <3> QED BY <2>3, <3>2, <3>4, <3>5
  <2>9. CASE ArtifactsArrive
    <3>1. Arrive({<<"drill", "artifacts">>}) /\ InFlight(<<"drill", "artifacts">>)
          /\ {<<"drill", "artifacts">>} \in SUBSET Slot
      BY <2>9, SlotFacts DEF ArtifactsArrive
    <3>2. \A x \in {<<"drill", "artifacts">>} : x[2] \in Section
      BY SlotFacts
    <3> QED BY <2>7, <3>1, <3>2
  <2>10. CASE FinalArrives
    <3>1. Arrive({"final"} \X Listed) /\ {"final"} \X Listed \in SUBSET Slot
          /\ \A x \in {"final"} \X Listed : InFlight(x)
      BY <2>10 DEF FinalArrives, Slot
    <3>2. \A x, y \in {"final"} \X Listed : x[2] = y[2] => x = y
      OBVIOUS
    <3>3. \A x \in {"final"} \X Listed : x[2] \in Section
      BY SlotFacts
    <3> QED BY <2>7, <3>1, <3>2, <3>3
  <2>11. CASE SetFilter
    BY <2>1, <2>11 DEF SetFilter
  <2>12. CASE SaveAnswered
    <3>1. save'["page"].at = "idle"
      BY <2>12, ReviewFields DEF SaveAnswered, Reviews!Answered, Reviews!Idle, Panel, TypeInv
    <3> QED BY <3>1
  <2>13. CASE ReviewServed \/ ColleagueReviews \/ WorkerStep \/ UNCHANGED vars
    <3>1. UNCHANGED pageVars
      BY <2>13 DEF ReviewServed, ColleagueReviews, WorkerStep, vars
    <3> QED BY <2>3, <3>1 DEF pageVars
  <2>14. CASE \E slot \in Slot : Read(slot)
    <3>1. /\ UNCHANGED <<unsettled, savedUnder, filter, shown>>
          /\ \A x \in Slot : InFlight(x)' => InFlight(x)
      BY <2>6, <2>14
    <3> QED BY <2>3, <3>1
  <2> QED BY <1>2, <2>4, <2>5, <2>8, <2>9, <2>10, <2>11, <2>12, <2>13, <2>14 DEF Next
<1> QED
  BY <1>1, <1>2

LEMMA CrossCorrect == Spec => []CrossInv
<1>1. Init => CrossInv
  BY DEF Init, CrossInv, Reviews!Init, Reviews!Idle, Panel
<1>2. TypeInv /\ CrossInv /\ [Next]_vars => CrossInv'
  BY CrossStep
<1> QED
  BY <1>1, <1>2, TypeInvCorrect, PTL DEF Spec

\* Unless something crossed a save, what the page lists of the finding, or is about
\* to list, is newer than the version the page's own analyst saved last.
OwnInv ==
  /\ ownSaved <= row.version
  /\ ~unsettled =>
       /\ \A slot \in Slot : slot[2] = "findings" /\ request[slot].at = "read"
            => request[slot].got = 0 \/ request[slot].got > ownSaved
       /\ shown["findings"] = 0 \/ shown["findings"] > ownSaved

LEMMA OwnStep ==
  ASSUME "findings" \in Listed, TypeInv, VersionsInv, CrossInv, OwnInv, [Next]_vars
  PROVE  OwnInv'
<1> DEFINE News == \A slot \in Slot : slot[2] = "findings" /\ request[slot].at = "read"
                     => request[slot].got = 0 \/ request[slot].got > ownSaved
           Latest == shown["findings"] = 0 \/ shown["findings"] > ownSaved
<1>0. /\ row.version \in Nat /\ ownSaved \in Nat /\ "findings" \in Section
      /\ save \in [Panel -> SaveRecord] /\ request \in [Slot -> RequestRecord]
      /\ shown \in [Section -> 0..(MaxSaves + 1)] /\ MaxSaves \in Nat
      /\ row'.version \in Nat /\ row'.version >= row.version
  <2>1. row'.version >= row.version /\ TypeInv'
    BY VersionsStep, TypeInvStep DEF TypeInv
  <2>2. row'.version \in Nat
    <3>1. row' \in Reviews!Row
      BY <2>1 DEF TypeInv, ReviewTypes, Reviews!ReviewOK
    <3> QED BY <3>1, ReviewAssumption DEF Reviews!Row
  <2> QED BY <2>1, <2>2, ReviewFields, ReviewAssumption DEF TypeInv, ViewTypes, Section
<1>1. ASSUME UNCHANGED <<ownSaved, shown>>, unsettled => unsettled',
             \A slot \in Slot : slot[2] = "findings" /\ request'[slot].at = "read"
               => request'[slot] = request[slot]
      PROVE  OwnInv'
  <2>1. ownSaved' <= row'.version
    BY <1>0, <1>1 DEF OwnInv
  <2> QED BY <1>1, <2>1 DEF OwnInv
<1>2. ASSUME NEW effects, request' = Start(effects), UNCHANGED <<ownSaved, shown>>,
             unsettled => unsettled'
      PROVE  OwnInv'
  <2>1. \A slot \in Slot : request'[slot].at = "read" => request'[slot] = request[slot]
    BY <1>0, <1>2, StartOK, RequestFacts
  <2> QED BY <1>1, <1>2, <2>1
<1>3. ASSUME NEW v, NEW left, SetJob(v, left) PROVE OwnInv'
  <2>1. CASE v = job
    BY <1>1, <1>3, <2>1 DEF SetJob
  <2>2. CASE v # job
    BY <1>2, <1>3, <2>2 DEF SetJob
  <2> QED BY <2>1, <2>2
<1>4. CASE Open \/ SetFilter
  <2>1. unsettled => unsettled'
    BY <1>4 DEF Open, SetFilter
  <2>2. CASE Open
    BY <1>2, <2>1, <2>2 DEF Open
  <2>3. CASE SetFilter
    BY <1>2, <2>1, <2>3 DEF SetFilter
  <2> QED BY <1>4, <2>2, <2>3
<1>5. CASE JobLoaded \/ PollAnswered
  BY <1>3, <1>5 DEF JobLoaded, PollAnswered
<1>6. CASE ReadJob \/ LoadFails \/ Poll \/ PollFails \/ SavePressed
  BY <1>1, <1>6 DEF ReadJob, LoadFails, Poll, PollFails, SavePressed
<1>7. CASE ReviewServed \/ ColleagueReviews \/ WorkerStep \/ UNCHANGED vars
  BY <1>1, <1>7 DEF ReviewServed, ColleagueReviews, WorkerStep, vars, pageVars
<1>8. ASSUME NEW slot \in Slot, Read(slot) PROVE OwnInv'
  <2>1. PICK r : /\ request' = [request EXCEPT ![slot] = r]
                 /\ r = [at |-> "read", got |-> Content(slot[2])] \/ r.at = "error"
    <3>1. [at |-> "error", got |-> 0].at = "error"
      OBVIOUS
    <3> QED BY <1>8, <3>1 DEF Read
  <2>2. UNCHANGED <<row, ownSaved, shown, unsettled>>
    BY <1>8 DEF Read, reviewVars
  <2>3. slot[2] = "findings" /\ r.at = "read" => r.got = 0 \/ r.got > ownSaved
    <3>1. SUFFICES ASSUME slot[2] = "findings", r = [at |-> "read", got |-> Content(slot[2])]
                   PROVE  r.got = 0 \/ r.got > ownSaved
      BY <2>1
    <3>2. r.got = 0 \/ r.got = row.version + 1
      BY <3>1 DEF Content, Stored
    <3> QED BY <1>0, <3>2 DEF OwnInv
  <2>4. \A x \in Slot \ {slot} : request'[x] = request[x]
    BY <1>0, <2>1
  <2>5. request'[slot] = r
    BY <1>0, <2>1
  <2> QED BY <2>2, <2>3, <2>4, <2>5 DEF OwnInv
<1>9. ASSUME NEW slots \in SUBSET Slot, Arrive(slots), \A x, y \in slots : x[2] = y[2] => x = y,
             \A x \in slots : x[2] \in Section
      PROVE  OwnInv'
  <2>1. /\ \A slot \in Slot : request'[slot] = IF slot \in slots THEN NoRequest
                                               ELSE request[slot]
        /\ \A x \in slots : request[x].at \in {"read", "error"}
        /\ \A x \in slots : request[x].at = "read" => shown'[x[2]] = request[x].got
        /\ \A x \in slots : request[x].at = "error" => shown'[x[2]] = shown[x[2]]
        /\ \A s \in Section : (\A x \in slots : x[2] # s) => shown'[s] = shown[s]
    BY <1>9, ArriveEffect
  <2>2. UNCHANGED <<row, ownSaved, unsettled>>
    BY <1>9 DEF Arrive, reviewVars
  <2>3. News => News'
    BY <2>1, <2>2, RequestFacts
  <2>4. News /\ Latest => Latest'
    <3>1. CASE \E x \in slots : x[2] = "findings"
      BY <2>1, <2>2, <3>1
    <3>2. CASE \A x \in slots : x[2] # "findings"
      BY <1>0, <2>1, <2>2, <3>2
    <3> QED BY <3>1, <3>2
  <2> QED BY <2>2, <2>3, <2>4 DEF OwnInv
<1>10. ASSUME NEW s \in Listed, SectionArrives(s) PROVE OwnInv'
  <2>1. UNCHANGED <<row, ownSaved, unsettled>>
    BY <1>10 DEF SectionArrives, reviewVars
  <2>2. News => News'
    <3>1. \A slot \in Slot : request'[slot] = NoRequest \/ request'[slot] = request[slot]
      BY <1>10, SectionEffect
    <3> QED BY <2>1, <3>1, RequestFacts
  <2>3. News /\ Latest => Latest'
    <3>1. CASE s # "findings"
      <4>1. \A t \in Section \ {s} : shown'[t] = shown[t]
        BY <1>10, SectionEffect
      <4>2. shown'["findings"] = shown["findings"]
        BY <1>0, <3>1, <4>1
      <4> QED BY <2>1, <4>2
    <3>2. CASE s = "findings"
      <4>1. \/ shown' = shown
            \/ /\ request[<<"mount", "findings">>].at = "read"
               /\ shown'["findings"] = request[<<"mount", "findings">>].got
        <5>1. \/ shown' = shown
              \/ /\ request[<<"mount", s>>].at = "read"
                 /\ shown' = [shown EXCEPT ![s] = request[<<"mount", s>>].got]
          BY <1>10, SectionEffect
        <5> QED BY <1>0, <3>2, <5>1
      <4>2. <<"mount", "findings">> \in Slot /\ <<"mount", "findings">>[2] = "findings"
        BY SlotFacts
      <4> QED BY <2>1, <4>1, <4>2
    <3> QED BY <3>1, <3>2
  <2> QED BY <1>0, <2>1, <2>2, <2>3 DEF OwnInv
<1>11. CASE ArtifactsArrive
  <2>1. Arrive({<<"drill", "artifacts">>}) /\ {<<"drill", "artifacts">>} \in SUBSET Slot
    BY <1>11, SlotFacts DEF ArtifactsArrive
  <2>2. \A x \in {<<"drill", "artifacts">>} : x[2] \in Section
    BY SlotFacts
  <2> QED BY <1>9, <2>1, <2>2
<1>12. CASE FinalArrives
  <2>1. Arrive({"final"} \X Listed) /\ {"final"} \X Listed \in SUBSET Slot
    BY <1>12 DEF FinalArrives, Slot
  <2>2. \A x, y \in {"final"} \X Listed : x[2] = y[2] => x = y
    OBVIOUS
  <2>3. \A x \in {"final"} \X Listed : x[2] \in Section
    BY SlotFacts
  <2> QED BY <1>9, <2>1, <2>2, <2>3
<1>13. CASE SaveAnswered
  <2>1. PICK k \in SaveRecord : k = save["page"] /\ k.at = "answered"
    BY <1>0, <1>13 DEF SaveAnswered, Reviews!Answered, Panel
  <2>2. k.loaded.version \in Nat /\ k.loaded.version <= row.version
    BY <2>1 DEF SaveRecord, Reviews!Row, VersionsInv, Panel
  <2>3. ownSaved' = k.loaded.version /\ UNCHANGED <<request, unsettled>>
        /\ shown'["findings"] = Replaced(k.loaded)
    BY <1>0, <1>13, <2>1 DEF SaveAnswered
  <2>4. ownSaved' <= row'.version
    BY <1>0, <2>2, <2>3
  <2>5. Latest'
    <3>1. Replaced(k.loaded) = 0 \/ Replaced(k.loaded) = k.loaded.version + 1
      BY DEF Replaced
    <3> QED BY <2>2, <2>3, <3>1
  <2>6. ~unsettled => News'
    <3>1. ~unsettled => \A slot \in Slot : slot[2] = "findings" => request'[slot].at = "none"
      BY <2>1, <2>3 DEF CrossInv, InFlight
    <3> QED BY <3>1
  <2> QED BY <2>3, <2>4, <2>5, <2>6 DEF OwnInv
<1> QED
  BY <1>4, <1>5, <1>6, <1>7, <1>8, <1>10, <1>11, <1>12, <1>13 DEF Next

\* A page with a list of findings never falls behind its own analyst: at rest, and
\* unless a list or filter change crossed the save, a listed finding is as saved here
\* last or newer, whatever a colleague saves meanwhile.
THEOREM OwnSaves == ASSUME "findings" \in Listed PROVE Spec => []OwnSaveShown
<1>1. Init => OwnInv
  <2>1. Init => /\ row.version = 0 /\ ownSaved = 0 /\ shown["findings"] = 0
                /\ \A slot \in Slot : request[slot].at = "none"
    BY SlotFacts, RequestFacts DEF Init, Reviews!Init, Reviews!NewRow
  <2> QED BY <2>1 DEF OwnInv
<1>2. TypeInv /\ VersionsInv /\ CrossInv /\ OwnInv /\ [Next]_vars => OwnInv'
  BY OwnStep
<1>3. OwnInv => OwnSaveShown
  BY DEF OwnInv, OwnSaveShown
<1> QED
  BY <1>1, <1>2, <1>3, TypeInvCorrect, VersionsCorrect, CrossCorrect, PTL DEF Spec

\* The worker has stored what it will, but for the report.
Late == {"reporting", "failing", "over"}

\* The status completed is nowhere, not even on its way, before the worker is done
\* with the results.
LateInv ==
  "completed" \in {status["job"], load, job} \cup polls => phase["job"] \in Late

\* An empty list of findings is right, or an outdated one is excused.
Excused(s) == s = "findings" /\ (filter # "all" \/ unsettled)

\* What the last request for a stored result brings, and what the section shows after
\* it: the request of the terminal status for a list, the latest one for artifacts.
LastRequest(s) == IF s = "artifacts" THEN <<"drill", s>> ELSE <<"final", s>>
Brings(s)   == request[LastRequest(s)].at = "read" =>
                 request[LastRequest(s)].got # 0 \/ Excused(s)
Showing(s)  == ~InFlight(LastRequest(s)) =>
                 s \in failed \cup overtaken \/ shown[s] # 0 \/ Excused(s)
ResultsInv ==
  job = "completed" =>
    \A s \in (stored["job"] \ {"report"}) \cap Section : Brings(s) /\ Showing(s)

LEMMA LateStep ==
  ASSUME TypeInv, LateInv, [Next]_vars
  PROVE  LateInv'
<1>0. phase["job"] \in Late => phase'["job"] \in Late
  <2>1. CASE Tables!Next
    BY <2>1, TablesStep DEF TypeInv, Late
  <2>2. CASE UNCHANGED backendVars
    BY <2>2 DEF backendVars
  <2> QED BY <2>1, <2>2, TableMoves
<1>1. ASSUME {"completed"} \cap ({status'["job"], load', job'} \cup polls')
               \subseteq {status["job"], load, job} \cup polls
      PROVE  LateInv'
  BY <1>0, <1>1 DEF LateInv
<1>2. CASE WorkerStep
  <2>1. Tables!Next /\ UNCHANGED <<load, job, polls>>
    BY <1>2 DEF WorkerStep, pageVars
  <2>2. CASE status'["job"] = "completed" /\ status["job"] # "completed"
    <3>1. phase'["job"] \in Late
      BY <2>1, <2>2, TablesStep DEF TypeInv, Late
    <3> QED BY <3>1 DEF LateInv
  <2>3. CASE ~(status'["job"] = "completed" /\ status["job"] # "completed")
    BY <1>1, <2>1, <2>3
  <2> QED BY <2>2, <2>3
<1>3. CASE ReadJob
  BY <1>1, <1>3 DEF ReadJob, backendVars
<1>4. CASE JobLoaded
  BY <1>1, <1>4 DEF JobLoaded, SetJob, backendVars
<1>5. CASE Poll
  BY <1>1, <1>5 DEF Poll, backendVars
<1>6. CASE PollAnswered
  BY <1>1, <1>6 DEF PollAnswered, SetJob, backendVars
<1>7. CASE Open \/ LoadFails \/ PollFails
  BY <1>1, <1>7 DEF Open, LoadFails, PollFails, backendVars
<1>8. CASE ~(WorkerStep \/ ReadJob \/ JobLoaded \/ Poll \/ PollAnswered \/ Open \/ LoadFails
             \/ PollFails)
  <2>1. UNCHANGED <<status, load, job, polls>>
    BY <1>8 DEF Next, Read, SectionArrives, ArtifactsArrive, FinalArrives, Arrive, SetFilter,
       SavePressed, SaveAnswered, ReviewServed, ColleagueReviews, vars, pageVars, backendVars
  <2> QED BY <1>1, <2>1
<1> QED
  BY <1>2, <1>3, <1>4, <1>5, <1>6, <1>7, <1>8

LEMMA LastRequestFacts ==
  ASSUME NEW s \in Section
  PROVE  /\ LastRequest(s) \in Slot /\ LastRequest(s)[2] = s
         /\ s \in Listed \/ s = "artifacts"
         /\ s \in Listed => LastRequest(s) = <<"final", s>> /\ s # "artifacts"
         /\ \A t \in Section : LastRequest(t) = LastRequest(s) => t = s
  BY SlotFacts DEF LastRequest, Section

\* While completed is shown, only a new request of the terminal kind, an answer, a
\* filter change or the analyst's own save touch a section and its last request.
LEMMA ResultsStep ==
  ASSUME TypeInv, CrossInv, LateInv, ResultsInv, [Next]_vars
  PROVE  ResultsInv'
<1> SUFFICES ASSUME job' = "completed", NEW s \in Section, s \in stored'["job"] \ {"report"}
             PROVE  Brings(s)' /\ Showing(s)'
  BY DEF ResultsInv
<1> USE DEF InFlight
<1>0. /\ row.version \in Nat /\ request \in [Slot -> RequestRecord] /\ unsettled \in BOOLEAN
      /\ shown \in [Section -> 0..(MaxSaves + 1)] /\ MaxSaves \in Nat
      /\ save \in [Panel -> SaveRecord]
  BY ReviewFields, ReviewAssumption DEF TypeInv, ViewTypes
<1>a. /\ LastRequest(s) \in Slot /\ LastRequest(s)[2] = s /\ LastRequest(s)' = LastRequest(s)
      /\ s \in Listed \/ s = "artifacts"
      /\ s \in Listed => LastRequest(s) = <<"final", s>> /\ s # "artifacts"
  BY LastRequestFacts DEF LastRequest
<1>b. ASSUME job = "completed" PROVE s \in stored["job"]
  <2>1. phase["job"] \in Late
    BY <1>b DEF LateInv
  <2>2. CASE Tables!Next
    <3>1. stored'["job"] \ {"report"} = stored["job"] \ {"report"}
      BY <2>1, <2>2, TablesStep DEF TypeInv, Late
    <3> QED BY <3>1
  <2>3. CASE UNCHANGED backendVars
    BY <2>3 DEF backendVars
  <2> QED BY <2>2, <2>3, TableMoves
<1>c. job = "completed" => Brings(s) /\ Showing(s)
  BY <1>b DEF ResultsInv
<1>1. ASSUME job = "completed", request'[LastRequest(s)] = request[LastRequest(s)],
             shown'[s] = shown[s], s \in failed \cup overtaken => s \in failed' \cup overtaken',
             Excused(s) => Excused(s)'
      PROVE  Brings(s)' /\ Showing(s)'
  BY <1>1, <1>a, <1>c DEF Brings, Showing
<1>2. ASSUME request'[LastRequest(s)] = Sent PROVE Brings(s)' /\ Showing(s)'
  BY <1>2, <1>a, RequestFacts DEF Brings, Showing
<1>3. ASSUME NEW v \in Active \cup Ended, NEW left, SetJob(v, left), v = job => job = "completed"
      PROVE  Brings(s)' /\ Showing(s)'
  <2>1. v = "completed"
    BY <1>3 DEF SetJob
  <2>2. CASE v = job
    <3>1. UNCHANGED <<request, shown, failed, filter, overtaken, unsettled>>
      BY <1>3, <2>2 DEF SetJob
    <3> QED BY <1>1, <1>3, <2>2, <3>1 DEF Excused
  <2>3. CASE v # job
    <3>1. request' = Start({"drill", "final"})
      BY <1>3, <2>1, <2>3 DEF SetJob, Ended
    <3>2. LastRequest(s)[1] \in {"drill", "final"}
      BY DEF LastRequest
    <3>3. request'[LastRequest(s)] = Sent
      BY <1>0, <1>a, <3>1, <3>2, StartOK
    <3> QED BY <1>2, <3>3
  <2> QED BY <2>2, <2>3
<1>4. CASE JobLoaded
  <2>1. load \in Active \cup Ended /\ SetJob(load, {}) /\ job = "none"
    BY <1>4 DEF JobLoaded, TypeInv, StagesInv, Active, Ended
  <2> QED BY <1>3, <2>1 DEF Active, Ended
<1>5. CASE PollAnswered
  <2>1. PICK v \in polls : SetJob(v, polls \ {v})
    BY <1>5 DEF PollAnswered
  <2>2. v \in Active \cup Ended /\ job' = v
    BY <2>1 DEF SetJob, TypeInv, ViewTypes
  <2> QED BY <1>3, <2>1, <2>2
<1>6. CASE Open
  BY <1>6 DEF Open, TypeInv, StagesInv
<1>7. CASE ReadJob \/ LoadFails \/ Poll \/ PollFails
  <2>1. UNCHANGED <<job, request, shown, failed, filter, overtaken, unsettled>>
    BY <1>7 DEF ReadJob, LoadFails, Poll, PollFails
  <2> QED BY <1>1, <2>1 DEF Excused
<1>8. CASE ReviewServed \/ ColleagueReviews \/ WorkerStep \/ UNCHANGED vars
  <2>1. UNCHANGED <<job, request, shown, failed, filter, overtaken, unsettled>>
    BY <1>8 DEF ReviewServed, ColleagueReviews, WorkerStep, vars, pageVars
  <2> QED BY <1>1, <2>1 DEF Excused
<1>9. CASE SavePressed
  <2>1. UNCHANGED <<job, request, shown, failed, filter, overtaken>>
    BY <1>9 DEF SavePressed
  <2>2. unsettled => unsettled'
    BY <1>9 DEF SavePressed
  <2> QED BY <1>1, <2>1, <2>2 DEF Excused
<1>10. CASE SaveAnswered
  <2>1. UNCHANGED <<job, request, failed, filter, overtaken, unsettled>>
        /\ save["page"].at = "answered"
        /\ shown' = [shown EXCEPT !["findings"] = Replaced(save["page"].loaded)]
    BY <1>10 DEF SaveAnswered, Reviews!Answered
  <2>2. CASE s # "findings"
    <3>1. shown'[s] = shown[s]
      BY <1>0, <2>1, <2>2
    <3> QED BY <1>1, <2>1, <3>1 DEF Excused
  <2>3. CASE s = "findings" /\ Excused(s)
    BY <1>a, <1>c, <2>1, <2>3 DEF Excused, Brings, Showing
  <2>4. CASE s = "findings" /\ ~Excused(s)
    <3>1. savedUnder = "all" /\ shown["findings"] # 0
      BY <2>1, <2>4 DEF CrossInv, Excused
    <3>2. save["page"].loaded.version \in Nat
      BY <1>0 DEF SaveRecord, Reviews!Row, Panel
    <3>3. Replaced(save["page"].loaded) # 0
      BY <3>1, <3>2 DEF Replaced, Matches
    <3>4. shown'[s] # 0
      BY <1>0, <2>1, <2>4, <3>3
    <3> QED BY <1>a, <1>c, <2>1, <3>4 DEF Brings, Showing, Excused
  <2> QED BY <2>2, <2>3, <2>4
<1>11. CASE SetFilter
  <2>1. job = "completed" /\ request' = Start({"mount", "final"})
        /\ UNCHANGED <<shown, failed, overtaken>>
    BY <1>11 DEF SetFilter, Ended
  <2>2. CASE s \in Listed
    <3>1. request'[LastRequest(s)] = Sent
      BY <1>0, <1>a, <2>1, <2>2, StartOK
    <3> QED BY <1>2, <3>1
  <2>3. CASE s = "artifacts"
    <3>1. LastRequest(s)[1] = "drill"
      BY <2>3 DEF LastRequest
    <3>2. request'[LastRequest(s)] = request[LastRequest(s)]
      BY <1>0, <1>a, <2>1, <3>1, StartOK
    <3> QED BY <1>1, <2>1, <2>3, <3>2 DEF Excused
  <2> QED BY <1>a, <2>2, <2>3
<1>12. ASSUME NEW slot \in Slot, Read(slot) PROVE Brings(s)' /\ Showing(s)'
  <2>1. PICK r : /\ request' = [request EXCEPT ![slot] = r]
                 /\ \/ r = [at |-> "read", got |-> Content(slot[2])]
                    \/ r = [at |-> "error", got |-> 0]
    BY <1>12 DEF Read
  <2>2. UNCHANGED <<job, row, shown, failed, filter, overtaken, unsettled>>
        /\ stored' = stored
    BY <1>12 DEF Read, reviewVars, backendVars
  <2>3. CASE slot # LastRequest(s)
    <3>1. request'[LastRequest(s)] = request[LastRequest(s)]
      BY <1>0, <1>a, <2>1, <2>3
    <3> QED BY <1>1, <2>2, <3>1 DEF Excused
  <2>4. CASE slot = LastRequest(s)
    <3>1. request'[LastRequest(s)] = r /\ r.at # "none"
      BY <1>0, <2>1, <2>4
    <3>2. Content(s) # 0 \/ Excused(s)
      <4>1. s # "priority"
        BY SlotFacts
      <4> QED BY <1>0, <1>b, <2>2, <4>1 DEF Content, Stored, Matches, Excused
    <3>3. r.at = "read" => r.got # 0 \/ Excused(s)
      BY <1>a, <2>1, <2>4, <3>2
    <3> QED BY <1>a, <2>2, <3>1, <3>3 DEF Brings, Showing, Excused
  <2> QED BY <2>3, <2>4
<1>13. ASSUME NEW slots \in SUBSET Slot, Arrive(slots), \A x, y \in slots : x[2] = y[2] => x = y,
              \A x \in slots : x[2] \in Section,
              s = "artifacts" => overtaken' \ Listed = overtaken \ Listed,
              LastRequest(s) \notin slots /\ s \in Listed =>
                \/ s \in overtaken'
                \/ overtaken \subseteq overtaken' /\ \A x \in slots : x[2] # s
                \/ InFlight(LastRequest(s)),
              s = "artifacts" => \A x \in slots : x[2] = s => x = LastRequest(s)
       PROVE  Brings(s)' /\ Showing(s)'
  <2>1. /\ \A slot \in Slot : request'[slot] = IF slot \in slots THEN NoRequest
                                               ELSE request[slot]
        /\ \A x \in slots : request[x].at \in {"read", "error"}
        /\ \A x \in slots : request[x].at = "read" => shown'[x[2]] = request[x].got
        /\ \A x \in slots : request[x].at = "error" => x[2] \in failed'
        /\ (\A x \in slots : x[2] # s) => shown'[s] = shown[s] /\ (s \in failed => s \in failed')
    BY <1>13, ArriveEffect
  <2>2. UNCHANGED <<job, filter, unsettled>>
    BY <1>13 DEF Arrive
  <2>3. CASE LastRequest(s) \in slots
    <3>1. request'[LastRequest(s)] = NoRequest
      BY <1>a, <2>1, <2>3
    <3>2. s \in failed' \/ shown'[s] # 0 \/ Excused(s)
      BY <1>a, <1>c, <2>1, <2>2, <2>3 DEF Brings
    <3> QED BY <1>a, <2>2, <3>1, <3>2, RequestFacts DEF Brings, Showing, Excused
  <2>4. CASE LastRequest(s) \notin slots
    <3>1. request'[LastRequest(s)] = request[LastRequest(s)]
      BY <1>a, <2>1, <2>4
    <3>2. Brings(s)'
      BY <1>a, <1>c, <2>2, <3>1 DEF Brings, Excused
    <3>3. CASE InFlight(LastRequest(s)) \/ s \in overtaken'
      BY <1>a, <3>1, <3>2, <3>3 DEF Showing
    <3>4. CASE /\ \A x \in slots : x[2] # s
               /\ s \in overtaken => s \in overtaken'
      BY <1>1, <2>1, <2>2, <3>1, <3>4 DEF Excused
    <3>5. s = "artifacts" => \A x \in slots : x[2] # s
      BY <1>13, <2>4
    <3>6. s = "artifacts" => (s \in overtaken => s \in overtaken')
      BY <1>13, SlotFacts
    <3> QED BY <1>13, <1>a, <2>4, <3>3, <3>4, <3>5, <3>6
  <2> QED BY <2>3, <2>4
<1>14. ASSUME NEW t \in Listed, SectionArrives(t) PROVE Brings(s)' /\ Showing(s)'
  <2>1. job = "completed" /\ UNCHANGED <<job, filter, unsettled>>
    BY <1>14 DEF SectionArrives
  <2>2. request'[LastRequest(s)] = request[LastRequest(s)]
    <3>1. LastRequest(s) \notin {"mount"} \X With(t)
      BY DEF LastRequest
    <3> QED BY <1>a, <1>14, <3>1, SectionEffect
  <2>3. CASE t # s
    <3>1. shown'[s] = shown[s] /\ (s \in failed => s \in failed') /\ overtaken \subseteq overtaken'
      <4>1. /\ \A x \in Section \ {t} : shown'[x] = shown[x] /\ (x \in failed' <=> x \in failed)
            /\ overtaken' = IF job \in Ended /\ ~InFlight(<<"final", t>>)
                            THEN overtaken \cup {t} ELSE overtaken
        BY <1>14, SectionEffect
      <4> QED BY <2>3, <4>1
    <3> QED BY <1>1, <2>1, <2>2, <3>1 DEF Excused
  <2>4. CASE t = s
    <3>1. s \in overtaken' \/ InFlight(LastRequest(s))
      <4>1. overtaken' = IF job \in Ended /\ ~InFlight(<<"final", t>>)
                         THEN overtaken \cup {t} ELSE overtaken
        BY <1>14, SectionEffect
      <4> QED BY <1>a, <2>1, <2>4, <4>1 DEF Ended
    <3>2. Brings(s)'
      BY <1>a, <1>c, <2>1, <2>2 DEF Brings, Excused
    <3> QED BY <1>a, <2>2, <3>1, <3>2 DEF Showing
  <2> QED BY <2>3, <2>4
<1>15. CASE ArtifactsArrive
  <2>1. Arrive({<<"drill", "artifacts">>}) /\ {<<"drill", "artifacts">>} \in SUBSET Slot
        /\ overtaken' = overtaken
    BY <1>15, SlotFacts DEF ArtifactsArrive
  <2>2. s = "artifacts" => LastRequest(s) = <<"drill", "artifacts">>
    BY DEF LastRequest
  <2>3. \A x \in {<<"drill", "artifacts">>} : x[2] \in Section
    BY SlotFacts
  <2> QED BY <1>13, <1>a, <2>1, <2>2, <2>3
<1>16. CASE FinalArrives
  <2>1. Arrive({"final"} \X Listed) /\ {"final"} \X Listed \in SUBSET Slot /\ overtaken' = {}
    BY <1>16 DEF FinalArrives, Slot
  <2>2. \A x, y \in {"final"} \X Listed : x[2] = y[2] => x = y
    OBVIOUS
  <2>3. s \in Listed => LastRequest(s) \in {"final"} \X Listed
    BY <1>a
  <2>4. \A x \in {"final"} \X Listed : x[2] # "artifacts" /\ x[2] \in Section
    BY SlotFacts
  <2>5. overtaken \ Listed = {}
    BY DEF TypeInv, ViewTypes
  <2> QED BY <1>13, <2>1, <2>2, <2>3, <2>4, <2>5
<1> QED
  BY <1>4, <1>5, <1>6, <1>7, <1>8, <1>9, <1>10, <1>11, <1>12, <1>14, <1>15, <1>16 DEF Next

\* Where the findings were stored when the first effect last ran, the answer on its way
\* counts them, and the number is right when no answer is.
Count == <<"mount", "priority">>
CountInv ==
  "findings" \in Listed /\ fresh =>
    /\ "findings" \in stored["job"]
    /\ request[Count].at = "read" => request[Count].got = 1
    /\ ~InFlight(Count) => highPriorityTotal = 1 \/ "findings" \in failed

LEMMA CountStep ==
  ASSUME TypeInv, CountInv, [Next]_vars
  PROVE  CountInv'
<1> SUFFICES ASSUME "findings" \in Listed, fresh'
             PROVE  /\ "findings" \in stored'["job"]
                    /\ request'[Count].at = "read" => request'[Count].got = 1
                    /\ ~InFlight(Count)' => highPriorityTotal' = 1 \/ "findings" \in failed'
  BY DEF CountInv, Count
<1> DEFINE Right == /\ "findings" \in stored'["job"]
                    /\ request'[Count].at = "read" => request'[Count].got = 1
                    /\ ~InFlight(Count)' => highPriorityTotal' = 1 \/ "findings" \in failed'
<1> USE DEF InFlight
<1>0. /\ request \in [Slot -> RequestRecord] /\ Count \in Slot /\ Count[1] = "mount"
      /\ Count[2] = "priority" /\ Count \in {"mount"} \X With("findings") /\ Count' = Count
  <2>1. Count \in {"mount"} \X With("findings")
    BY DEF Count, With
  <2> QED BY <2>1, SlotFacts DEF TypeInv, ViewTypes, Count
<1>1. stored["job"] \subseteq stored'["job"]
  <2>1. CASE Tables!Next
    BY <2>1, TablesStep DEF TypeInv
  <2>2. CASE UNCHANGED backendVars
    BY <2>2 DEF backendVars
  <2> QED BY <2>1, <2>2, TableMoves
<1>2. ASSUME fresh' = fresh, request'[Count] = request[Count],
             highPriorityTotal' = highPriorityTotal, "findings" \in failed => "findings" \in failed'
      PROVE  Right
  BY <1>0, <1>1, <1>2 DEF CountInv
<1>3. ASSUME fresh' = ("findings" \in stored["job"]), NEW effects, "mount" \in effects,
             request' = Start(effects)
      PROVE  Right
  <2>1. request'[Count] = Sent
    BY <1>0, <1>3, StartOK
  <2> QED BY <1>0, <1>1, <1>3, <2>1, RequestFacts
<1>4. CASE Open \/ SetFilter
  <2>1. CASE Open
    <3>1. request' = Start({"mount", "drill"}) /\ fresh' = ("findings" \in stored["job"])
      BY <2>1 DEF Open, FirstEffectRuns
    <3> QED BY <1>3, <3>1
  <2>2. CASE SetFilter
    <3>1. request' = Start({"mount"} \cup (IF job \in Ended THEN {"final"} ELSE {}))
          /\ fresh' = ("findings" \in stored["job"])
      BY <2>2 DEF SetFilter, FirstEffectRuns
    <3> QED BY <1>3, <3>1
  <2> QED BY <1>4, <2>1, <2>2
<1>5. ASSUME NEW v, NEW left, SetJob(v, left) PROVE Right
  <2>1. UNCHANGED <<fresh, highPriorityTotal, failed>>
    BY <1>5 DEF SetJob
  <2>2. request'[Count] = request[Count]
    <3>1. CASE v = job
      BY <1>5, <3>1 DEF SetJob
    <3>2. CASE v # job
      <4>1. request' = Start({"drill", IF v \in Ended THEN "final" ELSE "drill"})
        BY <1>5, <3>2 DEF SetJob
      <4> QED BY <1>0, <4>1, StartOK
    <3> QED BY <3>1, <3>2
  <2> QED BY <1>2, <2>1, <2>2
<1>6. CASE JobLoaded \/ PollAnswered
  BY <1>5, <1>6 DEF JobLoaded, PollAnswered
<1>7. CASE ReadJob \/ LoadFails \/ Poll \/ PollFails \/ SavePressed \/ SaveAnswered
  BY <1>2, <1>7 DEF ReadJob, LoadFails, Poll, PollFails, SavePressed, SaveAnswered
<1>8. CASE ReviewServed \/ ColleagueReviews \/ WorkerStep \/ UNCHANGED vars
  BY <1>2, <1>8 DEF ReviewServed, ColleagueReviews, WorkerStep, vars, pageVars
<1>9. ASSUME NEW slot \in Slot, Read(slot) PROVE Right
  <2>1. PICK r : /\ request' = [request EXCEPT ![slot] = r]
                 /\ \/ r = [at |-> "read", got |-> Content(slot[2])]
                    \/ r = [at |-> "error", got |-> 0]
    BY <1>9 DEF Read
  <2>2. UNCHANGED <<fresh, highPriorityTotal, failed, stored>>
    BY <1>9 DEF Read, backendVars
  <2>3. CASE slot # Count
    <3>1. request'[Count] = request[Count]
      BY <1>0, <2>1, <2>3
    <3> QED BY <1>2, <2>2, <3>1
  <2>4. CASE slot = Count
    <3>1. request'[Count] = r /\ r.at # "none"
      BY <1>0, <2>1, <2>4
    <3>2. "findings" \in stored["job"]
      BY <2>2 DEF CountInv
    <3>3. Content("priority") = 1
      BY <3>2 DEF Content, Stored
    <3>4. r.at = "read" => r.got = 1
      BY <1>0, <2>1, <2>4, <3>3
    <3> QED BY <1>0, <2>2, <3>1, <3>2, <3>4
  <2> QED BY <2>3, <2>4
<1>10. ASSUME NEW s \in Listed, SectionArrives(s) PROVE Right
  <2>1. UNCHANGED <<fresh, stored>>
    BY <1>10 DEF SectionArrives, backendVars
  <2>2. "findings" \in stored["job"]
    BY <2>1 DEF CountInv
  <2>3. CASE s = "findings"
    <3>1. request'[Count] = NoRequest
      BY <1>0, <1>10, <2>3, SectionEffect
    <3>2. highPriorityTotal' = 1 \/ "findings" \in failed'
      <4>1. CASE SectionFails(s)
        BY <2>3, <4>1 DEF SectionFails
      <4>2. CASE SectionRead(s)
        <5>1. request[Count].at = "read" /\ highPriorityTotal' = request[Count].got
          BY <2>3, <4>2 DEF SectionRead, With, Count
        <5> QED BY <2>1, <5>1 DEF CountInv
      <4> QED BY <1>10, <4>1, <4>2 DEF SectionArrives
    <3> QED BY <2>1, <2>2, <3>1, <3>2, RequestFacts
  <2>4. CASE s # "findings"
    <3>1. Count \notin {"mount"} \X With(s)
      BY <2>4, SlotFacts DEF Count, With
    <3>2. request'[Count] = request[Count]
      BY <1>0, <1>10, <3>1, SectionEffect
    <3>3. highPriorityTotal' = highPriorityTotal /\ ("findings" \in failed => "findings" \in failed')
      BY <1>10, <2>4 DEF SectionArrives, SectionRead, SectionFails
    <3> QED BY <1>2, <2>1, <3>2, <3>3
  <2> QED BY <2>3, <2>4
<1>11. ASSUME NEW slots, Arrive(slots), Count \notin slots PROVE Right
  <2>1. request'[Count] = request[Count] /\ UNCHANGED <<fresh, highPriorityTotal>>
    BY <1>0, <1>11 DEF Arrive, Without
  <2>2. "findings" \in failed => "findings" \in failed'
    BY <1>11 DEF Arrive
  <2> QED BY <1>2, <2>1, <2>2
<1>12. CASE ArtifactsArrive
  BY <1>11, <1>12 DEF ArtifactsArrive, Count
<1>13. CASE FinalArrives
  BY <1>11, <1>13 DEF FinalArrives, Count
<1> QED
  BY <1>4, <1>6, <1>7, <1>8, <1>9, <1>10, <1>12, <1>13 DEF Next

\* A page at rest that says completed lists every result the worker stored before it
\* wrote that, in each section without an error and not overtaken by its first request,
\* and has the right number of high and critical findings if they were stored when its
\* first effect last ran, for any worker that keeps the order of JobResults.
THEOREM ResultsShown == Spec => []ResultsShownAtRest
<1>1. Init => LateInv /\ ResultsInv /\ CountInv
  BY DEF Init, Tables!Init, LateInv, ResultsInv, CountInv
<1>2. TypeInv /\ CrossInv /\ LateInv /\ ResultsInv /\ CountInv /\ [Next]_vars
        => LateInv' /\ ResultsInv' /\ CountInv'
  BY LateStep, ResultsStep, CountStep
<1>3. TypeInv /\ ResultsInv /\ CountInv => ResultsShownAtRest
  <2> SUFFICES ASSUME TypeInv, ResultsInv, CountInv, AtRest, job = "completed"
               PROVE  ResultsShownAtRest
    BY DEF ResultsShownAtRest
  <2>1. ASSUME NEW s \in (stored["job"] \ {"report"}) \ (failed \cup overtaken)
        PROVE  shown[s] # 0 \/ (s = "findings" /\ (filter # "all" \/ unsettled))
    <3>1. s \in Section /\ LastRequest(s) \in Slot
      BY LastRequestFacts DEF TypeInv, TablesInv
    <3>2. ~InFlight(LastRequest(s)) /\ Showing(s)
      BY <3>1 DEF AtRest, ResultsInv
    <3> QED BY <3>2 DEF Showing, Excused
  <2>2. ASSUME fresh, "findings" \in stored["job"] \ failed
        PROVE  HighPriority = 1
    <3>1. "findings" \in Listed
      BY <2>2 DEF TypeInv, TablesInv, Section
    <3>2. Count \in Slot
      BY <3>1, SlotFacts DEF Count, With
    <3>3. ~InFlight(Count)
      BY <3>2 DEF AtRest
    <3>4. highPriorityTotal = 1
      BY <2>2, <3>1, <3>3 DEF CountInv
    <3> QED BY <3>4 DEF HighPriority, Null
  <2> QED BY <2>1, <2>2 DEF ResultsShownAtRest
<1> QED
  BY <1>1, <1>2, <1>3, TypeInvCorrect, CrossCorrect, PTL DEF Spec

=============================================================================
