----------------------------- MODULE Verification -----------------------------
(***************************************************************************)
(* Registration, verification and compliance reports of one SBOM ID        *)
(* (submit.js, verify.js, compliance-report.js).  The document is in the   *)
(* row of the database, its hash on the ledger; a verification reads the   *)
(* row, asks the ledger, compares the presented document with the row's,   *)
(* and hangs its result on the row.  A submission inserts the row first    *)
(* and deletes it if the ledger did not confirm, although it may commit    *)
(* later; the ID can then be submitted with another document.              *)
(*                                                                         *)
(* Hashes stand for canonical documents.  The steps of the lifecycle are   *)
(* Registry's: here they only decide whether a report may say compliant.   *)
(* The evaluation that follows a submission is Outbox's and Evaluation's.  *)
(***************************************************************************)
EXTENDS SBOMDiff

CONSTANTS
  Presented,       \* documents that are verified
  Submitted,       \* documents that are submitted, some of them
  Submitter,       \* submissions in progress
  Verifier,        \* verifications and compliance reports in progress
  MaxRows,         \* bound: rows ever inserted for the ID
  MaxResults,      \* bound: results recorded
  MaxFaults        \* bound: lost confirmations, failures, crashes

\* A document says each of these, if only that it has none; components are a list.
ASSUME VerificationAssumption ==
  /\ Submitted \subseteq Presented
  /\ \A d \in Presented : /\ {"components", "metadata", "ratings"} \subseteq DOMAIN d
                          /\ d.components \in Seq({d.components[i] : i \in DOMAIN d.components})
  /\ MaxRows \in Nat /\ MaxResults \in Nat /\ MaxFaults \in Nat

VARIABLES
  row,             \* the row of sbom_documents with this sbom_id
  record,          \* the ledger's record: whose hash and which status
  flight,          \* transactions sent to the orderer and not yet in a block
  submission,      \* submitter -> where it is
  check,           \* verifier -> where it is
  results,         \* verification_events and compliance_reports
  rows,            \* rows ever inserted, the last one's identity
  faults,          \* faults so far
  confirmed        \* history: the row whose transaction wrote the record, 0 if none

vars == <<row, record, flight, submission, check, results, rows, faults, confirmed>>
-----------------------------------------------------------------------------
NoRow    == [id |-> 0]
NoRecord == [status |-> "NONE"]
Idle     == [step |-> "idle"]

\* Before approval, APPROVED or ACTIVE, and after.
Stage == {"REGISTERED", "APPROVED", "ENDED"}

Row    == [id : 1..MaxRows, doc : Submitted, policy : {"PASS", "FAIL"}]
Record == [doc : Submitted, status : Stage]
Result == [of : 1..MaxRows, kind : {"verification", "report"}, doc : Presented, original : Presented, stored : Presented,
           match : BOOLEAN, compliant : BOOLEAN,
           tamper : {"NONE", "COMPONENT_INJECTION", "COMPONENT_REMOVAL", "VERSION_MODIFICATION",
                     "FIELD_LEVEL_METADATA_MODIFICATION", "OTHER_MODIFICATION"}]

\* A submission under way, a check that has read the row, and one that has its result.
Pending   == [step : {"inserted", "sent", "rollback"}, id : 1..MaxRows, doc : Submitted]
Comparing == [step : {"compare"}, kind : {"verification", "report"}, doc : Presented, row : Row]
Answered  == {"history", "record"}

Match(d, e) == Canonical(d) = Canonical(e)
-----------------------------------------------------------------------------
\* POST /submit.

\* sbom_id is unique: while there is a row another submission of the ID fails.
InsertRow(s, d) ==
  /\ submission[s] = Idle /\ rows < MaxRows /\ row = NoRow
  /\ row' = [id |-> rows + 1, doc |-> d, policy |-> Verdict(d)]
  /\ rows' = rows + 1
  /\ submission' = [submission EXCEPT ![s] = [step |-> "inserted", id |-> rows + 1, doc |-> d]]
  /\ UNCHANGED <<record, flight, check, results, faults, confirmed>>

Goes(s, step) == submission' = [submission EXCEPT ![s].step = step]

\* SubmitSBOM is endorsed unless the ledger has the ID.
Endorse(s) ==
  /\ submission[s].step = "inserted"
  /\ IF record = NoRecord
     THEN flight' = flight \cup {[id |-> submission[s].id, doc |-> submission[s].doc]} /\ Goes(s, "sent")
     ELSE UNCHANGED flight /\ Goes(s, "rollback")
  /\ UNCHANGED <<row, record, check, results, rows, faults, confirmed>>

\* A transaction is committed, or invalidated when another one of the ID came first.
\* The submission that still waits for it is finished, or rolled back.
Commit(t) ==
  /\ t \in flight /\ flight' = flight \ {t}
  /\ record' = IF record = NoRecord THEN [doc |-> t.doc, status |-> "REGISTERED"] ELSE record
  /\ confirmed' = IF record = NoRecord THEN t.id ELSE confirmed
  /\ submission' = [s \in Submitter |->
       IF submission[s].step = "sent" /\ submission[s].id = t.id
       THEN IF record = NoRecord THEN Idle ELSE [submission[s] EXCEPT !.step = "rollback"]
       ELSE submission[s]]
  /\ UNCHANGED <<row, check, results, rows, faults>>

\* deleteSBOMDocumentByID: the row with this identity and, by its foreign keys, what hangs
\* on it.
Rollback(s) ==
  /\ submission[s].step = "rollback"
  /\ row' = IF row.id = submission[s].id THEN NoRow ELSE row
  /\ results' = {r \in results : r.of # submission[s].id}
  /\ submission' = [submission EXCEPT ![s] = Idle]
  /\ UNCHANGED <<record, flight, check, rows, faults, confirmed>>
-----------------------------------------------------------------------------
\* A lifecycle route takes the SBOM on; it needs the row as well as the record.
Advance(status) ==
  /\ row # NoRow /\ record # NoRecord
  /\ <<record.status, status>> \in {<<"REGISTERED", "APPROVED">>, <<"REGISTERED", "ENDED">>, <<"APPROVED", "ENDED">>}
  /\ record' = [record EXCEPT !.status = status]
  /\ UNCHANGED <<row, flight, submission, check, results, rows, faults, confirmed>>
-----------------------------------------------------------------------------
\* POST /verify and POST /compliance-report.

\* The row is read; without one the request is answered 404.
BeginCheck(v, kind, d) ==
  /\ check[v] = Idle /\ row # NoRow /\ Cardinality(results) < MaxResults
  /\ check' = [check EXCEPT ![v] = [step |-> "compare", kind |-> kind, doc |-> d, row |-> row]]
  /\ UNCHANGED <<row, record, flight, submission, results, rows, faults, confirmed>>

Compliant(match, status, policy) == match /\ status = "APPROVED" /\ policy = "PASS"

\* VerifyIntegrity; an unknown ID is answered 404, and nothing is recorded.  A mismatch is
\* explained by comparing the document of the row with the presented one.
Compare(v) ==
  /\ check[v].step = "compare"
  /\ LET c == check[v]
         match == Match(c.doc, record.doc)
     IN check' = [check EXCEPT ![v] =
          IF record = NoRecord THEN Idle
          ELSE [step |-> IF c.kind = "report" THEN "history" ELSE "record",
                result |-> [of |-> c.row.id, kind |-> c.kind, doc |-> c.doc, original |-> c.row.doc,
                            stored |-> record.doc, match |-> match,
                            compliant |-> c.kind = "report" /\ Compliant(match, record.status, c.row.policy),
                            tamper |-> IF match THEN "NONE" ELSE TamperType(c.row.doc, c.doc)],
                actions |-> IF match THEN {}
                            ELSE ComponentActions(c.row.doc, c.doc)]]
  /\ UNCHANGED <<row, record, flight, submission, results, rows, faults, confirmed>>

\* GetHistory is a query of its own, answered later.
ReadHistory(v) ==
  /\ check[v].step = "history"
  /\ check' = [check EXCEPT ![v].step = "record"]
  /\ UNCHANGED <<row, record, flight, submission, results, rows, faults, confirmed>>

\* Faulty variant: the result is hung on the row the ID has now.
RecordResult_ByID(v) ==
  /\ check[v].step = "record"
  /\ results' = IF row # NoRow THEN results \cup {[check[v].result EXCEPT !.of = row.id]} ELSE results
  /\ check' = [check EXCEPT ![v] = Idle]
  /\ UNCHANGED <<row, record, flight, submission, rows, faults, confirmed>>

\* The result is inserted for the row that was read; if that is gone, the foreign key makes
\* the insert fail, which is only logged.
RecordResult(v) ==
  /\ check[v].step = "record"
  /\ results' = IF row.id = check[v].result.of THEN results \cup {check[v].result} ELSE results
  /\ check' = [check EXCEPT ![v] = Idle]
  /\ UNCHANGED <<row, record, flight, submission, rows, faults, confirmed>>
-----------------------------------------------------------------------------
\* Faults.

Fault == faults < MaxFaults /\ faults' = faults + 1

\* No connection to Fabric: the row stays.
ConnectFails(s) ==
  /\ Fault /\ submission[s].step = "inserted"
  /\ submission' = [submission EXCEPT ![s] = Idle]
  /\ UNCHANGED <<row, record, flight, check, results, rows, confirmed>>

\* The artifact row cannot be inserted, or the transaction fails before it reaches the
\* orderer.
SubmitFails(s) ==
  /\ Fault /\ submission[s].step = "inserted"
  /\ Goes(s, "rollback")
  /\ UNCHANGED <<row, record, flight, check, results, rows, confirmed>>

\* The confirmation does not come in time: the transaction stays in flight, for ever or
\* until it is committed.
ConfirmationLost(s) ==
  /\ Fault /\ submission[s].step = "sent"
  /\ Goes(s, "rollback")
  /\ UNCHANGED <<row, record, flight, check, results, rows, confirmed>>

\* The row cannot be deleted, which is only logged.
RollbackFails(s) ==
  /\ Fault /\ submission[s].step = "rollback"
  /\ submission' = [submission EXCEPT ![s] = Idle]
  /\ UNCHANGED <<row, record, flight, check, results, rows, confirmed>>

\* A query of a check fails, or its result cannot be inserted.
CheckFails(v) ==
  /\ Fault /\ check[v] # Idle
  /\ check' = [check EXCEPT ![v] = Idle]
  /\ UNCHANGED <<row, record, flight, submission, results, rows, confirmed>>

\* The process restarts.
Crash ==
  /\ Fault
  /\ submission' = [s \in Submitter |-> Idle] /\ check' = [v \in Verifier |-> Idle]
  /\ UNCHANGED <<row, record, flight, results, rows, confirmed>>
-----------------------------------------------------------------------------
Init ==
  /\ row = NoRow /\ record = NoRecord /\ flight = {}
  /\ submission = [s \in Submitter |-> Idle] /\ check = [v \in Verifier |-> Idle]
  /\ results = {} /\ rows = 0 /\ faults = 0 /\ confirmed = 0

Submits(s) ==
  \/ \E d \in Submitted : InsertRow(s, d)
  \/ Endorse(s) \/ Rollback(s)
  \/ ConnectFails(s) \/ SubmitFails(s) \/ ConfirmationLost(s) \/ RollbackFails(s)

Checks(v) ==
  \/ \E kind \in {"verification", "report"}, d \in Presented : BeginCheck(v, kind, d)
  \/ Compare(v) \/ ReadHistory(v) \/ RecordResult(v) \/ CheckFails(v)

Next ==
  \/ \E s \in Submitter : Submits(s)
  \/ \E v \in Verifier : Checks(v)
  \/ \E t \in flight : Commit(t)
  \/ \E status \in Stage : Advance(status)
  \/ Crash

Spec == Init /\ [][Next]_vars
-----------------------------------------------------------------------------
\* Every variable holds what the code can put there.
TypeOK ==
  /\ row \in Row \cup {NoRow} /\ record \in Record \cup {NoRecord}
  /\ flight \subseteq [id : 1..MaxRows, doc : Submitted]
  /\ submission \in [Submitter -> {Idle} \cup Pending]
  /\ DOMAIN check = Verifier
  /\ \A v \in Verifier :
       \/ check[v] = Idle \/ check[v] \in Comparing
       \/ /\ check[v].step \in Answered /\ check[v].result \in Result
          /\ check[v] = [step |-> check[v].step, result |-> check[v].result, actions |-> check[v].actions]
  /\ results \subseteq Result
  /\ rows \in 0..MaxRows /\ faults \in 0..MaxFaults /\ confirmed \in 0..MaxRows

\* How often a document lists a name in a version, and a report takes it away and adds it.
Listed(d, n, v)      == Cardinality({i \in DOMAIN d.components : d.components[i].name = n /\ d.components[i].version = v})
Lost(actions, n, v)   == Cardinality({a \in actions : a.name = n /\ a.from = v /\ a.status # "Added"})
Gained(actions, n, v) == Cardinality({a \in actions : a.name = n /\ a.to = v /\ a.status # "Removed"})

Components(o, s) == {o.components[i] : i \in DOMAIN o.components} \cup {s.components[i] : i \in DOMAIN s.components}

\* Components that share a key share their name.  They need not: getStableKey strips a
\* package URL from its first "@", so scoped packages whose scope is not encoded,
\* pkg:npm/@scope/one and pkg:npm/@scope/two, have one key (sbomDiffEngine.js:15), and an
\* update between them is reported under one of their names only.
Named(o, s) == \A c, d \in Components(o, s) : Key(c) = Key(d) => c.name = d.name

\* The report of a document that does not verify accounts for the difference: applied to
\* the components of the row's document it gives the presented ones, each name and version
\* as often as it is listed, whatever was added, removed, updated or moved to another key;
\* and it never calls a component removed that came back under its name
\* (sbomDiffEngine.js:121-268).
ReportExplains ==
  \A v \in Verifier : check[v].step \in Answered /\ ~check[v].result.match =>
    LET o == check[v].result.original
        s == check[v].result.doc
        actions == check[v].actions
    IN /\ Named(o, s) =>
            \A c \in Components(o, s) :
              Listed(s, c.name, c.version)
                = Listed(o, c.name, c.version) - Lost(actions, c.name, c.version) + Gained(actions, c.name, c.version)
       /\ \A a, b \in actions : a.status = "Removed" /\ b.status = "Added" => a.name # b.name

\* Texts of components have no blanks around them.
Tidy(d) == Canonical(d).components = d.components

\* When no submission is in progress, every result in the tables is about the row it hangs
\* on: it was compared with that row's document, and the ledger's hash it states is that
\* document's, although row and ledger were read at two moments.  A document called
\* compliant has the hash of a row's document that passes the policy.  It passes itself if
\* both are tidy, and only then: the hash trims every text (canonicalize.js:29-34), the
\* policy compares names and blocked versions untrimmed (policy.js:112-124), so documents of
\* one hash may have different verdicts.
\* This holds through one fault of any kind, and through more for the row whose own
\* submission the ledger confirmed; it needs the rollback to take the results with it and
\* the row's identity, not the ID, to name the row (submit.js:236, verify.js:159,
\* compliance-report.js:134-208).
AuditAgrees ==
  (\A s \in Submitter : submission[s] = Idle) =>
    \A r \in results :
      /\ r.of = row.id /\ r.original = row.doc
      /\ faults <= 1 \/ r.of = confirmed =>
           /\ Match(r.stored, row.doc)
           /\ r.compliant =>
                /\ Match(r.doc, row.doc) /\ Verdict(row.doc) = "PASS"
                /\ Tidy(r.doc) /\ Tidy(row.doc) => Verdict(r.doc) = "PASS"
=============================================================================
