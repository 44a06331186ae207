------------------------------- MODULE Reports -------------------------------
(***************************************************************************)
(* The reports of the secretaries: a draft is written, published and       *)
(* archived; only a draft is changed, deleted, or given an attachment.     *)
(* Whoever is not a secretary is shown published reports alone.            *)
(***************************************************************************)
EXTENDS Requests

CONSTANTS
    Papers,     \* rows of reports
    Contents,   \* bound: what a report says
    Files       \* bound: files that are attached

VARIABLES
    reports,        \* table reports
    attachments,    \* table report_attachments
    stored,         \* files in the storage, which deletes none of them
    shown,          \* history: what was shown to who is not a secretary
    public,         \* history: what a report has said while it was published
    leftover,       \* history: files whose upload or row has gone
    met             \* history: reports two requests have met on

reportTables  == <<reports, attachments, stored>>
reportHistory == <<shown, public, leftover, met>>

-----------------------------------------------------------------------------
ReportStatus == {"BROUILLON", "PUBLIE", "ARCHIVE"}
Report == [status : ReportStatus, says : Contents]

Attached(p) == {a \in attachments : a[1] = p}

\* A commit on a report of which another request is in flight.
MeetOn(w, p) == met' = IF Alongside(w, "report", p) THEN met \cup {p} ELSE met

\* Whatever is published now has been.
Publicise(p, row) ==
    public' = IF Exists(row) /\ row.status = "PUBLIE" THEN public \cup {<<p, row.says>>} ELSE public

-----------------------------------------------------------------------------
NewReport(says) == [status |-> "BROUILLON", says |-> says]

CreateReport(p, says) ==
    /\ reports[p] = None
    /\ reports' = [reports EXCEPT ![p] = NewReport(says)]
    /\ UNCHANGED <<attachments, stored, reportHistory, flights>>

\* The secretaries are shown every report, the others the published ones.
ShowReport(p) ==
    /\ Exists(reports[p]) /\ reports[p].status = "PUBLIE"
    /\ shown' = shown \cup {<<p, reports[p].says>>}
    /\ UNCHANGED <<reportTables, public, leftover, met, flights>>

\* The report is read, has the status that op is for, and waits.
ReadReport(w, p, op, status, arg, place) ==
    /\ Exists(reports[p]) /\ reports[p].status = status
    /\ Begin(w, [op |-> op, report |-> p, read |-> reports[p], arg |-> arg], place)
    /\ UNCHANGED <<reportTables, reportHistory>>

UpdateReport(w, p, says) == ReadReport(w, p, "update", "BROUILLON", says, "writing")
DeleteReport(w, p)       == ReadReport(w, p, "delete", "BROUILLON", None, "writing")
PublishReport(w, p)      == ReadReport(w, p, "publish", "BROUILLON", None, "writing")
AddAttachment(w, p, f)   == ReadReport(w, p, "attach", "BROUILLON", f, "attaching")

ArchiveReport(w, p)      == ReadReport(w, p, "archive", "PUBLIE", None, "writing")

\* The object, as the request has read and then changed it.
Written(r) ==
    CASE r.op = "update"  -> [r.read EXCEPT !.says = r.arg]
      [] r.op = "publish" -> [r.read EXCEPT !.status = "PUBLIE"]
      [] r.op = "archive" -> [r.read EXCEPT !.status = "ARCHIVE"]

\* The attachments go with the report (ON DELETE CASCADE), their files stay.
CommitReport(w) ==
    LET r == req[w]  p == r.report
        row == IF r.op = "delete" THEN Gone ELSE Flush(reports[p], r.read, Written(r))
    IN  /\ pc[w] = "writing" /\ Exists(reports[p])
        /\ reports' = [reports EXCEPT ![p] = row]
        /\ attachments' = IF row = Gone THEN attachments \ Attached(p) ELSE attachments
        /\ leftover' = IF row = Gone THEN leftover \cup {a[2] : a \in Attached(p)} ELSE leftover
        /\ MeetOn(w, p)
        /\ Publicise(p, row)
        /\ Return(w)
        /\ UNCHANGED <<stored, shown>>

-----------------------------------------------------------------------------
(***************************************************************************)
(* An upload reads the report, whatever its status, and stores the file;   *)
(* the status is looked at afterwards, and is the one that was read.       *)
(***************************************************************************)
UploadAttachment(w, p) ==
    /\ Exists(reports[p])
    /\ Begin(w, [op |-> "upload", report |-> p, read |-> reports[p], arg |-> None], "uploading")
    /\ UNCHANGED <<reportTables, reportHistory>>

StoreAttachment(w) ==
    /\ pc[w] = "uploading"
    /\ \E f \in Files \ stored :
          /\ stored' = stored \cup {f}
          /\ Continue(w, [req[w] EXCEPT !.arg = f], "checking")
    /\ UNCHANGED <<reports, attachments, reportHistory>>

\* A file of another type or over its size.
RefuseAttachment(w) ==
    /\ pc[w] = "uploading"
    /\ Return(w)
    /\ UNCHANGED <<reportTables, reportHistory>>

\* Refused, the request fails and leaves the file where it is.
CheckDraft(w) ==
    LET r == req[w] IN
    /\ pc[w] = "checking"
    /\ IF Exists(reports[r.report]) /\ r.read.status = "BROUILLON"
       THEN Continue(w, r, "attaching") /\ UNCHANGED leftover
       ELSE Return(w) /\ leftover' = leftover \cup {r.arg}
    /\ UNCHANGED <<reportTables, shown, public, met>>

\* The foreign key refuses the row of a report that is gone.
InsertAttachment(w) ==
    LET r == req[w]  p == r.report IN
    /\ pc[w] = "attaching"
    /\ IF Exists(reports[p])
       THEN attachments' = attachments \cup {<<p, r.arg>>} /\ MeetOn(w, p) /\ UNCHANGED leftover
       ELSE leftover' = leftover \cup {r.arg} /\ UNCHANGED <<attachments, met>>
    /\ Return(w)
    /\ UNCHANGED <<reports, stored, shown, public>>

DeleteAttachment(w, p, f) ==
    /\ <<p, f>> \in attachments
    /\ ReadReport(w, p, "detach", "BROUILLON", f, "detaching")

RemoveAttachment(w) ==
    LET r == req[w] IN
    /\ pc[w] = "detaching"
    /\ attachments' = attachments \ {<<r.report, r.arg>>}
    /\ leftover' = leftover \cup {r.arg}
    /\ MeetOn(w, r.report)
    /\ Return(w)
    /\ UNCHANGED <<reports, stored, shown, public>>

\* The row was deleted meanwhile.
ReportIsGone(w) ==
    /\ pc[w] = "writing" /\ ~Exists(reports[req[w].report])
    /\ Return(w)
    /\ UNCHANGED <<reportTables, reportHistory>>

AbortReport(w) ==
    /\ Die(w)
    /\ leftover' = IF req[w].arg \in Files THEN leftover \cup {req[w].arg} ELSE leftover
    /\ UNCHANGED <<reportTables, shown, public, met>>

-----------------------------------------------------------------------------
Init ==
    /\ reports = [p \in Papers |-> None]
    /\ attachments = {} /\ stored = {}
    /\ shown = {} /\ public = {} /\ leftover = {} /\ met = {}
    /\ InitFlights

WriteDesk(w, p) ==
    \/ DeleteReport(w, p) \/ \E says \in Contents : UpdateReport(w, p, says)

StatusDesk(w, p) == PublishReport(w, p) \/ ArchiveReport(w, p)

AttachmentDesk(w, p) ==
    \/ UploadAttachment(w, p)
    \/ \E f \in Files : AddAttachment(w, p, f) \/ DeleteAttachment(w, p, f)

ServeReport(w) ==
    \/ CommitReport(w) \/ ReportIsGone(w) \/ StoreAttachment(w) \/ RefuseAttachment(w)
    \/ CheckDraft(w) \/ InsertAttachment(w) \/ RemoveAttachment(w) \/ AbortReport(w)

Next == \/ \E p \in Papers :
              \/ ShowReport(p)
              \/ \E says \in Contents : CreateReport(p, says)
              \/ \E w \in Workers : WriteDesk(w, p) \/ StatusDesk(w, p) \/ AttachmentDesk(w, p)
        \/ \E w \in Workers : ServeReport(w)

Spec == Init /\ [][Next]_<<reportTables, reportHistory, flights>>

-----------------------------------------------------------------------------
TypeOK ==
    /\ reports \in [Papers -> Report \cup {None, Gone}]
    /\ attachments \subseteq Papers \X Files
    /\ stored \cup leftover \subseteq Files
    /\ shown \cup public \subseteq Papers \X Contents
    /\ met \subseteq Papers
    /\ FlightsOK

\* Who is not a secretary has been shown nothing that was not published.
DraftsArePrivate == shown \subseteq public

\* Every stored file is attached or on its way, or its upload or its row has
\* gone: a refused upload leaves its file where nothing names it.
FilesOnRecord ==
    \A f \in stored :
        \/ \E p \in Papers : <<p, f>> \in attachments
        \/ \E w \in Workers : pc[w] # "idle" /\ req[w].arg = f
        \/ f \in leftover

\* What a request carries at each place.
Request(w, ops, args) ==
    req[w] \in [op : ops, report : Papers, read : Report, arg : args]
Writing(w) ==
    /\ pc[w] = "writing"
    /\ \/ Request(w, {"update"}, Contents) \/ Request(w, {"delete", "publish", "archive"}, {None})
    /\ req[w].read.status = IF req[w].op = "archive" THEN "PUBLIE" ELSE "BROUILLON"
Uploading(w) ==
    \/ pc[w] = "uploading" /\ Request(w, {"upload"}, {None})
    \/ pc[w] = "checking" /\ Request(w, {"upload"}, Files)
Attaching(w) ==
    /\ pc[w] \in {"attaching", "detaching"} /\ Request(w, {"attach", "upload", "detach"}, Files)
    /\ req[w].read.status = "BROUILLON"

IsDraft(row) == Exists(row) => row.status = "BROUILLON"

\* What was read as a draft is one, but for those who have met.
Sound(w) ==
    \/ pc[w] = "idle"
    \/ /\ Writing(w) \/ Uploading(w) \/ Attaching(w)
       /\ req[w].read.status = "BROUILLON" =>
             IsDraft(reports[req[w].report]) \/ req[w].report \in met

\* What a report says while it is published is on record as published.
Publicised ==
    \A p \in Papers :
        Exists(reports[p]) /\ reports[p].status = "PUBLIE" => <<p, reports[p].says>> \in public

\* The requests that carry a stored file are those that will attach it or leave it.
FilesHeld ==
    \A f \in stored :
        \/ \E p \in Papers : <<p, f>> \in attachments
        \/ \E w \in Workers : pc[w] \in {"checking", "attaching", "detaching"} /\ req[w].arg = f
        \/ f \in leftover

Inv == TypeOK /\ DraftsArePrivate /\ Publicised /\ FilesHeld /\ \A w \in Workers : Sound(w)

\* Of a step: what a published or archived report says, its attachments and its
\* being there stand, and it is not a draft again, unless two requests have met
\* on it, one of which had read it as a draft.
PublishedStands ==
    \A p \in Papers :
        Exists(reports[p]) /\ reports[p].status # "BROUILLON" =>
            \/ /\ Exists(reports'[p])
               /\ reports'[p].says = reports[p].says
               /\ reports[p].status = "ARCHIVE" => reports'[p] = reports[p]
               /\ {a \in attachments' : a[1] = p} = Attached(p)
            \/ p \in met'
=============================================================================
