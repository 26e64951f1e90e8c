------------------------------- MODULE Reports -------------------------------
(***************************************************************************)
(* Exported reports (reports.service.ts). A report is a row and, once it is *)
(* built, a file; processReport runs in the request for a small report and  *)
(* as a promise of the process for a large one. Every ten minutes a job     *)
(* starts processReport again for the rows that have waited for too long    *)
(* (resumeStuck), and an hourly one deletes the files that have expired.    *)
(* A large report ends with an event for the member who asked for it.       *)
(***************************************************************************)
EXTENDS Notifications

CONSTANTS
    Reports,
    Generators      \* bound on the runs of processReport under way

VARIABLES
    report,         \* report_requests
    file,           \* report -> what the storage has under its name
    generator,      \* runs of processReport
    stuck,          \* rows the resume job has still to start
    expiring,       \* rows the cleanup job has still to clean: <<row, step>>
    overlapped      \* history: reports resumed while a run of them was alive

reportVars == <<report, file, generator, stuck, expiring, overlapped>>

-----------------------------------------------------------------------------
Pending == {"PENDING", "PROCESSING"}

\* old: created longer than REPORT_STUCK_MS ago; path: filePath is set; term: expiresAt.
ReportRow == [status : {"none", "PENDING", "PROCESSING", "READY", "FAILED"}, old : BOOLEAN,
              path : BOOLEAN, term : {"none", "valid", "past"}]
NoReport == [status |-> "none", old |-> FALSE, path |-> FALSE, term |-> "none"]

NoRun == [pc |-> "idle"]
Run(pc, x, notify) == [pc |-> pc, of |-> x, notify |-> notify]
RunsOf(x) == {g \in Generators : generator[g].pc # "idle" /\ generator[g].of = x}
Writing(x) == {g \in RunsOf(x) : generator[g].pc = "writing"}

ReportsInit ==
    /\ report = [x \in Reports |-> NoReport]
    /\ file = [x \in Reports |-> "none"]
    /\ generator = [g \in Generators |-> NoRun]
    /\ stuck = {} /\ expiring = {}
    /\ overlapped = {}

GenGoes(g, pc) == generator' = [generator EXCEPT ![g].pc = pc]
GenEnds(g) == generator' = [generator EXCEPT ![g] = NoRun]
AtGen(g, pc) == generator[g].pc = pc
Jobs == <<stuck, expiring>>

-----------------------------------------------------------------------------
\* create: a small report is generated in the request and not announced.
ReportCreate(x, g, small) ==
    /\ report[x] = NoReport /\ AtGen(g, "idle")
    /\ report' = [report EXCEPT ![x].status = "PENDING"]
    /\ generator' = [generator EXCEPT ![g] = Run("claiming", x, ~small)]
    /\ UNCHANGED <<file, Jobs, overlapped>>

\* Fault: processReport takes the row whatever its status.
AnyStatus(x) == TRUE

\* The where clause of the updateMany that claims the row: a row that another run
\* is processing is claimed too.
Claimable(x) == report[x].status \in Pending

Claim(g) ==
    LET x == generator[g].of IN
    /\ AtGen(g, "claiming")
    /\ IF Claimable(x)
       THEN /\ report' = [report EXCEPT ![x].status = "PROCESSING"]
            /\ GenGoes(g, "building")
            /\ overlapped' = IF \E h \in RunsOf(x) \ {g} : ~AtGen(h, "claiming")
                             THEN overlapped \cup {x} ELSE overlapped
       ELSE GenEnds(g) /\ UNCHANGED <<report, overlapped>>
    /\ UNCHANGED <<file, Jobs>>

\* The rows are read and the document is built; writeFile empties the file first.
StartFile(g) ==
    /\ AtGen(g, "building")
    /\ file' = [file EXCEPT ![generator[g].of] = "partial"]
    /\ GenGoes(g, "writing")
    /\ UNCHANGED <<report, Jobs, overlapped>>

EndFile(g) ==
    LET x == generator[g].of IN
    /\ AtGen(g, "writing")
    /\ file' = IF Writing(x) = {g} /\ file[x] = "partial" THEN [file EXCEPT ![x] = "whole"] ELSE file
    /\ GenGoes(g, "written")
    /\ UNCHANGED <<report, Jobs, overlapped>>

\* The row becomes READY by its id, whatever it is by now.
Ready(g) ==
    LET x == generator[g].of IN
    /\ AtGen(g, "written")
    /\ report' = [report EXCEPT ![x].status = "READY", ![x].path = TRUE, ![x].term = "valid"]
    /\ IF generator[g].notify THEN GenGoes(g, "emitting") ELSE GenEnds(g)
    /\ UNCHANGED <<file, Jobs, overlapped>>

EmitReady(g) ==
    LET x == generator[g].of IN
    /\ AtGen(g, "emitting") /\ Room("REPORT_READY", {x})
    /\ Raise(Events("REPORT_READY", {x}))
    /\ GenEnds(g)
    /\ UNCHANGED <<report, file, Jobs, overlapped>>

\* A query, the document or the storage throws: the row becomes FAILED by its id.
ReportFails(g) ==
    /\ generator[g].pc \in {"building", "writing", "written"}
    /\ report' = [report EXCEPT ![generator[g].of].status = "FAILED"]
    /\ GenEnds(g)
    /\ UNCHANGED <<file, Jobs, overlapped>>

-----------------------------------------------------------------------------
\* resumeStuck: the list is read first, the runs are started one row at a time.
ResumeList ==
    /\ stuck = {}
    /\ stuck' = {x \in Reports : report[x].status \in Pending /\ report[x].old}
    /\ stuck' # {}
    /\ UNCHANGED <<report, file, generator, expiring, overlapped>>

ResumeRow(x, g) ==
    /\ x \in stuck /\ AtGen(g, "idle")
    /\ stuck' = stuck \ {x}
    /\ report' = IF report[x].status = "PROCESSING"
                 THEN [report EXCEPT ![x].status = "PENDING"] ELSE report
    /\ generator' = [generator EXCEPT ![g] = Run("claiming", x, TRUE)]
    /\ UNCHANGED <<file, expiring, overlapped>>

\* cleanupExpired: the file goes first, then the path.
CleanList ==
    /\ expiring = {}
    /\ expiring' = {<<x, "file">> : x \in {y \in Reports : report[y].term = "past" /\ report[y].path}}
    /\ expiring' # {}
    /\ UNCHANGED <<report, file, generator, stuck, overlapped>>

CleanFile(x) ==
    /\ <<x, "file">> \in expiring
    /\ file' = [file EXCEPT ![x] = "none"]
    /\ expiring' = (expiring \ {<<x, "file">>}) \cup {<<x, "row">>}
    /\ UNCHANGED <<report, generator, stuck, overlapped>>

CleanRow(x) ==
    /\ <<x, "row">> \in expiring
    /\ report' = [report EXCEPT ![x].path = FALSE]
    /\ expiring' = expiring \ {<<x, "row">>}
    /\ UNCHANGED <<file, generator, stuck, overlapped>>

\* Time passes for a row: the ten minutes after its creation, the day after its end.
ReportAges(x) ==
    /\ \/ report[x].status # "none" /\ ~report[x].old /\ report' = [report EXCEPT ![x].old = TRUE]
       \/ report[x].term = "valid" /\ report' = [report EXCEPT ![x].term = "past"]
    /\ UNCHANGED <<file, generator, Jobs, overlapped>>

\* A restart drops the runs and both jobs.
ReportsRestart ==
    /\ generator' = [g \in Generators |-> NoRun]
    /\ stuck' = {} /\ expiring' = {}
    /\ UNCHANGED <<report, file, overlapped>>

ReportStep ==
    \/ ResumeList \/ CleanList
    \/ \E x \in Reports : CleanFile(x) \/ CleanRow(x) \/ \E g \in Generators : ResumeRow(x, g)
    \/ \E g \in Generators : Claim(g) \/ StartFile(g) \/ EndFile(g) \/ Ready(g) \/ ReportFails(g)

-----------------------------------------------------------------------------
\* What download serves.
Served(x) == report[x].status = "READY" /\ report[x].path /\ report[x].term = "valid"

\* A report that can be downloaded is whole, and one that was announced was
\* announced once and is still READY, through restarts, resumed runs and cleanups.
\* Only a report that is resumed while its first run is still alive (one that takes
\* longer than ten minutes) may be served half written, announced twice or be
\* FAILED after it was announced: the claim does not keep the second run out.
ReportsKeepTheirWord ==
    \A x \in Reports \ overlapped :
        /\ Served(x) => file[x] = "whole"
        /\ Cardinality(Same("REPORT_READY", x)) <= 1
        /\ Same("REPORT_READY", x) # {} => report[x].status = "READY"
=============================================================================
