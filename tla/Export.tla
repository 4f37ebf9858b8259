------------------------------- MODULE Export --------------------------------
(***************************************************************************)
(* The export command (cli/export.go): one answer of a list endpoint,      *)
(* taken apart into records that are written to a file through a buffer.   *)
(* The file is truncated before the API is asked.  No endpoint of this     *)
(* build declares a pagination type, so the loop ends after one page, and  *)
(* none that can be exported has a path for a single record.               *)
(***************************************************************************)
EXTENDS Integers, PageReply

CONSTANTS
    Limit,          \* values of --limit; 0: no limit
    Body,           \* the answers the endpoint may give
    Exports         \* bound: commands run one after another

ASSUME ExportAssumption ==
    Limit \subseteq Nat /\ Body \subseteq Answers /\ Exports \in Nat

VARIABLES
    outFile,        \* whose records it holds, and how many
    export,         \* the command: step, limit, records to write, written, exit
    exportsLeft

exportVars == <<outFile, export, exportsLeft>>

File(from, records) == [from |-> from, records |-> records]
Idle == [step |-> "idle", limit |-> 0, carries |-> FALSE, records |-> 0,
         written |-> 0, exit |-> "none"]

ExportInit ==
    /\ outFile = File("earlier", 1)
    /\ export = Idle
    /\ exportsLeft = Exports

Stop(exit) == export' = [export EXCEPT !.step = "idle", !.exit = exit]

\* Arguments, client and path are checked first; with an id there is no path.
RejectExport ==
    /\ export.step = "idle" /\ exportsLeft > 0
    /\ exportsLeft' = exportsLeft - 1
    /\ export' = [Idle EXCEPT !.exit = "failed"]
    /\ UNCHANGED outFile

\* os.Create
OpenExport(limit) ==
    /\ export.step = "idle" /\ exportsLeft > 0
    /\ exportsLeft' = exportsLeft - 1
    /\ export' = [Idle EXCEPT !.step = "asked", !.limit = limit]
    /\ outFile' = File("export", 0)

ExportFails ==
    /\ export.step = "asked"
    /\ Stop("failed") /\ UNCHANGED <<outFile, exportsLeft>>

RecordsWithin(limit, records) == IF limit > 0 /\ records > limit THEN limit ELSE records

\* What extractResourcePage cannot take apart is one record.
ReadExport ==
    /\ export.step = "asked"
    /\ \E answer \in Body :
         export' = [export EXCEPT !.step = "writing",
                      !.carries = CarriesRecords(answer),
                      !.records = RecordsWithin(export.limit, ExportedRecords(answer))]
    /\ UNCHANGED <<outFile, exportsLeft>>

\* A record goes into the buffer, which may be written out at any point.
WriteRecord ==
    /\ export.step = "writing" /\ export.written < export.records
    /\ export' = [export EXCEPT !.written = @ + 1]
    /\ \E n \in outFile.records .. export.written + 1 : outFile' = [outFile EXCEPT !.records = n]
    /\ UNCHANGED exportsLeft

WriteExportFails ==
    /\ export.step = "writing"
    /\ Stop("failed") /\ UNCHANGED <<outFile, exportsLeft>>

\* finishExport: the buffer is flushed and the file closed, and either may fail.
FinishExport ==
    /\ export.step = "writing" /\ export.written = export.records
    /\ outFile' = [outFile EXCEPT !.records = export.written]
    /\ \E exit \in {"ok", "failed"} : Stop(exit)
    /\ UNCHANGED exportsLeft

KillExport ==
    /\ export.step # "idle"
    /\ Stop("killed") /\ UNCHANGED <<outFile, exportsLeft>>

ExportNext ==
    \/ RejectExport \/ \E limit \in Limit : OpenExport(limit)
    \/ ExportFails \/ ReadExport \/ WriteRecord \/ WriteExportFails \/ FinishExport
    \/ KillExport

ExportSpec == ExportInit /\ [][ExportNext]_exportVars

-----------------------------------------------------------------------------

ExportTypeOK ==
    /\ outFile \in [from : {"earlier", "export"}, records : Nat]
    /\ export.step \in {"idle", "asked", "writing"}
    /\ exportsLeft \in 0 .. Exports

\* After a zero exit the file holds this answer's records, as many as --limit
\* allows and no fewer: those of its one list, or the whole answer.
ExportHonest ==
    export.exit = "ok" =>
        /\ outFile = File("export", export.records)
        /\ export.carries => export.records > 0
=============================================================================
