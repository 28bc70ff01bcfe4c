-------------------------- MODULE MediaQuarantine --------------------------
(***************************************************************************)
(* The private quarantine of MMS attachments of the messaging gateway:     *)
(* Telnyx acquire_media() and PrivateQuarantineStore                       *)
(* (app/quarantine_storage.py), scan_stored_media()                        *)
(* (app/media_quarantine.py) and the ClamAV adapter.                       *)
(*                                                                         *)
(* Attachments share no file, so the module is about one digest: its blob, *)
(* its metadata and its scan state are three files, written one after the  *)
(* other by whoever links the blob first.  Files never disappear.          *)
(***************************************************************************)
EXTENDS Naturals

CONSTANTS QWorkers   \* processes that acquire or scan the attachment

VARIABLES
  mqBlob,     \* "absent", "intact" or "altered" (no longer what was stored)
  mqMeta,     \* the metadata file exists
  mqState,    \* what the scan-state file says, "none" when there is none
  mqOp,       \* what each worker is doing
  mqKnown,    \* an ingest has answered with the attachment's identifier
  mqContent   \* what a scanner says of the genuine bytes: "clean", "malicious"

mqVars == <<mqBlob, mqMeta, mqState, mqOp, mqKnown, mqContent>>
mqFiles == <<mqBlob, mqMeta, mqState>>

Pending == "quarantined_pending_scan"
QIdle == [at |-> "idle"]
To(w, step) == mqOp' = [mqOp EXCEPT ![w] = [at |-> step]]
----------------------------------------------------------------------------
MqInit ==
  /\ mqBlob = "absent" /\ mqMeta = FALSE /\ mqState = "none"
  /\ mqOp = [w \in QWorkers |-> QIdle] /\ mqKnown = FALSE
  /\ mqContent \in {"clean", "malicious"}

\* Mutant: only the size is compared.
IntactBySize == mqBlob # "absent" /\ mqMeta

\* verify_blob(): the blob and its metadata are there, and the digest matches.
Intact == mqBlob = "intact" /\ mqMeta

AcquireMedia(w) ==
  /\ mqOp[w] = QIdle
  /\ To(w, "receive")
  /\ UNCHANGED <<mqFiles, mqKnown, mqContent>>

\* ingest_chunks() up to the temporary file: too many bytes or another digest
\* end it without a file of the attachment.
ReceiveChunks(w) ==
  /\ mqOp[w].at = "receive"
  /\ To(w, "link") \/ To(w, "idle")
  /\ UNCHANGED <<mqFiles, mqKnown, mqContent>>

\* os.link(): the first one stores the blob, the others find a duplicate.
LinkBlob(w) ==
  /\ mqOp[w].at = "link"
  /\ IF mqBlob = "absent" THEN mqBlob' = "intact" /\ To(w, "meta")
     ELSE To(w, "duplicate") /\ UNCHANGED mqBlob
  /\ UNCHANGED <<mqMeta, mqState, mqKnown, mqContent>>

WriteMetadata(w) ==
  /\ mqOp[w].at = "meta"
  /\ mqMeta' = TRUE
  /\ To(w, "state")
  /\ UNCHANGED <<mqBlob, mqState, mqKnown, mqContent>>

WritePending(w) ==
  /\ mqOp[w].at = "state"
  /\ mqState' = Pending
  /\ To(w, "idle")
  /\ mqKnown' = TRUE
  /\ UNCHANGED <<mqBlob, mqMeta, mqContent>>

\* Mutant: the duplicate is answered without a look at its scan state.
DuplicateCompleteBlob == Intact

DuplicateComplete == Intact /\ mqState # "none"

\* The answer for a duplicate; an incomplete or altered one is an error.
AnswerDuplicate(w) ==
  /\ mqOp[w].at = "duplicate"
  /\ mqKnown' = (mqKnown \/ DuplicateComplete)
  /\ To(w, "idle")
  /\ UNCHANGED <<mqFiles, mqContent>>

\* scan_stored_media() of an identifier that an ingest has answered with:
\* read_record() and, without a scanner, the state that says so.
BeginScan(w, scanner) ==
  /\ mqOp[w] = QIdle /\ mqKnown
  /\ mqOp' = [mqOp EXCEPT ![w] =
       IF ~Intact THEN QIdle
       ELSE IF scanner THEN [at |-> "scan"]
       ELSE [at |-> "record", state |-> "quarantined_scanner_unavailable"]]
  /\ UNCHANGED <<mqFiles, mqKnown, mqContent>>

VerifyBeforeScan(w) ==
  /\ mqOp[w].at = "scan"
  /\ To(w, IF Intact THEN "scanner" ELSE "idle")
  /\ UNCHANGED <<mqFiles, mqKnown, mqContent>>

\* The scan state for each outcome of scanner.scan(); what the scanner says of
\* altered bytes may be anything.
ScanVerdicts ==
  [clean |-> "scanned_clean_held", malicious |-> "quarantined_malicious",
   unexpected |-> "quarantined_scan_error"]
ScanExceptions ==
  {"quarantined_scanner_unavailable", "quarantined_scan_timeout", "quarantined_scan_error"}

RunScanner(w) ==
  /\ mqOp[w].at = "scanner"
  /\ \/ \E v \in IF mqBlob = "intact" THEN {mqContent} ELSE DOMAIN ScanVerdicts :
          mqOp' = [mqOp EXCEPT ![w] = [at |-> "reverify", state |-> ScanVerdicts[v]]]
     \/ \E s \in ScanExceptions : mqOp' = [mqOp EXCEPT ![w] = [at |-> "record", state |-> s]]
  /\ UNCHANGED <<mqFiles, mqKnown, mqContent>>

VerifyAfterScan(w) ==
  /\ mqOp[w].at = "reverify"
  /\ mqOp' = [mqOp EXCEPT ![w] = IF Intact THEN [@ EXCEPT !.at = "record"] ELSE QIdle]
  /\ UNCHANGED <<mqFiles, mqKnown, mqContent>>

\* record_scan_state() verifies once more and replaces the state file.
RecordScanState(w) ==
  /\ mqOp[w].at = "record"
  /\ mqState' = IF Intact THEN mqOp[w].state ELSE mqState
  /\ To(w, "idle")
  /\ UNCHANGED <<mqBlob, mqMeta, mqKnown, mqContent>>

\* A worker dies, or a write or an audit line fails.
QWorkerFails(w) ==
  /\ mqOp[w] # QIdle
  /\ To(w, "idle")
  /\ UNCHANGED <<mqFiles, mqKnown, mqContent>>

\* The stored bytes change on the disk.
BlobAltered ==
  /\ mqBlob = "intact" /\ mqBlob' = "altered"
  /\ UNCHANGED <<mqMeta, mqState, mqOp, mqKnown, mqContent>>

MqNext ==
  \/ \E w \in QWorkers :
       \/ AcquireMedia(w) \/ ReceiveChunks(w) \/ LinkBlob(w) \/ WriteMetadata(w)
       \/ WritePending(w) \/ AnswerDuplicate(w)
       \/ \E scanner \in BOOLEAN : BeginScan(w, scanner)
       \/ VerifyBeforeScan(w) \/ RunScanner(w) \/ VerifyAfterScan(w)
       \/ RecordScanState(w) \/ QWorkerFails(w)
  \/ BlobAltered

MqSpec == MqInit /\ [][MqNext]_mqVars
----------------------------------------------------------------------------
\* "scanned_clean_held" is only ever said of content that a scanner finds clean:
\* scanner input is a digest-verified blob, although the bytes may change before,
\* while and after the scanner reads them.
CleanIsGenuine == mqState = "scanned_clean_held" => mqContent = "clean"

\* Once there is a scan state, no ingest takes the attachment back to "pending":
\* an identifier is answered only when the ingest that linked the blob is done
\* with the three files, whichever of them a second ingest finds.
VerdictStands == mqState' = Pending => mqState \in {"none", Pending}

\* A "clean" scan state is true of the stored bytes, and no scan state is taken back
\* to "pending", whichever ingests, scans and alterations of the files overlap.
QuarantineHolds == [][VerdictStands /\ CleanIsGenuine']_mqVars
=============================================================================
