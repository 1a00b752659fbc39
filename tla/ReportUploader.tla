---------------------------- MODULE ReportUploader ----------------------------
(***************************************************************************)
(* The last command of a scan, report-uploader: it sends the files of a    *)
(* directory to the bucket of a reporting target.                          *)
(***************************************************************************)
EXTENDS PodMount

VARIABLES
    todo,           \* the files each uploader has yet to try
    sent,           \* those it has put in the bucket
    failed          \* those in failed_uploads

uploadVars == <<todo, sent, failed>>

UploadInit ==
    /\ todo = [p \in Pods |-> setup.reports]
    /\ sent = [p \in Pods |-> {}]
    /\ failed = [p \in Pods |-> {}]

-----------------------------------------------------------------------------

IsReportingTarget == setup.reporting

IsObjectStoreTarget == setup.type = "ObjectStore"

\* main, up to the credentials, of which it checks that they are given.
StartUpload(p) ==
    /\ at[p] = "main"
    /\ setup.kind[p] = "upload"
    /\ \E calls \in [Calls -> Retry(p)] :
          /\ Reads(p, calls)
          /\ LET result == ReadTarget(calls) IN
             /\ credentials' = [credentials EXCEPT
                    ![p] = IF result \in Found THEN result ELSE "none"]
             /\ Goto(p, IF /\ result \in Found
                           /\ IsReportingTarget
                           /\ IsObjectStoreTarget
                        THEN "verifyAccess" ELSE "failed")
    /\ UNCHANGED <<setup, mountVars, uploadVars>>

\* verify_bucket_access
VerifyAccess(p) ==
    /\ at[p] = "verifyAccess"
    /\ \/ /\ Goto(p, IF credentials[p] = "good" /\ "list" \in setup.grants
                     THEN "upload" ELSE "failed")
          /\ UNCHANGED faults
       \/ /\ Faulty(p)
          /\ OneMoreFault(p)
          /\ Goto(p, "failed")
    /\ UNCHANGED <<setup, credentials, mountVars, uploadVars>>

\* upload_files goes on to the next file when one fails.
UploadFile(p) ==
    /\ at[p] = "upload"
    /\ \E f \in todo[p] :
          /\ todo' = [todo EXCEPT ![p] = @ \ {f}]
          /\ \/ /\ "put" \in setup.grants
                /\ sent' = [sent EXCEPT ![p] = @ \union {f}]
                /\ UNCHANGED <<faults, failed>>
             \/ /\ "put" \notin setup.grants
                /\ failed' = [failed EXCEPT ![p] = @ \union {f}]
                /\ UNCHANGED <<faults, sent>>
             \/ /\ Faulty(p)
                /\ OneMoreFault(p)
                /\ failed' = [failed EXCEPT ![p] = @ \union {f}]
                /\ \/ UNCHANGED sent
                   \/ "put" \in setup.grants /\ sent' = [sent EXCEPT ![p] = @ \union {f}]
    /\ UNCHANGED <<setup, at, credentials, mountVars>>

\* (Mutation: one file that was sent is enough.)
UploadAnyVerdict(p) ==
    /\ at[p] = "upload"
    /\ todo[p] = {}
    /\ Goto(p, IF failed[p] = {} \/ sent[p] # {} THEN "succeeded" ELSE "failed")
    /\ UNCHANGED <<setup, credentials, faults, mountVars, uploadVars>>

UploadVerdict(p) ==
    /\ at[p] = "upload"
    /\ todo[p] = {}
    /\ Goto(p, IF failed[p] = {} THEN "succeeded" ELSE "failed")
    /\ UNCHANGED <<setup, credentials, faults, mountVars, uploadVars>>

UploadStep(p) ==
    StartUpload(p) \/ VerifyAccess(p) \/ UploadFile(p) \/ UploadVerdict(p)

=============================================================================
