--------------------------- MODULE TargetValidator ---------------------------
(***************************************************************************)
(* The validation script, target_validations: a backup target is mounted   *)
(* and read; on a reporting target each operation that will be needed is   *)
(* tried out on objects with fixed names, and the errors are collected.    *)
(***************************************************************************)
EXTENDS PodMount

VARIABLES
    bucket,         \* the versions of each test object, the current one last
    op,             \* which of Operations a validator is at
    headed,         \* the version that delete_object_version found
    errors,         \* were there validation_errors?
    crossed         \* ran two validators of the bucket at the same time?

bucketVars == <<bucket, op, headed, errors, crossed>>

Keys == {"test", "test_copy", "uploaded_test", "testdirectory/"}

Current(k) == IF bucket[k] = <<>> THEN NoPod ELSE bucket[k][Len(bucket[k])]

Visible(k) == Current(k) \in Pods

ValidatorInit ==
    /\ bucket = [k \in Keys |-> <<>>]
    /\ op = [p \in Pods |-> 1]
    /\ headed = [p \in Pods |-> NoPod]
    /\ errors = [p \in Pods |-> FALSE]
    /\ crossed = [p \in Pods |-> FALSE]

-----------------------------------------------------------------------------

\* TargetValidation: whatever goes wrong with the target ends the script.
StartValidation(p) ==
    /\ at[p] = "main"
    /\ setup.kind[p] \in {"validateBackup", "validateReporting"}
    /\ \E calls \in [Calls -> Retry(p)] :
          /\ Reads(p, calls)
          /\ LET result == ReadTarget(calls) IN
             /\ credentials' = [credentials EXCEPT
                    ![p] = IF result \in Found THEN result ELSE "none"]
             /\ Goto(p, IF result \in Found THEN "validate" ELSE "failed")
    /\ UNCHANGED <<setup, mountVars, bucketVars>>

\* validate: what is done depends on the kind of target and on its type.
Validate(p) ==
    /\ at[p] = "validate"
    /\ Goto(p, IF setup.kind[p] = "validateBackup"
               THEN IF setup.type = "NFS" THEN "checkNFS" ELSE "checkMount"
               ELSE IF setup.type = "NFS" THEN "failed" ELSE "checkBucket")
    /\ crossed' = [q \in Pods |->
          crossed[q] \/ /\ at'[p] = "checkBucket"
                        /\ \E r \in Pods \ {p} : at[r] = "checkBucket"
                        /\ (q = p \/ at[q] = "checkBucket")]
    /\ UNCHANGED <<setup, credentials, faults, mountVars, bucket, op, headed, errors>>

\* (Mutation: the mount is not looked at.)
CheckNoMount(p) ==
    /\ at[p] = "checkMount"
    /\ Goto(p, "listRoot")
    /\ UNCHANGED <<setup, credentials, faults, mountVars, bucketVars>>

\* validate_backup_target, first the mount, then the listing of its root, which
\* is an empty directory when nothing is mounted,
CheckMount(p) ==
    /\ at[p] = "checkMount"
    /\ Goto(p, IF Mounted(p) THEN "listRoot" ELSE "failed")
    /\ UNCHANGED <<setup, credentials, faults, mountVars, bucketVars>>

ListRoot(p) ==
    /\ at[p] = "listRoot"
    /\ Goto(p, IF Crashed(p) \/ (Mounted(p) /\ "list" \notin setup.grants) THEN "failed"
               ELSE IF Mounted(p) /\ setup.rootFile THEN "readFile" ELSE "succeeded")
    /\ UNCHANGED <<setup, credentials, faults, mountVars, bucketVars>>

\* then a file of the root, when it has one.
ReadFile(p) ==
    /\ at[p] = "readFile"
    /\ Goto(p, IF Mounted(p) /\ "get" \in setup.grants THEN "succeeded" ELSE "failed")
    /\ UNCHANGED <<setup, credentials, faults, mountVars, bucketVars>>

\* validate_nfs_backup_target does the same on the volume of the node.
Readable ==
    "list" \in setup.grants /\ (setup.rootFile => "get" \in setup.grants)

CheckNFS(p) ==
    /\ at[p] = "checkNFS"
    /\ \/ /\ Goto(p, IF Readable THEN "succeeded" ELSE "failed")
          /\ UNCHANGED faults
       \/ /\ Faulty(p)
          /\ OneMoreFault(p)
          /\ Goto(p, "failed")
    /\ UNCHANGED <<setup, credentials, mountVars, bucketVars>>

-----------------------------------------------------------------------------
(* verify_s3_methods *)

\* (Mutation: an object is deleted before the others are made from it.)
OperationsInHaste ==
    <<"head_bucket", "list_objects", "put_object", "get_object",
      "get_object_version", "head_object">>
    \o (IF setup.lock THEN <<>> ELSE <<"delete_object">>)
    \o <<"copy_object", "upload_file",
      "list_object_versions", "get_paginator", "create_directory">>
    \o (IF setup.lock
        THEN <<"get_object_lock_configuration">>
        ELSE <<"delete_object_version", "delete_uploaded_file", "delete_directory">>)

Operations ==
    <<"head_bucket", "list_objects", "put_object", "get_object",
      "get_object_version", "head_object", "copy_object", "upload_file",
      "list_object_versions", "get_paginator", "create_directory">>
    \o (IF setup.lock
        THEN <<"get_object_lock_configuration">>
        ELSE <<"delete_object", "delete_object_version", "delete_uploaded_file",
               "delete_directory">>)

\* The permissions that the object store wants for each.
Needs(name) ==
    CASE name \in {"head_bucket", "list_objects", "get_paginator"} -> {"list"}
      [] name \in {"put_object", "upload_file", "create_directory"} -> {"put"}
      [] name \in {"get_object", "head_object"} -> {"get"}
      [] name = "get_object_version" ->
            {"get"} \union (IF setup.versioned THEN {"getVersion"} ELSE {})
      [] name = "copy_object" -> {"get", "put"}
      [] name = "list_object_versions" -> {"listVersions"}
      [] name = "get_object_lock_configuration" -> {"getLock"}
      [] name = "delete_object_version" ->
            {"get"} \union (IF setup.versioned THEN {"deleteVersion"} ELSE {})
      [] OTHER -> {"delete"}

\* The object it reads; head and get by version are one step, for no validator
\* deletes a version of "test".
Missing(p, name) ==
    CASE name \in {"get_object", "get_object_version", "head_object", "copy_object"} ->
            ~Visible("test")
      [] name = "delete_object_version" -> headed[p] = NoPod /\ ~Visible("test_copy")
      [] OTHER -> FALSE

Refused(p, name) ==
    \/ credentials[p] # "good"
    \/ ~(Needs(name) \subseteq setup.grants)
    \/ Missing(p, name)

Put(p, k) ==
    bucket' = [bucket EXCEPT ![k] = IF setup.versioned THEN Append(@, p) ELSE <<p>>]

Delete(k) ==
    bucket' = [bucket EXCEPT ![k] = IF setup.versioned THEN Append(@, "marker") ELSE <<>>]

Without(versions, i) ==
    SubSeq(versions, 1, i - 1) \o SubSeq(versions, i + 1, Len(versions))

DeleteVersion(k, version) ==
    \/ \E i \in DOMAIN bucket[k] :
          /\ bucket[k][i] = version
          /\ bucket' = [bucket EXCEPT ![k] = Without(@, i)]
    \/ /\ \A i \in DOMAIN bucket[k] : bucket[k][i] # version
       /\ UNCHANGED bucket

\* (Mutation: what is deleted is the version of another object.)
DeleteOtherVersion(p) ==
    IF headed[p] # NoPod THEN DeleteVersion("test", headed[p]) ELSE UNCHANGED bucket

\* delete_object_version heads the object first.  Without versions it is done
\* then, and the object stays.
DeleteHeadedVersion(p) ==
    IF headed[p] # NoPod THEN DeleteVersion("test_copy", headed[p]) ELSE UNCHANGED bucket

Effect(p, name) ==
    CASE name = "put_object" -> Put(p, "test")
      [] name = "copy_object" -> Put(p, "test_copy")
      [] name = "upload_file" -> Put(p, "uploaded_test")
      [] name = "create_directory" -> Put(p, "testdirectory/")
      [] name = "delete_object" -> Delete("test")
      [] name = "delete_object_version" -> DeleteHeadedVersion(p)
      [] name = "delete_uploaded_file" -> Delete("uploaded_test")
      [] name = "delete_directory" -> Delete("testdirectory/")
      [] OTHER -> UNCHANGED bucket

HeadsFirst(p, name) ==
    name = "delete_object_version" /\ setup.versioned /\ headed[p] = NoPod

-----------------------------------------------------------------------------

AtOperation(p, name) ==
    /\ at[p] = "checkBucket"
    /\ op[p] \in DOMAIN Operations
    /\ name = Operations[op[p]]

NextOperation(p) == op' = [op EXCEPT ![p] = @ + 1]

\* safe_execute: the operation completes,
Completes(p) ==
    /\ \E name \in {Operations[i] : i \in DOMAIN Operations} :
          /\ AtOperation(p, name)
          /\ ~Refused(p, name)
          /\ IF HeadsFirst(p, name)
             THEN /\ headed' = [headed EXCEPT ![p] = Current("test_copy")]
                  /\ UNCHANGED <<bucket, op>>
             ELSE /\ Effect(p, name)
                  /\ NextOperation(p)
                  /\ UNCHANGED headed
    /\ UNCHANGED <<setup, at, credentials, faults, mountVars, errors, crossed>>

\* (Mutation: a lock configuration that cannot be read is ignored too.)
IsRefusedOrLocked(p) ==
    /\ \E name \in {Operations[i] : i \in DOMAIN Operations} :
          /\ AtOperation(p, name)
          /\ Refused(p, name)
          /\ errors' = [errors EXCEPT ![p] =
                @ \/ name \notin {"create_directory", "get_object_lock_configuration"}]
    /\ NextOperation(p)
    /\ UNCHANGED <<setup, at, credentials, faults, mountVars, bucket, headed, crossed>>

\* or the store refuses it, which create_directory ignores (it also puts the
\* directory without a body where a body is refused),
IsRefused(p) ==
    /\ \E name \in {Operations[i] : i \in DOMAIN Operations} :
          /\ AtOperation(p, name)
          /\ Refused(p, name)
          /\ errors' = [errors EXCEPT ![p] = @ \/ name # "create_directory"]
    /\ NextOperation(p)
    /\ UNCHANGED <<setup, at, credentials, faults, mountVars, bucket, headed, crossed>>

\* or there is no answer, whether it was carried out or not.
IsLost(p) ==
    /\ Faulty(p)
    /\ OneMoreFault(p)
    /\ \E name \in {Operations[i] : i \in DOMAIN Operations} :
          /\ AtOperation(p, name)
          /\ \/ UNCHANGED bucket
             \/ ~Refused(p, name) /\ Effect(p, name)
    /\ errors' = [errors EXCEPT ![p] = TRUE]
    /\ NextOperation(p)
    /\ UNCHANGED <<setup, at, credentials, mountVars, headed, crossed>>

BucketVerdict(p) ==
    /\ at[p] = "checkBucket"
    /\ op[p] \notin DOMAIN Operations
    /\ Goto(p, IF errors[p] THEN "failed" ELSE "succeeded")
    /\ UNCHANGED <<setup, credentials, faults, mountVars, bucketVars>>

ValidatorStep(p) ==
    \/ StartValidation(p) \/ Validate(p)
    \/ CheckMount(p) \/ ListRoot(p) \/ ReadFile(p) \/ CheckNFS(p)
    \/ Completes(p) \/ IsRefused(p) \/ IsLost(p) \/ BucketVerdict(p)

=============================================================================
