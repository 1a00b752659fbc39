---------------------------- MODULE JobPodsSafety ----------------------------
(* Proofs about the containers, for all values of their constants. *)
EXTENDS JobPodsProperties, SequenceTheorems, TLAPS

-----------------------------------------------------------------------------
(* Types. *)

LEMMA SetupIsSetup == setup \in Setups => setup \in Setup
    BY SetupsAssumption

LEMMA TypeInit == Init => TypeOK
<1> SUFFICES ASSUME Init PROVE TypeOK
    OBVIOUS
<1> USE DEF Init, TargetInit, MountInit, ValidatorInit, UploadInit, DetectorInit
<1>1. setup \in Setup
    BY SetupIsSetup
<1>2. setup.reports \subseteq Files /\ MaxFaults \in Nat
    BY <1>1, SetupsAssumption DEF Setup
<1>3. at \in [Pods -> {"absent", "readForMount", "main"}]
    BY DEF FirstStep
<1>4. bucket \in [Keys -> Seq(Pods \union {"marker"})]
    OBVIOUS
<1>5. fuse \in [Pods -> [Attempts -> {"none"}]]
    OBVIOUS
<1> QED
    BY <1>2, <1>3, <1>4, <1>5 DEF TypeOK, Steps, Ended, Attempts, FuseStates

\* A fault leaves the count of faults in its range.
LEMMA TypeFault ==
    ASSUME TypeOK, NEW p \in Pods, Faulty(p), OneMoreFault(p)
    PROVE  faults' \in [Pods -> 0 .. MaxFaults]
    BY SetupsAssumption DEF TypeOK, Faulty, OneMoreFault

LEMMA TypeReads ==
    ASSUME TypeOK, NEW p \in Pods, NEW calls, Reads(p, calls)
    PROVE  faults' \in [Pods -> 0 .. MaxFaults]
<1>1. CASE \A c \in Calls : calls[c] = "ok"
    BY <1>1 DEF Reads, TypeOK
<1>2. CASE ~\A c \in Calls : calls[c] = "ok"
    <2>1. Faulty(p)
        BY <1>2 DEF Reads, Retry
    <2> QED
        BY <1>2, <2>1, TypeFault DEF Reads
<1> QED
    BY <1>1, <1>2

LEMMA TypeFuse ==
    ASSUME TypeOK, NEW p \in Pods, NEW i \in Attempts, NEW state \in FuseStates,
           fuse' = [fuse EXCEPT ![p] = [@ EXCEPT ![i] = state]]
    PROVE  fuse' \in [Pods -> [Attempts -> FuseStates]]
<1>1. fuse \in [Pods -> [Attempts -> FuseStates]]
    BY DEF TypeOK
<1>2. [fuse[p] EXCEPT ![i] = state] \in [Attempts -> FuseStates]
    BY <1>1
<1> QED
    BY <1>1, <1>2

LEMMA TypeGoto ==
    ASSUME TypeOK, NEW p \in Pods, NEW step \in Steps, Goto(p, step)
    PROVE  at' \in [Pods -> Steps]
    BY DEF TypeOK, Goto

\* Every step of a container leaves what it does not change as it was.
LEMMA TypeMountStep ==
    ASSUME TypeOK, NEW p \in Pods, MountStep(p),
           UNCHANGED <<bucketVars, uploadVars, tree, detectVars>>
    PROVE  TypeOK'
<1> USE DEF bucketVars, uploadVars, detectVars, mountVars, Tree
<1>1. CASE ReadForMount(p)
    <2>1. PICK calls \in [Calls -> Retry(p)] :
              /\ Reads(p, calls)
              /\ LET result == ReadTarget(calls) IN
                 /\ credentials' = [credentials EXCEPT
                        ![p] = IF result \in Found THEN result ELSE "none"]
                 /\ Goto(p, CASE result \in Found -> "writeConf"
                              [] result = "ApiException" -> "main"
                              [] OTHER -> "failed")
        BY <1>1 DEF ReadForMount
    <2>2. faults' \in [Pods -> 0 .. MaxFaults]
        BY <2>1, TypeReads
    <2>3. credentials' \in [Pods -> {"none", "good", "empty"}]
        BY <2>1 DEF TypeOK, Found
    <2>4. at' \in [Pods -> Steps]
        BY <2>1 DEF TypeOK, Goto, Steps, Ended
    <2> QED
        BY <1>1, <2>2, <2>3, <2>4 DEF ReadForMount, TypeOK
<1>2. CASE WriteConf(p)
    <2>1. at' \in [Pods -> Steps]
        BY <1>2, TypeGoto DEF WriteConf, Steps
    <2> QED
        BY <1>2, <2>1 DEF WriteConf, TypeOK
<1>3. CASE FillConf(p)
    <2>1. at' \in [Pods -> Steps]
        BY <1>3, TypeGoto DEF FillConf, Steps
    <2>2. conf' \in [Pods -> {"absent", "section", "none", "good", "empty"}]
        BY <1>3 DEF FillConf, TypeOK
    <2> QED
        BY <1>3, <2>1, <2>2 DEF FillConf, TypeOK
<1>4. CASE StartFuse(p)
    <2>1. faults' \in [Pods -> 0 .. MaxFaults]
        BY <1>4, TypeFault DEF StartFuse, TypeOK
    <2>2. fuse' \in [Pods -> [Attempts -> FuseStates]]
        <3>1. attempt[p] \in Attempts /\ "started" \in FuseStates
            BY DEF TypeOK, FuseStates
        <3>2. CASE UNCHANGED fuse
            BY <3>2 DEF TypeOK
        <3>3. CASE fuse' = [fuse EXCEPT ![p] = [@ EXCEPT ![attempt[p]] = "started"]]
            BY <3>1, <3>3, TypeFuse
        <3> QED
            BY <1>4, <3>2, <3>3 DEF StartFuse
    <2>3. at' \in [Pods -> Steps]
        BY <1>4, TypeGoto DEF StartFuse, Steps
    <2> QED
        BY <1>4, <2>1, <2>2, <2>3 DEF StartFuse, TypeOK
<1>5. CASE MountSeen(p)
    <2>1. at' \in [Pods -> Steps]
        BY <1>5, TypeGoto DEF MountSeen, Steps
    <2> QED
        BY <1>5, <2>1 DEF MountSeen, TypeOK
<1>6. CASE MountTimeout(p)
    <2>1. at' \in [Pods -> Steps]
        BY <1>6, TypeGoto DEF MountTimeout, Steps, Ended
    <2>2. attempt' \in [Pods -> Attempts]
        <3>1. attempt' = [attempt EXCEPT ![p] = 2] \/ attempt' = attempt
            BY <1>6 DEF MountTimeout
        <3> QED
            BY <3>1 DEF TypeOK, Attempts
    <2> QED
        BY <1>6, <2>1, <2>2 DEF MountTimeout, TypeOK
<1>7. CASE RemoveConf(p)
    <2>1. at' \in [Pods -> Steps]
        BY <1>7, TypeGoto DEF RemoveConf, Steps
    <2> QED
        BY <1>7, <2>1 DEF RemoveConf, TypeOK
<1> QED
    BY <1>1, <1>2, <1>3, <1>4, <1>5, <1>6, <1>7 DEF MountStep

LEMMA TypeFuseStep ==
    ASSUME TypeOK, NEW p \in Pods, FuseStep(p),
           UNCHANGED <<bucketVars, uploadVars, tree, detectVars>>
    PROVE  TypeOK'
<1> USE DEF bucketVars, uploadVars, detectVars, Tree
<1>1. PICK i \in Attempts : FuseReads(p, i) \/ FuseMounts(p, i) \/ FuseCrashes(p, i)
    BY DEF FuseStep
<1>2. fuse' \in [Pods -> [Attempts -> FuseStates]]
    <2>1. PICK state \in FuseStates : FuseBecomes(p, i, state)
        BY <1>1 DEF FuseReads, FuseMounts, FuseCrashes, FuseStates
    <2> QED
        BY <2>1, TypeFuse DEF FuseBecomes
<1>3. faults' \in [Pods -> 0 .. MaxFaults]
    BY <1>1, TypeFault DEF FuseReads, FuseMounts, FuseCrashes, TypeOK
<1> QED
    BY <1>1, <1>2, <1>3 DEF FuseReads, FuseMounts, FuseCrashes, TypeOK

LEMMA TypeStart ==
    ASSUME TypeOK, NEW p \in Pods, NEW calls, Reads(p, calls), NEW step \in Steps,
           credentials' = [credentials EXCEPT
               ![p] = IF ReadTarget(calls) \in Found THEN ReadTarget(calls) ELSE "none"],
           Goto(p, step)
    PROVE  /\ faults' \in [Pods -> 0 .. MaxFaults]
           /\ credentials' \in [Pods -> {"none", "good", "empty"}]
           /\ at' \in [Pods -> Steps]
    BY TypeReads, TypeGoto DEF TypeOK, Found

LEMMA TypePut ==
    ASSUME TypeOK, NEW p \in Pods, NEW k \in Keys, Put(p, k)
    PROVE  bucket' \in [Keys -> Seq(Pods \union {"marker"})]
<1>1. bucket[k] \in Seq(Pods \union {"marker"})
    BY DEF TypeOK
<1>2. /\ Append(bucket[k], p) \in Seq(Pods \union {"marker"})
      /\ <<p>> \in Seq(Pods \union {"marker"})
    BY <1>1
<1> DEFINE versions == IF setup.versioned THEN Append(bucket[k], p) ELSE <<p>>
<1>3. versions \in Seq(Pods \union {"marker"})
    BY <1>2
<1>4. bucket' = [bucket EXCEPT ![k] = versions]
    BY DEF Put
<1> HIDE DEF versions
<1> QED
    BY <1>3, <1>4 DEF TypeOK

LEMMA TypeDelete ==
    ASSUME TypeOK, NEW k \in Keys, Delete(k)
    PROVE  bucket' \in [Keys -> Seq(Pods \union {"marker"})]
    BY DEF TypeOK, Delete

LEMMA TypeWithout ==
    ASSUME NEW S, NEW versions \in Seq(S), NEW i \in DOMAIN versions
    PROVE  Without(versions, i) \in Seq(S)
<1>1. i \in 1 .. Len(versions) /\ Len(versions) \in Nat
    OBVIOUS
<1>2. \A j \in 1 .. Len(versions) : versions[j] \in S
    OBVIOUS
<1>3. SubSeq(versions, 1, i - 1) \in Seq(S)
    BY <1>1, <1>2, SubSeqProperties
<1>4. SubSeq(versions, i + 1, Len(versions)) \in Seq(S)
    BY <1>1, <1>2, SubSeqProperties
<1> QED
    BY <1>3, <1>4, ConcatProperties DEF Without

LEMMA TypeDeleteVersion ==
    ASSUME TypeOK, NEW k \in Keys, NEW version, DeleteVersion(k, version)
    PROVE  bucket' \in [Keys -> Seq(Pods \union {"marker"})]
<1>1. CASE UNCHANGED bucket
    BY <1>1 DEF TypeOK
<1>2. ASSUME NEW i \in DOMAIN bucket[k],
             bucket' = [bucket EXCEPT ![k] = Without(bucket[k], i)]
      PROVE  bucket' \in [Keys -> Seq(Pods \union {"marker"})]
    <2>1. bucket[k] \in Seq(Pods \union {"marker"})
        BY DEF TypeOK
    <2>2. Without(bucket[k], i) \in Seq(Pods \union {"marker"})
        BY <2>1, TypeWithout
    <2> QED
        BY <1>2, <2>2 DEF TypeOK
<1> QED
    BY <1>1, <1>2 DEF DeleteVersion

LEMMA TypeEffect ==
    ASSUME TypeOK, NEW p \in Pods, NEW name, Effect(p, name)
    PROVE  bucket' \in [Keys -> Seq(Pods \union {"marker"})]
<1>1. bucket' = bucket => bucket' \in [Keys -> Seq(Pods \union {"marker"})]
    BY DEF TypeOK
<1>2. DeleteHeadedVersion(p) => bucket' \in [Keys -> Seq(Pods \union {"marker"})]
    BY <1>1, TypeDeleteVersion DEF DeleteHeadedVersion, Keys
<1> QED
    BY <1>1, <1>2, TypePut, TypeDelete DEF Effect, Keys

LEMMA TypeValidatorStep ==
    ASSUME TypeOK, NEW p \in Pods, ValidatorStep(p),
           UNCHANGED <<uploadVars, tree, detectVars>>
    PROVE  TypeOK'
<1> USE DEF bucketVars, uploadVars, detectVars, mountVars, Tree
<1>1. CASE StartValidation(p)
    <2>1. PICK calls \in [Calls -> Retry(p)] :
              /\ Reads(p, calls)
              /\ credentials' = [credentials EXCEPT ![p] =
                    IF ReadTarget(calls) \in Found THEN ReadTarget(calls) ELSE "none"]
              /\ Goto(p, IF ReadTarget(calls) \in Found THEN "validate" ELSE "failed")
        BY <1>1 DEF StartValidation
    <2>2. (IF ReadTarget(calls) \in Found THEN "validate" ELSE "failed") \in Steps
        BY DEF Steps, Ended
    <2>3. /\ faults' \in [Pods -> 0 .. MaxFaults]
          /\ credentials' \in [Pods -> {"none", "good", "empty"}]
          /\ at' \in [Pods -> Steps]
        BY <2>1, <2>2, TypeStart
    <2> QED
        BY <1>1, <2>3 DEF StartValidation, TypeOK
<1>2. CASE Validate(p)
    <2>1. PICK step \in Steps : Goto(p, step)
        BY <1>2 DEF Validate, Steps, Ended
    <2>2. at' \in [Pods -> Steps]
        BY <2>1, TypeGoto
    <2>3. crossed' \in [Pods -> BOOLEAN]
        BY <1>2 DEF Validate
    <2> QED
        BY <1>2, <2>2, <2>3 DEF Validate, TypeOK
<1>3. CASE CheckMount(p)
    <2>1. PICK step \in Steps : Goto(p, step)
        BY <1>3 DEF CheckMount, Steps, Ended
    <2>2. at' \in [Pods -> Steps]
        BY <2>1, TypeGoto
    <2> QED
        BY <1>3, <2>2 DEF CheckMount, TypeOK
<1>4. CASE ListRoot(p)
    <2>1. PICK step \in Steps : Goto(p, step)
        BY <1>4 DEF ListRoot, Steps, Ended
    <2>2. at' \in [Pods -> Steps]
        BY <2>1, TypeGoto
    <2> QED
        BY <1>4, <2>2 DEF ListRoot, TypeOK
<1>5. CASE ReadFile(p)
    <2>1. PICK step \in Steps : Goto(p, step)
        BY <1>5 DEF ReadFile, Steps, Ended
    <2>2. at' \in [Pods -> Steps]
        BY <2>1, TypeGoto
    <2> QED
        BY <1>5, <2>2 DEF ReadFile, TypeOK
<1>6. CASE CheckNFS(p)
    <2>1. PICK step \in Steps : Goto(p, step)
        BY <1>6 DEF CheckNFS, Steps, Ended
    <2>2. at' \in [Pods -> Steps]
        BY <2>1, TypeGoto
    <2>3. faults' \in [Pods -> 0 .. MaxFaults]
        BY <1>6, TypeFault DEF CheckNFS, TypeOK
    <2> QED
        BY <1>6, <2>2, <2>3 DEF CheckNFS, TypeOK
<1>7. CASE Completes(p)
    <2>1. PICK name \in {Operations[i] : i \in DOMAIN Operations} :
              /\ ~Refused(p, name)
              /\ IF HeadsFirst(p, name)
                 THEN /\ headed' = [headed EXCEPT ![p] = Current("test_copy")]
                      /\ UNCHANGED <<bucket, op>>
                 ELSE /\ Effect(p, name)
                      /\ NextOperation(p)
                      /\ UNCHANGED headed
        BY <1>7 DEF Completes
    <2>2. CASE HeadsFirst(p, name)
        <3>1. Current("test_copy") \in Pods
            BY <2>1, <2>2 DEF HeadsFirst, Refused, Missing, Visible
        <3>2. headed' \in [Pods -> Pods \union {NoPod}]
            BY <2>1, <2>2, <3>1 DEF TypeOK
        <3> QED
            BY <1>7, <2>1, <2>2, <3>2 DEF Completes, TypeOK
    <2>3. CASE ~HeadsFirst(p, name)
        <3>1. Effect(p, name) /\ NextOperation(p) /\ UNCHANGED headed
            BY <2>1, <2>3, Zenon
        <3>2. bucket' \in [Keys -> Seq(Pods \union {"marker"})]
            BY <3>1, TypeEffect
        <3>3. op' \in [Pods -> Nat]
            BY <3>1 DEF NextOperation, TypeOK
        <3> QED
            BY <1>7, <3>1, <3>2, <3>3 DEF Completes, TypeOK
    <2> QED
        BY <2>2, <2>3
<1>8. CASE IsRefused(p)
    <2>1. op' \in [Pods -> Nat]
        BY <1>8 DEF IsRefused, NextOperation, TypeOK
    <2>2. PICK name : errors' = [errors EXCEPT ![p] = @ \/ name # "create_directory"]
        BY <1>8 DEF IsRefused
    <2> DEFINE found == errors[p] \/ name # "create_directory"
    <2>3. found \in BOOLEAN /\ errors' = [errors EXCEPT ![p] = found]
        BY <2>2
    <2> HIDE DEF found
    <2>4. errors' \in [Pods -> BOOLEAN]
        BY <2>3 DEF TypeOK
    <2> QED
        BY <1>8, <2>1, <2>4 DEF IsRefused, TypeOK
<1>9. CASE IsLost(p)
    <2>1. op' \in [Pods -> Nat] /\ errors' \in [Pods -> BOOLEAN]
        BY <1>9 DEF IsLost, NextOperation, TypeOK
    <2>2. faults' \in [Pods -> 0 .. MaxFaults]
        BY <1>9, TypeFault DEF IsLost
    <2>3. bucket' \in [Keys -> Seq(Pods \union {"marker"})]
        BY <1>9, TypeEffect DEF IsLost, TypeOK
    <2> QED
        BY <1>9, <2>1, <2>2, <2>3 DEF IsLost, TypeOK
<1>10. CASE BucketVerdict(p)
    <2>1. PICK step \in Steps : Goto(p, step)
        BY <1>10 DEF BucketVerdict, Steps, Ended
    <2>2. at' \in [Pods -> Steps]
        BY <2>1, TypeGoto
    <2> QED
        BY <1>10, <2>2 DEF BucketVerdict, TypeOK
<1> QED
    BY <1>1, <1>2, <1>3, <1>4, <1>5, <1>6, <1>7, <1>8, <1>9, <1>10 DEF ValidatorStep

LEMMA TypeUploadStep ==
    ASSUME TypeOK, NEW p \in Pods, UploadStep(p),
           UNCHANGED <<bucketVars, tree, detectVars>>
    PROVE  TypeOK'
<1> USE DEF bucketVars, uploadVars, detectVars, mountVars, Tree
<1>1. CASE StartUpload(p)
    <2>1. PICK calls \in [Calls -> Retry(p)] :
              /\ Reads(p, calls)
              /\ credentials' = [credentials EXCEPT ![p] =
                    IF ReadTarget(calls) \in Found THEN ReadTarget(calls) ELSE "none"]
              /\ Goto(p, IF /\ ReadTarget(calls) \in Found
                            /\ IsReportingTarget
                            /\ IsObjectStoreTarget
                         THEN "verifyAccess" ELSE "failed")
        BY <1>1 DEF StartUpload
    <2>2. PICK step \in Steps : Goto(p, step)
        BY <2>1 DEF Steps, Ended
    <2>3. /\ faults' \in [Pods -> 0 .. MaxFaults]
          /\ credentials' \in [Pods -> {"none", "good", "empty"}]
          /\ at' \in [Pods -> Steps]
        BY <2>1, <2>2, TypeStart
    <2> QED
        BY <1>1, <2>3 DEF StartUpload, TypeOK
<1>2. CASE VerifyAccess(p)
    <2>1. PICK step \in Steps : Goto(p, step)
        BY <1>2 DEF VerifyAccess, Steps, Ended
    <2>2. at' \in [Pods -> Steps]
        BY <2>1, TypeGoto
    <2>3. faults' \in [Pods -> 0 .. MaxFaults]
        BY <1>2, TypeFault DEF VerifyAccess, TypeOK
    <2> QED
        BY <1>2, <2>2, <2>3 DEF VerifyAccess, TypeOK
<1>3. CASE UploadFile(p)
    <2>1. PICK f \in todo[p] :
              /\ todo' = [todo EXCEPT ![p] = @ \ {f}]
              /\ sent' = sent \/ sent' = [sent EXCEPT ![p] = @ \union {f}]
              /\ failed' = failed \/ failed' = [failed EXCEPT ![p] = @ \union {f}]
              /\ UNCHANGED faults \/ (Faulty(p) /\ OneMoreFault(p))
        BY <1>3 DEF UploadFile
    <2>2. f \in Files
        BY <2>1 DEF TypeOK
    <2>3. todo' \in [Pods -> SUBSET Files]
        BY <2>1 DEF TypeOK
    <2>4. sent' \in [Pods -> SUBSET Files]
        <3>1. sent \in [Pods -> SUBSET Files] /\ sent[p] \union {f} \in SUBSET Files
            BY <2>2 DEF TypeOK
        <3> QED
            BY <2>1, <3>1
    <2>5. failed' \in [Pods -> SUBSET Files]
        <3>1. failed \in [Pods -> SUBSET Files] /\ failed[p] \union {f} \in SUBSET Files
            BY <2>2 DEF TypeOK
        <3> QED
            BY <2>1, <3>1
    <2>6. faults' \in [Pods -> 0 .. MaxFaults]
        BY <2>1, TypeFault DEF TypeOK
    <2> QED
        BY <1>3, <2>3, <2>4, <2>5, <2>6 DEF UploadFile, TypeOK
<1>4. CASE UploadVerdict(p)
    <2>1. PICK step \in Steps : Goto(p, step)
        BY <1>4 DEF UploadVerdict, Steps, Ended
    <2>2. at' \in [Pods -> Steps]
        BY <2>1, TypeGoto
    <2> QED
        BY <1>4, <2>2 DEF UploadVerdict, TypeOK
<1> QED
    BY <1>1, <1>2, <1>3, <1>4 DEF UploadStep

LEMMA TypeDetectorStep ==
    ASSUME TypeOK, NEW p \in Pods, DetectorStep(p),
           UNCHANGED <<bucketVars, uploadVars>>
    PROVE  TypeOK'
<1> USE DEF bucketVars, uploadVars, detectVars, mountVars, Tree
<1>1. CASE StartPreScan(p)
    <2>1. PICK step \in Steps : Goto(p, step)
        BY <1>1 DEF StartPreScan, Steps, Ended
    <2>2. at' \in [Pods -> Steps]
        BY <2>1, TypeGoto
    <2>3. faults' \in [Pods -> 0 .. MaxFaults]
        BY <1>1, TypeFault DEF StartPreScan, TypeOK
    <2> QED
        BY <1>1, <2>2, <2>3 DEF StartPreScan, TypeOK
<1>2. CASE ProbeCluster(p)
    <2>1. PICK step \in Steps : Goto(p, step)
        BY <1>2 DEF ProbeCluster, Steps, Ended
    <2>2. at' \in [Pods -> Steps]
        BY <2>1, TypeGoto
    <2>3. mode' \in [Pods -> {"cluster", "namespace"}]
        BY <1>2 DEF ProbeCluster, TypeOK
    <2> QED
        BY <1>2, <2>2, <2>3 DEF ProbeCluster, TypeOK
<1>3. CASE ReadCluster(p)
    <2>1. PICK step \in Steps : Goto(p, step)
        BY <1>3 DEF ReadCluster, Steps, Ended
    <2>2. at' \in [Pods -> Steps]
        BY <2>1, TypeGoto
    <2>3. left' \in [Pods -> SUBSET Children]
        BY <1>3 DEF ReadCluster, TypeOK
    <2> QED
        BY <1>3, <2>2, <2>3 DEF ReadCluster, TypeOK
<1>4. CASE ReadMeta(p)
    <2>1. PICK step \in Steps : Goto(p, step)
        BY <1>4 DEF ReadMeta, Steps, Ended
    <2>2. at' \in [Pods -> Steps]
        BY <2>1, TypeGoto
    <2> QED
        BY <1>4, <2>2 DEF ReadMeta, TypeOK
<1>5. CASE ReadBackup(p)
    <2>1. PICK step \in Steps : Goto(p, step)
        BY <1>5 DEF ReadBackup, Steps, Ended
    <2>2. at' \in [Pods -> Steps]
        BY <2>1, TypeGoto
    <2>3. locations' \in [Pods -> SUBSET (Children \union {"backup"})]
        BY <1>5 DEF ReadBackup, TypeOK
    <2> QED
        BY <1>5, <2>2, <2>3 DEF ReadBackup, TypeOK
<1>6. CASE ReadChild(p)
    <2>1. PICK c \in left[p] :
              /\ left' = [left EXCEPT ![p] = @ \ {c}]
              /\ locations' = [locations EXCEPT
                    ![p] = IF /\ c \in setup.placed
                              /\ CanRead(p, c)
                              /\ HasVMs(setup.children[c])
                           THEN @ \union {c} ELSE @]
        BY <1>6 DEF ReadChild
    <2>2. c \in Children
        BY <2>1 DEF TypeOK
    <2>3. left' \in [Pods -> SUBSET Children]
        BY <2>1 DEF TypeOK
    <2>4. locations' \in [Pods -> SUBSET (Children \union {"backup"})]
        BY <2>1, <2>2 DEF TypeOK
    <2> QED
        BY <1>6, <2>3, <2>4 DEF ReadChild, TypeOK
<1>7. CASE ChildrenRead(p)
    <2>1. PICK step \in Steps : Goto(p, step)
        BY <1>7 DEF ChildrenRead, Steps, Ended
    <2>2. at' \in [Pods -> Steps]
        BY <2>1, TypeGoto
    <2> QED
        BY <1>7, <2>2 DEF ChildrenRead, TypeOK
<1>8. CASE PatchResult(p)
    <2>1. PICK step \in Steps : Goto(p, step)
        BY <1>8 DEF PatchResult, Steps, Ended
    <2>2. at' \in [Pods -> Steps]
        BY <2>1, TypeGoto
    <2>3. faults' \in [Pods -> 0 .. MaxFaults]
        BY <1>8, TypeFault DEF PatchResult, TypeOK
    <2> QED
        BY <1>8, <2>2, <2>3 DEF PatchResult, TypeOK
<1> QED
    BY <1>1, <1>2, <1>3, <1>4, <1>5, <1>6, <1>7, <1>8 DEF DetectorStep

LEMMA TypeNext == TypeOK /\ [Next]_vars => TypeOK'
<1> SUFFICES ASSUME TypeOK, [Next]_vars PROVE TypeOK'
    OBVIOUS
<1>1. CASE UNCHANGED vars
    BY <1>1 DEF vars, TypeOK, bucketVars, uploadVars, detectVars, mountVars, Tree
<1>2. ASSUME NEW p \in Pods, Script(p) PROVE TypeOK'
    BY <1>2, TypeMountStep, TypeValidatorStep, TypeUploadStep, TypeDetectorStep DEF Script
<1>3. ASSUME NEW p \in Pods, Fuse(p) PROVE TypeOK'
    BY <1>3, TypeFuseStep DEF Fuse
<1>4. ASSUME NEW p \in Pods, Killed(p) PROVE TypeOK'
    <2>1. at' \in [Pods -> Steps]
        BY <1>4, TypeGoto DEF Killed, Steps, Ended
    <2>2. faults' \in [Pods -> 0 .. MaxFaults]
        BY <1>4, TypeFault DEF Killed
    <2> QED
        BY <1>4, <2>1, <2>2
        DEF Killed, TypeOK, bucketVars, uploadVars, detectVars, mountVars, Tree
<1>5. CASE Retention
    BY <1>5 DEF Retention, RetentionDeletes, TypeOK,
                bucketVars, uploadVars, detectVars, mountVars, Tree
<1> QED
    BY <1>1, <1>2, <1>3, <1>4, <1>5 DEF Next

\* The state of the containers keeps its type (JobPods).
THEOREM TypeCorrect == Spec => []TypeOK
<1> QED
    BY TypeInit, TypeNext, PTL DEF Spec

-----------------------------------------------------------------------------
(* The inductive invariant, of each container. *)

FuseUp == {"mounted", "crashed"}

MountSteps ==
    {"readForMount", "writeConf", "fillConf", "startFuse", "awaitMount", "removeConf"}

PreScanSteps ==
    {"probe", "readCluster", "readMeta", "readBackup", "readChildren", "patch"}

\* A container is only at steps of the script that it runs.
OwnSteps(p) ==
    /\ at[p] \in MountSteps => MountsFirst(p)
    /\ at[p] = "validate" => setup.kind[p] \in {"validateBackup", "validateReporting"}
    /\ at[p] \in {"checkMount", "listRoot", "readFile", "checkNFS"} =>
          setup.kind[p] = "validateBackup"
    /\ at[p] = "checkNFS" => setup.type = "NFS"
    /\ at[p] = "checkBucket" => setup.kind[p] = "validateReporting"
    /\ at[p] \in {"verifyAccess", "upload"} =>
          setup.kind[p] = "upload" /\ setup.reporting
    /\ at[p] \in PreScanSteps => setup.kind[p] = "preScan"

\* The target is mounted where the script relies on it, and s3fuse could list.
Relied(p) ==
    /\ \A i \in Attempts : fuse[p][i] \in FuseUp => "list" \in setup.grants
    /\ /\ at[p] \in {"listRoot", "readFile", "succeeded"} \union PreScanSteps
       /\ MountsFirst(p)
       => \E i \in Attempts : fuse[p][i] \in FuseUp

\* What has been tried without an error was granted.
Tried(p) ==
    /\ op[p] > 0
    /\ ~errors[p] =>
          \A i \in DOMAIN Operations :
              i < op[p] => \/ Operations[i] = "create_directory"
                           \/ Needs(Operations[i]) \subseteq setup.grants
    /\ at[p] = "succeeded" /\ setup.kind[p] = "validateReporting" =>
          ~errors[p] /\ op[p] \notin DOMAIN Operations

\* Each file is in one of the three sets of an upload.
Counted(p) ==
    /\ todo[p] \union sent[p] \union failed[p] = setup.reports
    /\ sent[p] # {} => setup.reporting /\ "put" \in setup.grants
    /\ at[p] = "succeeded" /\ setup.kind[p] = "upload" => todo[p] = {} /\ failed[p] = {}

\* A child that is neither listed nor still to be looked at is explained.
Explained(p, c) ==
    HasVMs(setup.children[c]) =>
        c \notin tree \/ c \in setup.broken \/ c \notin setup.placed \/ Crashed(p)

Accounted(p) ==
    setup.cluster =>
        /\ at[p] = "readCluster" => mode[p] = "cluster"
        /\ at[p] \in {"main", "probe", "readCluster", "readMeta"} \union MountSteps =>
              locations[p] = {}
        /\ at[p] = "readMeta" /\ mode[p] = "cluster" => left[p] = Children
        /\ at[p] \in {"patch", "succeeded"} /\ setup.kind[p] = "preScan" => left[p] = {}
        /\ at[p] \in {"readChildren", "patch", "succeeded"} /\ setup.kind[p] = "preScan" =>
              /\ \A c \in locations[p] : c \in Children /\ HasVMs(setup.children[c])
              /\ \A c \in Children \ (left[p] \union locations[p]) : Explained(p, c)

Inv == \A p \in Pods : OwnSteps(p) /\ Relied(p) /\ Tried(p) /\ Counted(p) /\ Accounted(p)

-----------------------------------------------------------------------------
(* A step of one container leaves the state of the others alone. *)

Own(q) == <<at[q], fuse[q], op[q], errors[q], todo[q], sent[q], failed[q],
            mode[q], left[q], locations[q]>>

StepOf(p) == Script(p) \/ Fuse(p) \/ Killed(p)

LEMMA OfOthers ==
    ASSUME TypeOK, NEW p \in Pods, NEW q \in Pods, p # q, StepOf(p)
    PROVE  UNCHANGED <<setup, tree, Own(q)>>
<1> USE DEF Own, Goto, TypeOK, bucketVars, uploadVars, detectVars, mountVars
<1>1. CASE MountStep(p) /\ UNCHANGED <<bucketVars, uploadVars, tree, detectVars>>
    BY <1>1 DEF MountStep, ReadForMount, WriteConf, FillConf, StartFuse, MountSeen,
                MountTimeout, RemoveConf
<1>2. CASE ValidatorStep(p) /\ UNCHANGED <<uploadVars, tree, detectVars>>
    <2>1. CASE StartValidation(p)
        BY <1>2, <2>1 DEF StartValidation
    <2>2. CASE Validate(p)
        BY <1>2, <2>2 DEF Validate
    <2>3. CASE CheckMount(p) \/ ListRoot(p) \/ ReadFile(p) \/ CheckNFS(p) \/ BucketVerdict(p)
        BY <1>2, <2>3 DEF CheckMount, ListRoot, ReadFile, CheckNFS, BucketVerdict
    <2>4. CASE Completes(p)
        BY <1>2, <2>4 DEF Completes, NextOperation
    <2>5. CASE IsRefused(p)
        BY <1>2, <2>5 DEF IsRefused, NextOperation
    <2>6. CASE IsLost(p)
        BY <1>2, <2>6 DEF IsLost, NextOperation
    <2> QED
        BY <1>2, <2>1, <2>2, <2>3, <2>4, <2>5, <2>6 DEF ValidatorStep
<1>3. CASE UploadStep(p) /\ UNCHANGED <<bucketVars, tree, detectVars>>
    BY <1>3 DEF UploadStep, StartUpload, VerifyAccess, UploadFile, UploadVerdict
<1>4. CASE DetectorStep(p) /\ UNCHANGED <<bucketVars, uploadVars>>
    BY <1>4 DEF DetectorStep, StartPreScan, ProbeCluster, ReadCluster, ReadMeta,
                ReadBackup, ReadChild, ChildrenRead, PatchResult
<1>5. CASE Fuse(p)
    BY <1>5 DEF Fuse, FuseStep, FuseReads, FuseMounts, FuseCrashes, FuseBecomes
<1>6. CASE Killed(p)
    BY <1>6 DEF Killed
<1> QED
    BY <1>1, <1>2, <1>3, <1>4, <1>5, <1>6 DEF StepOf, Script

LEMMA InvOfOthers ==
    ASSUME TypeOK, Inv, NEW p \in Pods, NEW q \in Pods, p # q, StepOf(p)
    PROVE  (OwnSteps(q) /\ Relied(q) /\ Tried(q) /\ Counted(q) /\ Accounted(q))'
<1>1. UNCHANGED <<setup, tree, Own(q)>>
    BY OfOthers
<1>2. OwnSteps(q)'
    BY <1>1 DEF Inv, OwnSteps, Own, MountsFirst
<1>3. Relied(q)'
    BY <1>1 DEF Inv, Relied, Own, MountsFirst
<1>4. Tried(q)'
    BY <1>1 DEF Inv, Tried, Own, Operations, Needs
<1>5. Counted(q)'
    BY <1>1 DEF Inv, Counted, Own
<1>6. Accounted(q)'
    BY <1>1 DEF Inv, Accounted, Own, Explained, Crashed, HasVMs
<1> QED
    BY <1>2, <1>3, <1>4, <1>5, <1>6

-----------------------------------------------------------------------------
(* And its own: which of the parts each group of steps can disturb. *)

\* A step that leaves the test objects' verdict alone and is not the end of a
\* validation of a reporting target keeps Tried; likewise for the other parts.
LEMMA KeepsTried ==
    ASSUME NEW p \in Pods, Tried(p), UNCHANGED <<setup, op, errors>>,
           (at[p])' = "succeeded" =>
               at[p] = "succeeded" \/ setup.kind[p] # "validateReporting"
    PROVE  Tried(p)'
    BY DEF Tried, Operations, Needs

LEMMA KeepsCounted ==
    ASSUME NEW p \in Pods, Counted(p), UNCHANGED <<setup, uploadVars>>,
           (at[p])' = "succeeded" => at[p] = "succeeded" \/ setup.kind[p] # "upload"
    PROVE  Counted(p)'
    BY DEF Counted, uploadVars

LEMMA KeepsAccounted ==
    ASSUME NEW p \in Pods, Accounted(p), UNCHANGED <<setup, tree, detectVars>>,
           setup.kind[p] # "preScan",
           (at[p])' \notin {"probe", "readCluster", "readMeta"},
           (at[p])' \in MountSteps \union {"main"} => at[p] \in MountSteps \union {"main"}
    PROVE  Accounted(p)'
    BY DEF Accounted, detectVars, MountSteps, Explained

LEMMA OwnMountStep ==
    ASSUME TypeOK, NEW p \in Pods,
           OwnSteps(p), Relied(p), Tried(p), Counted(p), Accounted(p),
           MountStep(p), UNCHANGED <<bucketVars, uploadVars, tree, detectVars>>
    PROVE  (OwnSteps(p) /\ Relied(p) /\ Tried(p) /\ Counted(p) /\ Accounted(p))'
<1> USE DEF Goto, TypeOK, MountStep, ReadForMount, WriteConf, FillConf, StartFuse,
            MountSeen, MountTimeout, RemoveConf
<1>1. UNCHANGED setup /\ at[p] \in MountSteps
    BY DEF MountSteps
<1>2. (at[p])' \in MountSteps \union {"main", "failed"}
    BY DEF MountSteps
<1>3. OwnSteps(p)'
    BY <1>1, <1>2 DEF OwnSteps, MountsFirst, MountSteps, PreScanSteps
<1>4. Relied(p)'
    <2>1. \A i \in Attempts : (fuse[p][i])' \in FuseUp => fuse[p][i] \in FuseUp
        <3>1. CASE UNCHANGED fuse
            BY <3>1
        <3>2. CASE fuse' = [fuse EXCEPT ![p] = [@ EXCEPT ![attempt[p]] = "started"]]
            BY <3>2 DEF FuseUp
        <3> QED
            BY <3>1, <3>2 DEF mountVars
    <2> QED
        BY <1>1, <1>2, <2>1 DEF Relied, MountSteps, PreScanSteps
<1>5. Tried(p)'
    BY <1>1, <1>2, KeepsTried DEF bucketVars, MountSteps
<1>6. Counted(p)'
    BY <1>1, <1>2, KeepsCounted DEF MountSteps
<1>7. Accounted(p)'
    BY <1>1, <1>2 DEF Accounted, detectVars, MountSteps
<1> QED
    BY <1>3, <1>4, <1>5, <1>6, <1>7

LEMMA OwnFuse ==
    ASSUME TypeOK, NEW p \in Pods,
           OwnSteps(p), Relied(p), Tried(p), Counted(p), Accounted(p), Fuse(p)
    PROVE  (OwnSteps(p) /\ Relied(p) /\ Tried(p) /\ Counted(p) /\ Accounted(p))'
<1>1. PICK i \in Attempts : FuseReads(p, i) \/ FuseMounts(p, i) \/ FuseCrashes(p, i)
    BY DEF Fuse, FuseStep
<1>2. /\ UNCHANGED <<setup, at, tree>>
      /\ UNCHANGED <<bucketVars, uploadVars, detectVars>>
    BY <1>1 DEF Fuse, FuseReads, FuseMounts, FuseCrashes
<1>3. OwnSteps(p)'
    BY <1>2 DEF OwnSteps, MountsFirst
<1>4. /\ \A j \in Attempts : fuse[p][j] \in FuseUp => (fuse[p][j])' \in FuseUp
      /\ \A j \in Attempts : fuse[p][j] = "crashed" => (fuse[p][j])' = "crashed"
      /\ \A j \in Attempts : (fuse[p][j])' \in FuseUp =>
            fuse[p][j] \in FuseUp \/ "list" \in setup.grants
    BY <1>1 DEF FuseReads, FuseMounts, FuseCrashes, FuseBecomes, FuseUp, TypeOK
<1>5. Relied(p)'
    BY <1>2, <1>4 DEF Relied, MountsFirst
<1>6. Tried(p)'
    BY <1>2, KeepsTried DEF bucketVars
<1>7. Counted(p)'
    BY <1>2, KeepsCounted
<1>8. Accounted(p)'
    <2>1. \A c : Explained(p, c) => Explained(p, c)'
        BY <1>2, <1>4 DEF Explained, Crashed, HasVMs
    <2> QED
        BY <1>2, <2>1 DEF Accounted, detectVars
<1> QED
    BY <1>3, <1>5, <1>6, <1>7, <1>8

LEMMA OwnKilled ==
    ASSUME TypeOK, NEW p \in Pods,
           OwnSteps(p), Relied(p), Tried(p), Counted(p), Accounted(p), Killed(p)
    PROVE  (OwnSteps(p) /\ Relied(p) /\ Tried(p) /\ Counted(p) /\ Accounted(p))'
<1> USE DEF Killed, Goto, TypeOK
<1>1. OwnSteps(p)'
    BY DEF OwnSteps, MountSteps, PreScanSteps
<1>2. Relied(p)'
    BY DEF Relied, PreScanSteps, mountVars
<1>3. Tried(p)'
    BY KeepsTried DEF bucketVars
<1>4. Counted(p)'
    BY KeepsCounted
<1>5. Accounted(p)'
    BY DEF Accounted, detectVars, MountSteps
<1> QED
    BY <1>1, <1>2, <1>3, <1>4, <1>5

ReliantSteps == {"listRoot", "readFile", "succeeded"} \union PreScanSteps

\* A step comes to rely on the mount only when it has seen it.
LEMMA KeepsRelied ==
    ASSUME NEW p \in Pods, Relied(p), UNCHANGED <<setup, mountVars>>,
           (at[p])' \in ReliantSteps /\ MountsFirst(p) => at[p] \in ReliantSteps \/ Mounted(p)
    PROVE  Relied(p)'
<1>1. UNCHANGED <<setup, fuse>> /\ MountsFirst(p)' = MountsFirst(p)
    BY DEF mountVars, MountsFirst
<1>2. ASSUME Mounted(p), MountsFirst(p) PROVE \E i \in Attempts : fuse[p][i] \in FuseUp
    BY <1>2 DEF Mounted, MountsFirst, FuseUp
<1> QED
    BY <1>1, <1>2 DEF Relied, ReliantSteps

LEMMA OperationsInOrder ==
    /\ DOMAIN Operations = 1 .. Len(Operations)
    /\ Len(Operations) \in Nat
    /\ Len(Operations) >= 3
    /\ Operations[3] = "put_object"
<1> DEFINE First == <<"head_bucket", "list_objects", "put_object", "get_object",
                      "get_object_version", "head_object", "copy_object", "upload_file",
                      "list_object_versions", "get_paginator", "create_directory">>
           Rest == IF setup.lock
                   THEN <<"get_object_lock_configuration">>
                   ELSE <<"delete_object", "delete_object_version",
                          "delete_uploaded_file", "delete_directory">>
<1> DEFINE Names == {First[i] : i \in 1 .. 11}
                    \union {"get_object_lock_configuration", "delete_object",
                            "delete_object_version", "delete_uploaded_file",
                            "delete_directory"}
<1>1. First \in Seq(Names) /\ Len(First) = 11 /\ First[3] = "put_object"
    OBVIOUS
<1>2. Rest \in Seq(Names)
    <2>1. CASE setup.lock
        BY <2>1
    <2>2. CASE ~setup.lock
        BY <2>2
    <2> QED
        BY <2>1, <2>2
<1>3. Operations = First \o Rest
    BY DEF Operations
<1> HIDE DEF First, Rest, Names
<1>4. Len(Rest) \in Nat
    BY <1>2
<1>5. /\ First \o Rest \in Seq(Names)
      /\ Len(First \o Rest) = Len(First) + Len(Rest)
    BY <1>1, <1>2, ConcatProperties
<1>6. (First \o Rest)[3] = "put_object"
    <2>1. 3 \in 1 .. Len(First) + Len(Rest) /\ 3 <= Len(First)
        BY <1>1, <1>4
    <2> QED
        BY <1>1, <1>2, <2>1, ConcatProperties
<1> QED
    BY <1>1, <1>3, <1>4, <1>5, <1>6

\* The calls that read and write nothing but the test objects.
LEMMA OwnOperation ==
    ASSUME TypeOK, NEW p \in Pods, Tried(p),
           Completes(p) \/ IsRefused(p) \/ IsLost(p)
    PROVE  Tried(p)'
<1>1. at[p] = "checkBucket" /\ UNCHANGED <<setup, at>>
    BY DEF Completes, IsRefused, IsLost, AtOperation
<1>2. UNCHANGED Operations /\ \A name : UNCHANGED Needs(name)
    BY <1>1 DEF Operations, Needs
<1>3. op[p] \in Nat /\ op[p] > 0 /\ op[p] + 1 > 0
    BY DEF Tried, TypeOK
<1>4. ASSUME UNCHANGED op, UNCHANGED errors PROVE Tried(p)'
    BY <1>1, <1>2, <1>4 DEF Tried
<1>5. ASSUME NextOperation(p), op[p] \in DOMAIN Operations,
             ~(errors[p])' => /\ ~errors[p]
                              /\ \/ Operations[op[p]] = "create_directory"
                                 \/ Needs(Operations[op[p]]) \subseteq setup.grants
      PROVE  Tried(p)'
    <2>1. (op[p])' = op[p] + 1
        BY <1>5 DEF NextOperation, TypeOK
    <2>2. \A i \in DOMAIN Operations : i \in Nat /\ (i < op[p] + 1 => i < op[p] \/ i = op[p])
        BY <1>3, OperationsInOrder
    <2> QED
        BY <1>1, <1>2, <1>3, <1>5, <2>1, <2>2 DEF Tried
<1>6. CASE Completes(p)
    <2>1. PICK name \in {Operations[i] : i \in DOMAIN Operations} :
              /\ AtOperation(p, name)
              /\ ~Refused(p, name)
              /\ IF HeadsFirst(p, name)
                 THEN /\ headed' = [headed EXCEPT ![p] = Current("test_copy")]
                      /\ UNCHANGED <<bucket, op>>
                 ELSE /\ Effect(p, name)
                      /\ NextOperation(p)
                      /\ UNCHANGED headed
        BY <1>6 DEF Completes
    <2>2. UNCHANGED errors
        BY <1>6 DEF Completes
    <2>3. UNCHANGED op \/ NextOperation(p)
        BY <2>1, Zenon
    <2>4. op[p] \in DOMAIN Operations /\ Needs(Operations[op[p]]) \subseteq setup.grants
        BY <2>1 DEF AtOperation, Refused
    <2> QED
        BY <1>4, <1>5, <2>2, <2>3, <2>4
<1>7. CASE IsRefused(p)
    <2>1. PICK name \in {Operations[i] : i \in DOMAIN Operations} :
              /\ AtOperation(p, name)
              /\ errors' = [errors EXCEPT ![p] = @ \/ name # "create_directory"]
        BY <1>7 DEF IsRefused
    <2>2. (errors[p])' = (errors[p] \/ name # "create_directory")
        BY <2>1, Zenon DEF TypeOK
    <2>3. op[p] \in DOMAIN Operations /\ Operations[op[p]] = name
        BY <2>1 DEF AtOperation
    <2> QED
        BY <1>5, <1>7, <2>2, <2>3 DEF IsRefused
<1>8. CASE IsLost(p)
    <2>1. op[p] \in DOMAIN Operations /\ NextOperation(p)
        BY <1>8 DEF IsLost, AtOperation
    <2>2. (errors[p])' = TRUE
        BY <1>8 DEF IsLost, TypeOK
    <2> QED
        BY <1>5, <2>1, <2>2
<1> QED
    BY <1>6, <1>7, <1>8

LEMMA OwnValidatorStep ==
    ASSUME TypeOK, NEW p \in Pods,
           OwnSteps(p), Relied(p), Tried(p), Counted(p), Accounted(p),
           ValidatorStep(p), UNCHANGED <<uploadVars, tree, detectVars>>
    PROVE  (OwnSteps(p) /\ Relied(p) /\ Tried(p) /\ Counted(p) /\ Accounted(p))'
<1> DEFINE Checks == {"checkMount", "listRoot", "readFile", "checkNFS"}
<1>1. /\ UNCHANGED <<setup, mountVars>>
      /\ at[p] \in {"main", "validate", "checkBucket"} \union Checks
      /\ setup.kind[p] \in {"validateBackup", "validateReporting"}
    BY DEF ValidatorStep, StartValidation, Validate, CheckMount, ListRoot, ReadFile,
           CheckNFS, Completes, IsRefused, IsLost, BucketVerdict, AtOperation, OwnSteps
<1>2. CASE StartValidation(p)
    <2>1. (at[p])' \in {"validate", "failed"} /\ UNCHANGED bucketVars
        BY <1>2 DEF StartValidation, Goto, TypeOK
    <2> QED
        BY <1>1, <2>1, KeepsTried, KeepsCounted, KeepsRelied, KeepsAccounted
        DEF OwnSteps, MountSteps, PreScanSteps, ReliantSteps, bucketVars
<1>3. CASE Validate(p)
    <2>1. /\ (at[p])' = IF setup.kind[p] = "validateBackup"
                       THEN IF setup.type = "NFS" THEN "checkNFS" ELSE "checkMount"
                       ELSE IF setup.type = "NFS" THEN "failed" ELSE "checkBucket"
          /\ UNCHANGED <<op, errors>>
        BY <1>3 DEF Validate, Goto, TypeOK
    <2> QED
        BY <1>1, <2>1, KeepsTried, KeepsCounted, KeepsRelied, KeepsAccounted
        DEF OwnSteps, MountSteps, PreScanSteps, ReliantSteps
<1>4. CASE CheckMount(p) \/ ListRoot(p) \/ ReadFile(p) \/ CheckNFS(p)
    <2>1. /\ setup.kind[p] = "validateBackup"
          /\ UNCHANGED bucketVars
          /\ (at[p])' \in {"listRoot", "readFile", "succeeded", "failed"}
          /\ (at[p])' # "failed" => Mounted(p) \/ at[p] \in ReliantSteps
        BY <1>4 DEF CheckMount, ListRoot, ReadFile, CheckNFS, Goto, TypeOK, OwnSteps,
                    Mounted, ReliantSteps
    <2> QED
        BY <1>1, <2>1, KeepsTried, KeepsCounted, KeepsRelied, KeepsAccounted
        DEF OwnSteps, MountSteps, PreScanSteps, ReliantSteps, bucketVars
<1>5. CASE Completes(p) \/ IsRefused(p) \/ IsLost(p)
    <2>1. UNCHANGED at /\ at[p] = "checkBucket"
        BY <1>5 DEF Completes, IsRefused, IsLost, AtOperation
    <2> QED
        BY <1>1, <1>5, <2>1, OwnOperation, KeepsCounted, KeepsRelied, KeepsAccounted
        DEF OwnSteps, MountSteps, PreScanSteps, ReliantSteps
<1>6. CASE BucketVerdict(p)
    <2>1. /\ at[p] = "checkBucket" /\ UNCHANGED bucketVars
          /\ (at[p])' \in {"succeeded", "failed"}
          /\ (at[p])' = "succeeded" => ~errors[p] /\ op[p] \notin DOMAIN Operations
        BY <1>6 DEF BucketVerdict, Goto, TypeOK
    <2>2. UNCHANGED Operations /\ \A name : UNCHANGED Needs(name)
        BY <1>1 DEF Operations, Needs
    <2>3. setup.kind[p] = "validateReporting"
        BY <2>1 DEF OwnSteps
    <2>4. Tried(p)'
        BY <1>1, <2>1, <2>2 DEF Tried, bucketVars
    <2> QED
        BY <1>1, <2>1, <2>3, <2>4, KeepsCounted, KeepsRelied, KeepsAccounted
        DEF OwnSteps, MountSteps, PreScanSteps, ReliantSteps, MountsFirst
<1> QED
    BY <1>2, <1>3, <1>4, <1>5, <1>6 DEF ValidatorStep

LEMMA OwnUploadStep ==
    ASSUME TypeOK, NEW p \in Pods,
           OwnSteps(p), Relied(p), Tried(p), Counted(p), Accounted(p),
           UploadStep(p), UNCHANGED <<bucketVars, tree, detectVars>>
    PROVE  (OwnSteps(p) /\ Relied(p) /\ Tried(p) /\ Counted(p) /\ Accounted(p))'
<1>1. /\ UNCHANGED <<setup, mountVars>>
      /\ at[p] \in {"main", "verifyAccess", "upload"}
      /\ setup.kind[p] = "upload"
      /\ (at[p])' \in {"verifyAccess", "upload", "succeeded", "failed"}
      /\ (at[p])' \in {"verifyAccess", "upload"} => setup.reporting
    BY DEF UploadStep, StartUpload, VerifyAccess, UploadFile, UploadVerdict, OwnSteps,
           IsReportingTarget, Goto, TypeOK
<1>2. OwnSteps(p)'
    BY <1>1 DEF OwnSteps, MountSteps, PreScanSteps
<1>3. Relied(p)'
    BY <1>1, KeepsRelied DEF ReliantSteps, PreScanSteps, MountsFirst
<1>4. Tried(p)'
    BY <1>1, KeepsTried DEF bucketVars
<1>5. Accounted(p)'
    BY <1>1, KeepsAccounted DEF MountSteps
<1>6. Counted(p)'
    <2>1. CASE StartUpload(p) \/ VerifyAccess(p)
        <3>1. UNCHANGED uploadVars /\ (at[p])' # "succeeded"
            BY <2>1 DEF StartUpload, VerifyAccess, Goto, TypeOK
        <3> QED
            BY <1>1, <3>1, KeepsCounted
    <2>2. CASE UploadFile(p)
        <3>1. PICK f \in todo[p] :
                  /\ todo' = [todo EXCEPT ![p] = @ \ {f}]
                  /\ \/ /\ sent' = [sent EXCEPT ![p] = @ \union {f}]
                        /\ UNCHANGED failed
                     \/ /\ failed' = [failed EXCEPT ![p] = @ \union {f}]
                        /\ sent' = sent \/ sent' = [sent EXCEPT ![p] = @ \union {f}]
                  /\ sent' = sent \/ "put" \in setup.grants
            BY <2>2 DEF UploadFile
        <3>2. /\ (todo[p])' = todo[p] \ {f}
              /\ \/ (sent[p])' = sent[p] \union {f} /\ (failed[p])' = failed[p]
                 \/ /\ (failed[p])' = failed[p] \union {f}
                    /\ (sent[p])' \in {sent[p], sent[p] \union {f}}
              /\ (sent[p])' = sent[p] \/ "put" \in setup.grants
            BY <3>1 DEF TypeOK
        <3>3. at[p] = "upload" /\ UNCHANGED at /\ setup.reporting
            BY <2>2 DEF UploadFile, OwnSteps
        <3> QED
            BY <1>1, <3>1, <3>2, <3>3 DEF Counted
    <2>3. CASE UploadVerdict(p)
        <3>1. /\ UNCHANGED <<todo, sent, failed>> /\ todo[p] = {}
              /\ (at[p])' = "succeeded" => failed[p] = {}
            BY <2>3 DEF UploadVerdict, Goto, TypeOK, uploadVars
        <3> QED
            BY <1>1, <3>1 DEF Counted
    <2> QED
        BY <2>1, <2>2, <2>3 DEF UploadStep
<1> QED
    BY <1>2, <1>3, <1>4, <1>5, <1>6

\* Only a file that is there, valid and on a mount that works can be read.
LEMMA UnreadChild ==
    ASSUME NEW p \in Pods, Relied(p), setup \in Setups,
           setup.kind[p] = "preScan", at[p] \in PreScanSteps,
           NEW c \in Children,
           ~(c \in setup.placed /\ CanRead(p, c) /\ HasVMs(setup.children[c]))
    PROVE  Explained(p, c)
<1>1. setup.type \in {"NFS", "ObjectStore"}
    BY SetupIsSetup DEF Setup
<1>2. ASSUME ~Mounted(p) PROVE Crashed(p)
    <2>1. MountsFirst(p)
        BY <1>1, <1>2 DEF Mounted, MountsFirst
    <2>2. PICK i \in Attempts : fuse[p][i] \in FuseUp
        BY <2>1 DEF Relied
    <2> QED
        BY <1>2, <2>2 DEF Mounted, Crashed, FuseUp
<1> QED
    BY <1>2 DEF Explained, CanRead

LEMMA OwnDetectorStep ==
    ASSUME TypeOK, NEW p \in Pods,
           OwnSteps(p), Relied(p), Tried(p), Counted(p), Accounted(p),
           DetectorStep(p), UNCHANGED <<bucketVars, uploadVars>>
    PROVE  (OwnSteps(p) /\ Relied(p) /\ Tried(p) /\ Counted(p) /\ Accounted(p))'
<1>1. /\ UNCHANGED <<setup, mountVars, tree>>
      /\ setup.kind[p] = "preScan"
      /\ at[p] \in {"main"} \union PreScanSteps
      /\ (at[p])' \in {"succeeded", "failed"} \union PreScanSteps
      /\ (at[p])' = "failed" \/ Mounted(p) \/ at[p] \in PreScanSteps
    BY DEF DetectorStep, StartPreScan, ProbeCluster, ReadCluster, ReadMeta, ReadBackup,
           ReadChild, ChildrenRead, PatchResult, OwnSteps, Goto, TypeOK, PreScanSteps
<1>2. OwnSteps(p)'
    BY <1>1 DEF OwnSteps, MountSteps, PreScanSteps
<1>3. Relied(p)'
    BY <1>1, KeepsRelied DEF ReliantSteps, PreScanSteps
<1>4. Tried(p)'
    BY <1>1, KeepsTried DEF bucketVars
<1>5. Counted(p)'
    BY <1>1, KeepsCounted
<1>6. \A c : Explained(p, c) => Explained(p, c)'
    BY <1>1 DEF Explained, Crashed, HasVMs, mountVars
<1>7. Accounted(p)'
    <2> SUFFICES ASSUME setup.cluster PROVE Accounted(p)'
        BY <1>1 DEF Accounted
    <2>1. CASE StartPreScan(p) \/ ProbeCluster(p)
        <3>1. /\ at[p] \in {"main", "probe"}
              /\ (at[p])' \in {"probe", "readCluster", "readMeta", "failed"}
              /\ (at[p])' = "readCluster" => (mode[p])' = "cluster"
              /\ (at[p])' = "readMeta" => (mode[p])' = "namespace"
              /\ UNCHANGED locations
            BY <2>1 DEF StartPreScan, ProbeCluster, Goto, TypeOK, detectVars
        <3> QED
            BY <1>1, <3>1 DEF Accounted, MountSteps
    <2>2. CASE ReadCluster(p)
        <3>1. /\ at[p] = "readCluster" /\ (at[p])' \in {"readMeta", "failed"}
              /\ (left[p])' = Children
              /\ UNCHANGED <<mode, locations>>
            BY <2>2 DEF ReadCluster, Goto, TypeOK
        <3> QED
            BY <1>1, <3>1 DEF Accounted, MountSteps
    <2>3. CASE ReadMeta(p)
        <3>1. /\ at[p] = "readMeta" /\ (at[p])' \in {"readChildren", "readBackup", "failed"}
              /\ (at[p])' = "readChildren" => mode[p] = "cluster"
              /\ UNCHANGED <<mode, left, locations>>
            BY <2>3 DEF ReadMeta, Goto, TypeOK, detectVars
        <3> QED
            BY <1>1, <3>1 DEF Accounted, MountSteps
    <2>4. CASE ReadBackup(p)
        <3>1. "backup" \notin tree
            BY SetupsAssumption DEF TypeOK, Tree
        <3>2. (at[p])' = "failed"
            BY <2>4, <3>1 DEF ReadBackup, CanRead, Goto, TypeOK
        <3> QED
            BY <3>2 DEF Accounted, MountSteps
    <2>5. CASE ReadChild(p)
        <3>1. PICK c \in left[p] :
                  /\ left' = [left EXCEPT ![p] = @ \ {c}]
                  /\ locations' = [locations EXCEPT
                        ![p] = IF /\ c \in setup.placed
                                  /\ CanRead(p, c)
                                  /\ HasVMs(setup.children[c])
                               THEN @ \union {c} ELSE @]
            BY <2>5 DEF ReadChild
        <3>2. at[p] = "readChildren" /\ (at[p])' = "readChildren" /\ c \in Children
            BY <2>5, <3>1 DEF ReadChild, TypeOK
        <3>3. (left[p])' = left[p] \ {c}
            BY <3>1 DEF TypeOK
        <3>4. \/ /\ (locations[p])' = locations[p] \union {c}
                 /\ HasVMs(setup.children[c])
              \/ (locations[p])' = locations[p] /\ Explained(p, c)
            <4>1. CASE c \in setup.placed /\ CanRead(p, c) /\ HasVMs(setup.children[c])
                BY <3>1, <4>1 DEF TypeOK
            <4>2. CASE ~(c \in setup.placed /\ CanRead(p, c) /\ HasVMs(setup.children[c]))
                <5>1. Explained(p, c)
                    BY <1>1, <3>2, <4>2, UnreadChild DEF PreScanSteps, TypeOK
                <5> QED
                    BY <3>1, <4>2, <5>1 DEF TypeOK
            <4> QED
                BY <4>1, <4>2
        <3>5. \A d : HasVMs(d)' = HasVMs(d)
            BY DEF HasVMs
        <3> QED
            BY <1>1, <1>6, <3>2, <3>3, <3>4, <3>5 DEF Accounted, MountSteps
    <2>6. CASE ChildrenRead(p) \/ PatchResult(p)
        <3>1. /\ UNCHANGED <<left, locations>>
              /\ (at[p])' \in {"patch", "succeeded", "failed"}
              /\ at[p] \in {"readChildren", "patch"}
              /\ at[p] = "readChildren" => left[p] = {}
            BY <2>6 DEF ChildrenRead, PatchResult, Goto, TypeOK, detectVars
        <3> QED
            BY <1>1, <1>6, <3>1 DEF Accounted, MountSteps
    <2> QED
        BY <2>1, <2>2, <2>3, <2>4, <2>5, <2>6 DEF DetectorStep
<1> QED
    BY <1>2, <1>3, <1>4, <1>5, <1>7

-----------------------------------------------------------------------------

LEMMA InvInit == Init => Inv
<1> SUFFICES ASSUME Init, NEW p \in Pods
             PROVE  OwnSteps(p) /\ Relied(p) /\ Tried(p) /\ Counted(p) /\ Accounted(p)
    BY DEF Inv
<1>1. at[p] \in {"absent", "readForMount", "main"}
    BY DEF Init, TargetInit, FirstStep
<1>2. at[p] = "readForMount" => MountsFirst(p)
    BY DEF Init, TargetInit, FirstStep
<1>3. OwnSteps(p)
    BY <1>1, <1>2 DEF OwnSteps, MountSteps, PreScanSteps
<1>4. Relied(p)
    BY <1>1 DEF Init, MountInit, Relied, FuseUp, PreScanSteps
<1>5. Tried(p)
    <2>1. op[p] = 1 /\ ~errors[p]
        BY DEF Init, ValidatorInit
    <2> QED
        BY <1>1, <2>1, OperationsInOrder DEF Tried
<1>6. Counted(p)
    BY <1>1 DEF Init, UploadInit, Counted
<1>7. Accounted(p)
    BY <1>1 DEF Init, DetectorInit, Accounted, MountSteps
<1> QED
    BY <1>3, <1>4, <1>5, <1>6, <1>7

LEMMA InvNext == TypeOK /\ Inv /\ [Next]_vars => Inv'
<1> SUFFICES ASSUME TypeOK, Inv, [Next]_vars PROVE Inv'
    OBVIOUS
<1>1. CASE UNCHANGED vars
    <2>1. UNCHANGED Operations /\ \A name : UNCHANGED Needs(name)
        BY <1>1 DEF Operations, Needs, vars
    <2> QED
        BY <1>1, <2>1 DEF vars, bucketVars, uploadVars, detectVars, mountVars, Inv, OwnSteps,
               Relied, Tried, Counted, Accounted, Explained, Crashed, HasVMs, MountsFirst
<1>2. ASSUME NEW p \in Pods, StepOf(p) PROVE Inv'
    <2>1. (OwnSteps(p) /\ Relied(p) /\ Tried(p) /\ Counted(p) /\ Accounted(p))'
        BY <1>2, OwnMountStep, OwnValidatorStep, OwnUploadStep, OwnDetectorStep,
           OwnFuse, OwnKilled DEF StepOf, Script, Inv
    <2> QED
        BY <1>2, <2>1, InvOfOthers DEF Inv
<1>3. CASE Retention
    <2>1. /\ UNCHANGED <<setup, at, mountVars, bucketVars, uploadVars, detectVars>>
          /\ tree' \subseteq tree
        BY <1>3 DEF Retention, RetentionDeletes
    <2>2. \A p, c : Explained(p, c) => Explained(p, c)'
        BY <2>1 DEF Explained, Crashed, HasVMs, mountVars
    <2>3. UNCHANGED Operations /\ \A name : UNCHANGED Needs(name)
        BY <2>1 DEF Operations, Needs
    <2>4. \A p \in Pods : (OwnSteps(p) /\ Relied(p) /\ Tried(p) /\ Counted(p))'
        BY <2>1, <2>3 DEF Inv, OwnSteps, Relied, Tried, Counted, MountsFirst,
               mountVars, bucketVars, uploadVars
    <2>5. \A p \in Pods : Accounted(p)'
        BY <2>1, <2>2 DEF Inv, Accounted, HasVMs, detectVars
    <2> QED
        BY <2>4, <2>5 DEF Inv
<1> QED
    BY <1>1, <1>2, <1>3 DEF Next, StepOf

\* Inv holds always; it is what the theorems below need besides types.
THEOREM Invariant == Spec => [](TypeOK /\ Inv)
<1> QED
    BY TypeInit, TypeNext, InvInit, InvNext, PTL DEF Spec

-----------------------------------------------------------------------------

LEMMA MountImplied == TypeOK /\ Inv => OnlyThroughMount
<1> SUFFICES ASSUME TypeOK, Inv, NEW p \in Pods, at[p] = "succeeded", MountsFirst(p)
             PROVE  /\ \E i \in Attempts : fuse[p][i] \in FuseUp
                    /\ "list" \in setup.grants
    BY DEF OnlyThroughMount, FuseUp
<1> QED
    BY DEF Inv, Relied

\* No backup target is found valid, and no backup pre-scanned, that s3fuse has
\* not mounted (target_validations.py:76-86, validator.py:20).
THEOREM MountRequired == Spec => []OnlyThroughMount
<1> QED
    BY Invariant, MountImplied, PTL

LEMMA VerdictImplied == TypeOK /\ Inv => VerdictSound
<1> SUFFICES ASSUME TypeOK, Inv, NEW p \in Pods, at[p] = "succeeded",
                    setup.kind[p] = "validateReporting",
                    NEW i \in DOMAIN Operations
             PROVE  Needs(Operations[i]) \subseteq setup.grants
    BY DEF VerdictSound
<1>1. Tried(p)
    BY DEF Inv
<1>2. op[p] \in Nat /\ op[p] > 0 /\ op[p] \notin DOMAIN Operations /\ ~errors[p]
    BY <1>1 DEF TypeOK, Tried
<1>3. \A j \in DOMAIN Operations : j < op[p]
    BY <1>2, OperationsInOrder
<1>4. \/ Operations[i] = "create_directory"
      \/ Needs(Operations[i]) \subseteq setup.grants
    BY <1>1, <1>2, <1>3 DEF Tried
<1>5. Needs("put_object") \subseteq setup.grants
    <2>1. 3 \in DOMAIN Operations
        BY OperationsInOrder
    <2> QED
        BY <1>1, <1>2, <1>3, <2>1, OperationsInOrder DEF Tried
<1> QED
    BY <1>4, <1>5 DEF Needs

\* A reporting target is found valid only when everything that will be done to
\* it is granted, and whatever another validator does to the same test objects
\* meanwhile (utilities.py:804-823).
THEOREM VerdictIsSound == Spec => []VerdictSound
<1> QED
    BY Invariant, VerdictImplied, PTL

LEMMA UploadImplied == TypeOK /\ Inv => UploadComplete
    BY DEF UploadComplete, Inv, Counted

\* A successful upload has sent every file, and to a reporting target
\* (report_uploader/cli.py:156-204).
THEOREM UploadIsComplete == Spec => []UploadComplete
<1> QED
    BY Invariant, UploadImplied, PTL

LEMMA LocationsImplied == TypeOK /\ Inv => LocationsExact
    BY DEF LocationsExact, Inv, Accounted, Explained

\* What a pre-scan leaves out is not there, is not valid, or was out of reach of
\* a mount that has crashed (tvk_detector.py:343-429).
THEOREM LocationsAreExact == Spec => []LocationsExact
<1> QED
    BY Invariant, LocationsImplied, PTL

-----------------------------------------------------------------------------
(* A validator that runs alone, and what it does to the test objects. *)

\* Where each operation is in the list; an object that is locked is not deleted.
Listed ==
    /\ DOMAIN Operations = 1 .. (IF setup.lock THEN 12 ELSE 15)
    /\ \A i \in DOMAIN Operations :
          /\ i = 3 <=> Operations[i] = "put_object"
          /\ i = 7 <=> Operations[i] = "copy_object"
          /\ i = 8 <=> Operations[i] = "upload_file"
          /\ i = 11 <=> Operations[i] = "create_directory"
          /\ i = 12 /\ ~setup.lock <=> Operations[i] = "delete_object"
          /\ i = 13 <=> Operations[i] = "delete_object_version"
          /\ i = 14 <=> Operations[i] = "delete_uploaded_file"
          /\ i = 15 <=> Operations[i] = "delete_directory"
          /\ Operations[i] \in {"get_object", "get_object_version", "head_object"} =>
                i \in 4 .. 6

Versions(k) == {bucket[k][i] : i \in DOMAIN bucket[k]}

Granted == \A i \in DOMAIN Operations : Needs(Operations[i]) \subseteq setup.grants

\* As long as it has not met another, there is no other.
Undisturbed(p) ==
    at[p] = "checkBucket" /\ ~crossed[p] =>
        \A q \in Pods \ {p} : at[q] # "checkBucket"

Blameless(p) ==
    /\ setup.kind[p] = "validateReporting" /\ setup.type = "ObjectStore"
    /\ faults[p] = 0 /\ ~crossed[p]
    /\ Granted

\* What it reads is there when it comes to it.
Unblamed(p) ==
    Blameless(p) =>
        /\ at[p] # "failed" /\ ~errors[p]
        /\ at[p] \in {"validate", "checkBucket"} => credentials[p] = "good"
        /\ at[p] = "checkBucket" =>
              /\ op[p] > 3 /\ (setup.lock \/ op[p] <= 12) => Visible("test")
              /\ op[p] \in 8 .. 13 /\ headed[p] = NoPod => Visible("test_copy")

\* Its one version of test_copy is the current one until it deletes it, and of the
\* other objects a version of another, or a marker, is above its own.
Cleared(p) ==
    /\ at[p] \notin Ended \union {"checkBucket"} => op[p] = 1
    /\ op[p] < 13 => headed[p] = NoPod
    /\ setup.versioned /\ ~setup.lock /\ ~crossed[p] /\ ~errors[p] =>
          /\ op[p] \notin 8 .. 13 => p \notin Versions("test_copy")
          /\ at[p] = "checkBucket" /\ op[p] \in 8 .. 13 =>
                /\ bucket["test_copy"] # <<>> /\ Current("test_copy") = p
                /\ \A i \in DOMAIN bucket["test_copy"] :
                      bucket["test_copy"][i] = p => i = Len(bucket["test_copy"])
                /\ headed[p] \in {NoPod, p}
          /\ op[p] > 12 => Current("test") # p
          /\ op[p] > 14 => Current("uploaded_test") # p
          /\ op[p] > 15 => Current("testdirectory/") # p

Tidy == \A p \in Pods : Undisturbed(p) /\ Unblamed(p) /\ Cleared(p)

LEMMA OperationsListed == Listed
<1> DEFINE First == <<"head_bucket", "list_objects", "put_object", "get_object",
                      "get_object_version", "head_object", "copy_object", "upload_file",
                      "list_object_versions", "get_paginator", "create_directory">>
           Locked == <<"get_object_lock_configuration">>
           Deleting == <<"delete_object", "delete_object_version",
                         "delete_uploaded_file", "delete_directory">>
<1>1. CASE setup.lock
    <2>1. Operations = First \o Locked
        BY <1>1 DEF Operations
    <2>2. Len(Operations) = 12 /\ DOMAIN Operations = 1 .. 12
        BY <2>1
    <2>3. \A i \in 1 .. 12 : Operations[i] = IF i <= 11 THEN First[i] ELSE Locked[i - 11]
        BY <2>1
    <2> QED BY <1>1, <2>2, <2>3 DEF Listed
<1>2. CASE ~setup.lock
    <2>1. Operations = First \o Deleting
        BY <1>2 DEF Operations
    <2>2. Len(Operations) = 15 /\ DOMAIN Operations = 1 .. 15
        BY <2>1
    <2>3. \A i \in 1 .. 15 : Operations[i] = IF i <= 11 THEN First[i] ELSE Deleting[i - 11]
        BY <2>1
    <2> QED BY <1>2, <2>2, <2>3 DEF Listed
<1> QED BY <1>1, <1>2

\* A version is put on top of the others.
LEMMA PutShows ==
    ASSUME TypeOK, NEW p \in Pods, NEW k \in Keys, Put(p, k)
    PROVE  /\ bucket'[k] # <<>> /\ Current(k)' = p
           /\ Versions(k)' \subseteq Versions(k) \union {p}
           /\ \A i \in DOMAIN bucket'[k] :
                 i # Len(bucket'[k]) => bucket'[k][i] \in Versions(k)
<1>1. bucket[k] \in Seq(Pods \union {"marker"})
    BY DEF TypeOK
<1> DEFINE now == IF setup.versioned THEN Append(bucket[k], p) ELSE <<p>>
<1>2. bucket'[k] = now
    BY DEF TypeOK, Put
<1>3. /\ now # <<>> /\ now[Len(now)] = p
      /\ \A i \in DOMAIN now : i # Len(now) => i \in DOMAIN bucket[k] /\ now[i] = bucket[k][i]
    BY <1>1
<1> HIDE DEF now
<1> QED BY <1>2, <1>3 DEF Current, Versions

LEMMA DeleteShows ==
    ASSUME TypeOK, NEW k \in Keys, Delete(k)
    PROVE  Current(k)' \notin Pods
<1>1. bucket[k] \in Seq(Pods \union {"marker"})
    BY DEF TypeOK
<1> DEFINE now == IF setup.versioned THEN Append(bucket[k], "marker") ELSE <<>>
<1>2. bucket'[k] = now
    BY DEF TypeOK, Delete
<1>3. now = <<>> \/ now[Len(now)] = "marker"
    BY <1>1
<1> HIDE DEF now
<1> QED BY <1>2, <1>3, SetupsAssumption DEF Current

LEMMA WithoutElements ==
    ASSUME NEW S, NEW versions \in Seq(S), NEW i \in DOMAIN versions
    PROVE  \A j \in DOMAIN Without(versions, i) :
              \E l \in DOMAIN versions \ {i} : Without(versions, i)[j] = versions[l]
<1> DEFINE n == Len(versions)
           low == SubSeq(versions, 1, i - 1)
           high == SubSeq(versions, i + 1, n)
<1>1. n \in Nat /\ DOMAIN versions = 1 .. n /\ i \in 1 .. n
    OBVIOUS
<1>2. \A j \in 1 .. n : versions[j] \in S
    OBVIOUS
<1>3. low \in Seq(S) /\ Len(low) = i - 1 /\ \A j \in 1 .. i - 1 : low[j] = versions[j]
    BY <1>1, <1>2
<1>4. high \in Seq(S) /\ Len(high) = n - i /\ \A j \in 1 .. n - i : high[j] = versions[i + j]
    <2>1. \A j \in 1 .. n - i : (i + 1) + j - 1 = i + j
        BY <1>1
    <2> QED BY <1>1, <1>2, <2>1, SubSeqProperties
<1> HIDE DEF n, low, high
<1>5. /\ DOMAIN (low \o high) = 1 .. n - 1
      /\ \A j \in 1 .. n - 1 : (low \o high)[j] = IF j <= i - 1 THEN low[j] ELSE high[j - (i - 1)]
    BY <1>1, <1>3, <1>4
<1>6. ASSUME NEW j \in 1 .. n - 1
      PROVE  \E l \in (1 .. n) \ {i} : (low \o high)[j] = versions[l]
    <2>0. i \in Int /\ j \in Int
        BY <1>1, <1>6
    <2>1. CASE j <= i - 1
        <3>1. j \in (1 .. n) \ {i} /\ (low \o high)[j] = versions[j]
            BY <1>1, <1>3, <1>5, <1>6, <2>1
        <3> QED BY <3>1
    <2>2. CASE ~(j <= i - 1)
        <3>1. j - (i - 1) \in 1 .. n - i /\ i + (j - (i - 1)) = j + 1
            BY <1>1, <1>6, <2>2
        <3>2. high[j - (i - 1)] = versions[j + 1]
            BY <1>4, <3>1
        <3>3. (low \o high)[j] = versions[j + 1]
            BY <1>5, <1>6, <2>2, <3>2
        <3>4. j + 1 \in (1 .. n) \ {i}
            BY <1>1, <1>6, <2>2
        <3> QED BY <3>3, <3>4
    <2> QED BY <2>1, <2>2
<1> QED BY <1>1, <1>5, <1>6 DEF Without, low, high, n

\* A version that is deleted uncovers at most what was below it.
LEMMA DeleteVersionShows ==
    ASSUME TypeOK, NEW k \in Keys, NEW version, DeleteVersion(k, version)
    PROVE  /\ Versions(k)' \subseteq Versions(k)
           /\ (\A i \in DOMAIN bucket[k] : bucket[k][i] = version => i = Len(bucket[k])) =>
                 version \notin Versions(k)'
<1>1. bucket[k] \in Seq(Pods \union {"marker"})
    BY DEF TypeOK
<1>2. CASE UNCHANGED bucket /\ \A i \in DOMAIN bucket[k] : bucket[k][i] # version
    BY <1>2 DEF Versions
<1>3. ASSUME NEW i \in DOMAIN bucket[k], bucket[k][i] = version,
             bucket' = [bucket EXCEPT ![k] = Without(@, i)]
      PROVE  /\ Versions(k)' \subseteq Versions(k)
             /\ (\A j \in DOMAIN bucket[k] : bucket[k][j] = version => j = Len(bucket[k])) =>
                   version \notin Versions(k)'
    <2>1. bucket'[k] = Without(bucket[k], i)
        BY <1>3 DEF TypeOK
    <2>2. \A j \in DOMAIN Without(bucket[k], i) :
              \E l \in DOMAIN bucket[k] \ {i} : Without(bucket[k], i)[j] = bucket[k][l]
        BY <1>1, WithoutElements
    <2>3. \A v \in Versions(k)' : \E l \in DOMAIN bucket[k] \ {i} : v = bucket[k][l]
        BY <2>1, <2>2 DEF Versions
    <2>4. Versions(k)' \subseteq Versions(k)
        BY <2>3 DEF Versions
    <2>5. (\A j \in DOMAIN bucket[k] : bucket[k][j] = version => j = Len(bucket[k])) =>
              version \notin Versions(k)'
        BY <1>3, <2>3
    <2> QED BY <2>4, <2>5
<1> QED BY <1>2, <1>3 DEF DeleteVersion

\* Each object is touched by few of the operations.
LEMMA Untouched ==
    ASSUME TypeOK, NEW p \in Pods, NEW name, Effect(p, name)
    PROVE  /\ name \notin {"put_object", "delete_object"} => bucket'["test"] = bucket["test"]
           /\ name \notin {"copy_object", "delete_object_version"} =>
                 bucket'["test_copy"] = bucket["test_copy"]
           /\ name \notin {"upload_file", "delete_uploaded_file"} =>
                 bucket'["uploaded_test"] = bucket["uploaded_test"]
           /\ name \notin {"create_directory", "delete_directory"} =>
                 bucket'["testdirectory/"] = bucket["testdirectory/"]
<1> USE DEF TypeOK
<1>1. /\ \A k \in Keys : Put(p, k) \/ Delete(k) =>
                \A l \in Keys \ {k} : bucket'[l] = bucket[l]
      /\ DeleteHeadedVersion(p) => \A l \in Keys \ {"test_copy"} : bucket'[l] = bucket[l]
    BY DEF Put, Delete, DeleteHeadedVersion, DeleteVersion, Keys
<1>2. {"test", "test_copy", "uploaded_test", "testdirectory/"} \subseteq Keys
    BY DEF Keys
<1>3. CASE name = "put_object" \/ name = "delete_object"
    <2>1. Put(p, "test") \/ Delete("test")
        BY <1>3 DEF Effect
    <2> QED BY <1>1, <1>2, <1>3, <2>1
<1>4. CASE name = "copy_object" \/ name = "delete_object_version"
    <2>1. Put(p, "test_copy") \/ DeleteHeadedVersion(p)
        BY <1>4 DEF Effect
    <2> QED BY <1>1, <1>2, <1>4, <2>1
<1>5. CASE name = "upload_file" \/ name = "delete_uploaded_file"
    <2>1. Put(p, "uploaded_test") \/ Delete("uploaded_test")
        BY <1>5 DEF Effect
    <2> QED BY <1>1, <1>2, <1>5, <2>1
<1>6. CASE name = "create_directory" \/ name = "delete_directory"
    <2>1. Put(p, "testdirectory/") \/ Delete("testdirectory/")
        BY <1>6 DEF Effect
    <2> QED BY <1>1, <1>2, <1>6, <2>1
<1>7. CASE name \notin {"put_object", "delete_object", "copy_object", "delete_object_version",
                        "upload_file", "delete_uploaded_file", "create_directory",
                        "delete_directory"}
    BY <1>7 DEF Effect
<1> QED BY <1>3, <1>4, <1>5, <1>6, <1>7

\* What another does puts no version of a validator on top, or among the copies.
LEMMA EffectOfOther ==
    ASSUME TypeOK, NEW q \in Pods, NEW p \in Pods, p # q, NEW name, Effect(q, name)
    PROVE  /\ p \notin Versions("test_copy") => p \notin Versions("test_copy")'
           /\ \A k \in Keys \ {"test_copy"} : Current(k) # p => Current(k)' # p
<1>0. {"test", "test_copy", "uploaded_test", "testdirectory/"} \subseteq Keys
    BY DEF Keys
<1>1. ASSUME NEW k \in Keys, bucket'[k] = bucket[k]
      PROVE  Current(k)' = Current(k) /\ Versions(k)' = Versions(k)
    BY <1>1 DEF Current, Versions
<1>2. ASSUME NEW k \in Keys \ {"test_copy"}, Current(k) # p
      PROVE  Current(k)' # p
    <2>1. bucket'[k] = bucket[k] \/ Put(q, k) \/ Delete(k)
        BY <1>0, Untouched DEF Effect, Keys
    <2> QED BY <1>1, <1>2, <2>1, PutShows, DeleteShows
<1>3. p \notin Versions("test_copy") => p \notin Versions("test_copy")'
    <2>1. bucket'["test_copy"] = bucket["test_copy"] \/ Put(q, "test_copy") \/ DeleteHeadedVersion(q)
        BY Untouched DEF Effect
    <2>2. DeleteHeadedVersion(q) => Versions("test_copy")' \subseteq Versions("test_copy")
        BY <1>0, <1>1, DeleteVersionShows DEF DeleteHeadedVersion
    <2> QED BY <1>0, <1>1, <2>1, <2>2, PutShows
<1> QED BY <1>2, <1>3

-----------------------------------------------------------------------------
(* Its own operations. *)

Operates(p) == Completes(p) \/ IsRefused(p) \/ IsLost(p)

LEMMA GrantedKept == UNCHANGED setup => (Granted' <=> Granted)
    BY DEF Granted, Operations, Needs

LEMMA OperationTidy ==
    ASSUME TypeOK, NEW p \in Pods, Operates(p), Tried(p), Undisturbed(p), Unblamed(p), Cleared(p)
    PROVE  Unblamed(p)' /\ Cleared(p)'
<1>1. PICK name :
          /\ AtOperation(p, name)
          /\ \/ /\ Completes(p) /\ ~Refused(p, name) /\ HeadsFirst(p, name)
                /\ headed' = [headed EXCEPT ![p] = Current("test_copy")]
                /\ UNCHANGED <<bucket, op, errors, faults>>
             \/ /\ Completes(p) /\ ~Refused(p, name) /\ ~HeadsFirst(p, name)
                /\ Effect(p, name) /\ NextOperation(p)
                /\ UNCHANGED <<headed, errors, faults>>
             \/ /\ IsRefused(p) /\ Refused(p, name) /\ NextOperation(p)
                /\ errors' = [errors EXCEPT ![p] = @ \/ name # "create_directory"]
                /\ UNCHANGED <<bucket, headed, faults>>
             \/ IsLost(p)
    BY DEF Operates, Completes, IsRefused, IsLost
<1> DEFINE i == op[p]
<1>2. /\ at[p] = "checkBucket" /\ i \in DOMAIN Operations /\ name = Operations[i]
      /\ i \in 1 .. 15 /\ (setup.lock => i <= 12)
    BY <1>1, OperationsListed DEF AtOperation, Listed
<1>3. /\ i = 3 <=> name = "put_object"
      /\ i = 7 <=> name = "copy_object"
      /\ i = 8 <=> name = "upload_file"
      /\ i = 11 <=> name = "create_directory"
      /\ i = 12 /\ ~setup.lock <=> name = "delete_object"
      /\ i = 13 <=> name = "delete_object_version"
      /\ i = 14 <=> name = "delete_uploaded_file"
      /\ i = 15 <=> name = "delete_directory"
      /\ name \in {"get_object", "get_object_version", "head_object"} => i \in 4 .. 6
    BY <1>2, OperationsListed DEF Listed
<1>4. UNCHANGED <<setup, at, credentials, crossed>>
    BY DEF Operates, Completes, IsRefused, IsLost
<1>5. {"test", "test_copy", "uploaded_test", "testdirectory/"} \subseteq Keys
    BY DEF Keys
<1>6. Granted' <=> Granted
    BY <1>4, GrantedKept
<1>7. Blameless(p)' => Blameless(p) /\ ~IsLost(p)
    <2>1. faults'[p] = 0 => ~IsLost(p) /\ faults[p] = 0
        BY <1>1 DEF IsLost, OneMoreFault, TypeOK
    <2> QED BY <1>4, <1>6, <2>1 DEF Blameless
<1>8. CASE IsLost(p)
    <2>1. errors'[p] /\ op'[p] = i + 1 /\ headed' = headed
        BY <1>8 DEF IsLost, NextOperation, TypeOK
    <2>2. Cleared(p)'
        BY <1>2, <1>4, <2>1 DEF Cleared
    <2>3. Unblamed(p)'
        BY <1>7, <1>8 DEF Unblamed
    <2> QED BY <2>2, <2>3
<1>9. CASE /\ Completes(p) /\ ~Refused(p, name) /\ HeadsFirst(p, name)
           /\ headed' = [headed EXCEPT ![p] = Current("test_copy")]
           /\ UNCHANGED <<bucket, op, errors, faults>>
    <2>1. i = 13 /\ Visible("test_copy")
        BY <1>3, <1>9 DEF HeadsFirst, Refused, Missing
    <2>2. headed'[p] = Current("test_copy") /\ headed'[p] # NoPod
        BY <1>9, <2>1, SetupsAssumption DEF Visible, TypeOK
    <2>3. UNCHANGED <<Versions("test_copy"), Current("test"), Current("test_copy"),
                      Current("uploaded_test"), Current("testdirectory/")>>
        BY <1>9 DEF Versions, Current
    <2>4. Cleared(p)'
        BY <1>2, <1>4, <1>9, <2>1, <2>2, <2>3 DEF Cleared
    <2>5. Unblamed(p)'
        BY <1>2, <1>4, <1>7, <1>9, <2>1, <2>2, <2>3 DEF Unblamed, Visible
    <2> QED BY <2>4, <2>5
<1>10. CASE /\ IsRefused(p) /\ Refused(p, name) /\ NextOperation(p)
            /\ errors' = [errors EXCEPT ![p] = @ \/ name # "create_directory"]
            /\ UNCHANGED <<bucket, headed, faults>>
    <2>1. op'[p] = i + 1
        BY <1>10 DEF NextOperation, TypeOK
    <2>2. ~errors'[p] => ~errors[p] /\ i = 11
        BY <1>3, <1>10 DEF TypeOK
    <2>3. UNCHANGED <<Versions("test_copy"), Current("test"), Current("test_copy"),
                      Current("uploaded_test"), Current("testdirectory/")>>
        BY <1>10 DEF Versions, Current
    <2>4. Cleared(p)'
        <3>1. CASE errors'[p]
            BY <1>2, <1>4, <1>10, <2>1, <3>1 DEF Cleared
        <3>2. CASE ~errors'[p]
            BY <1>2, <1>4, <1>10, <2>1, <2>2, <2>3, <3>2 DEF Cleared
        <3> QED BY <3>1, <3>2
    <2>5. ~Blameless(p)
        <3>1. SUFFICES ASSUME Blameless(p) PROVE FALSE
            OBVIOUS
        <3>2. Missing(p, name)
            BY <1>2, <1>10, <3>1 DEF Refused, Unblamed, Blameless, Granted
        <3>3. /\ i > 3 /\ (setup.lock \/ i <= 12) => Visible("test")
              /\ i \in 8 .. 13 /\ headed[p] = NoPod => Visible("test_copy")
            BY <1>2, <3>1 DEF Unblamed
        <3>4. CASE name \in {"get_object", "get_object_version", "head_object"}
            BY <1>3, <3>2, <3>3, <3>4 DEF Missing
        <3>5. CASE name = "copy_object"
            BY <1>3, <3>2, <3>3, <3>5 DEF Missing
        <3>6. CASE name = "delete_object_version"
            BY <1>3, <3>2, <3>3, <3>6 DEF Missing
        <3> QED BY <3>2, <3>4, <3>5, <3>6 DEF Missing
    <2>6. Unblamed(p)'
        BY <1>7, <2>5 DEF Unblamed
    <2> QED BY <2>4, <2>6
<1>11. CASE /\ Completes(p) /\ ~Refused(p, name) /\ ~HeadsFirst(p, name)
            /\ Effect(p, name) /\ NextOperation(p)
            /\ UNCHANGED <<headed, errors, faults>>
    <2>1. op'[p] = i + 1 /\ i + 1 \in Nat
        BY <1>2, <1>11 DEF NextOperation, TypeOK
    <2>2. ASSUME NEW k \in Keys, bucket'[k] = bucket[k]
          PROVE  Current(k)' = Current(k) /\ Versions(k)' = Versions(k)
        BY <2>2 DEF Current, Versions
    <2>3. /\ i \notin {3, 12} => bucket'["test"] = bucket["test"]
          /\ i = 12 /\ setup.lock => bucket'["test"] = bucket["test"]
          /\ i \notin {7, 13} => bucket'["test_copy"] = bucket["test_copy"]
          /\ i \notin {8, 14} => bucket'["uploaded_test"] = bucket["uploaded_test"]
          /\ i \notin {11, 15} => bucket'["testdirectory/"] = bucket["testdirectory/"]
        <3>1. Effect(p, name)
            BY <1>11
        <3> QED BY <1>3, <3>1, Untouched
    <2>4. /\ i = 3 => Current("test")' = p
          /\ i = 7 => /\ bucket'["test_copy"] # <<>> /\ Current("test_copy")' = p
                      /\ \A j \in DOMAIN bucket'["test_copy"] :
                            j # Len(bucket'["test_copy"]) =>
                                bucket'["test_copy"][j] \in Versions("test_copy")
          /\ i = 12 /\ ~setup.lock => Current("test")' \notin Pods
          /\ i = 13 => DeleteHeadedVersion(p)
          /\ i = 14 => Current("uploaded_test")' \notin Pods
          /\ i = 15 => Current("testdirectory/")' \notin Pods
        <3>1. /\ i = 3 => Put(p, "test")
              /\ i = 7 => Put(p, "test_copy")
              /\ i = 12 /\ ~setup.lock => Delete("test")
              /\ i = 13 => DeleteHeadedVersion(p)
              /\ i = 14 => Delete("uploaded_test")
              /\ i = 15 => Delete("testdirectory/")
            BY <1>3, <1>11 DEF Effect
        <3> QED BY <1>5, <3>1, PutShows, DeleteShows
    <2>5. Cleared(p)'
        <3>1. SUFFICES ASSUME setup.versioned, ~setup.lock, ~crossed[p], ~errors[p]
                       PROVE  Cleared(p)'
            BY <1>2, <1>4, <1>11, <2>1 DEF Cleared
        <3>2. /\ i \notin 8 .. 13 => p \notin Versions("test_copy")
              /\ i \in 8 .. 13 =>
                    /\ bucket["test_copy"] # <<>> /\ Current("test_copy") = p
                    /\ \A j \in DOMAIN bucket["test_copy"] :
                          bucket["test_copy"][j] = p => j = Len(bucket["test_copy"])
                    /\ headed[p] \in {NoPod, p}
              /\ i > 12 => Current("test") # p
              /\ i > 14 => Current("uploaded_test") # p
              /\ i < 13 => headed[p] = NoPod
            BY <1>2, <3>1 DEF Cleared
        <3>3. i + 1 \notin 8 .. 13 => p \notin Versions("test_copy")'
            <4>1. CASE i < 7 \/ i > 13
                BY <1>2, <1>5, <2>2, <2>3, <3>2, <4>1
            <4>2. CASE i = 13
                <5>1. headed[p] = p
                    BY <1>3, <1>11, <3>1, <3>2, <4>2 DEF HeadsFirst
                <5>2. DeleteVersion("test_copy", p)
                    BY <2>4, <4>2, <5>1, SetupsAssumption DEF DeleteHeadedVersion
                <5> QED BY <1>5, <3>2, <4>2, <5>2, DeleteVersionShows
            <4> QED BY <1>2, <4>1, <4>2
        <3>4. i + 1 \in 8 .. 13 =>
                  /\ bucket'["test_copy"] # <<>> /\ Current("test_copy")' = p
                  /\ \A j \in DOMAIN bucket'["test_copy"] :
                        bucket'["test_copy"][j] = p => j = Len(bucket'["test_copy"])
                  /\ headed'[p] \in {NoPod, p}
            <4>1. CASE i = 7
                BY <1>11, <2>4, <3>2, <4>1
            <4>2. CASE i \in 8 .. 12
                BY <1>5, <1>11, <2>2, <2>3, <3>2, <4>2
            <4> QED BY <1>2, <4>1, <4>2
        <3>5. i + 1 > 12 => Current("test")' # p
            <4>1. CASE i = 12
                BY <2>4, <3>1, <4>1
            <4>2. CASE i > 12
                BY <1>5, <2>2, <2>3, <3>2, <4>2
            <4> QED BY <1>2, <4>1, <4>2
        <3>6. i + 1 > 14 => Current("uploaded_test")' # p
            <4>1. CASE i = 14
                BY <2>4, <4>1
            <4>2. CASE i > 14
                BY <1>5, <2>2, <2>3, <3>2, <4>2
            <4> QED BY <1>2, <4>1, <4>2
        <3>7. i + 1 > 15 => Current("testdirectory/")' # p
            BY <1>2, <2>4
        <3>8. i + 1 < 13 => headed'[p] = NoPod
            BY <1>2, <1>11, <3>2
        <3> QED BY <1>2, <1>4, <2>1, <3>3, <3>4, <3>5, <3>6, <3>7, <3>8 DEF Cleared
    <2>6. Unblamed(p)'
        <3>1. SUFFICES ASSUME Blameless(p) PROVE Unblamed(p)'
            BY <1>7 DEF Unblamed
        <3>2. /\ ~errors[p] /\ credentials[p] = "good"
              /\ i > 3 /\ (setup.lock \/ i <= 12) => Visible("test")
              /\ i \in 8 .. 13 /\ headed[p] = NoPod => Visible("test_copy")
            BY <1>2, <3>1 DEF Unblamed
        <3>3. i + 1 > 3 /\ (setup.lock \/ i + 1 <= 12) => Visible("test")'
            <4>1. CASE i = 3
                BY <2>4, <4>1 DEF Visible
            <4>2. CASE i > 3 /\ (setup.lock \/ i + 1 <= 12)
                <5>1. bucket'["test"] = bucket["test"] /\ Visible("test")
                    BY <1>2, <2>3, <3>2, <4>2
                <5> QED BY <1>5, <2>2, <5>1 DEF Visible
            <4> QED BY <1>2, <4>1, <4>2
        <3>4. i + 1 \in 8 .. 13 /\ headed[p] = NoPod => Visible("test_copy")'
            <4>1. CASE i = 7
                BY <2>4, <4>1 DEF Visible
            <4>2. CASE i \in 8 .. 12 /\ headed[p] = NoPod
                <5>1. bucket'["test_copy"] = bucket["test_copy"] /\ Visible("test_copy")
                    BY <2>3, <3>2, <4>2
                <5> QED BY <1>5, <2>2, <5>1 DEF Visible
            <4> QED BY <1>2, <4>1, <4>2
        <3> QED BY <1>2, <1>4, <1>11, <2>1, <3>2, <3>3, <3>4 DEF Unblamed
    <2> QED BY <2>5, <2>6
<1> QED BY <1>1, <1>8, <1>9, <1>10, <1>11

-----------------------------------------------------------------------------
(* The other steps of a container, and those of the others. *)

\* Only an operation touches the bucket; "checkBucket" comes after "validate".
LEMMA BesidesOperations ==
    ASSUME TypeOK, NEW p \in Pods, StepOf(p), ~Operates(p)
    PROVE  /\ UNCHANGED <<bucket, op, headed, errors>>
           /\ at[p] \notin Ended
           /\ at'[p] = "checkBucket" => at[p] \in {"checkBucket", "validate"}
           /\ at[p] = "checkBucket" => at'[p] \in {"checkBucket"} \union Ended
           /\ crossed' = crossed \/ Validate(p)
<1> USE DEF bucketVars, Goto, TypeOK, Ended
<1>1. CASE MountStep(p) /\ UNCHANGED <<bucketVars, uploadVars, tree, detectVars>>
    BY <1>1 DEF MountStep, ReadForMount, WriteConf, FillConf, StartFuse, MountSeen,
                MountTimeout, RemoveConf
<1>2. CASE ValidatorStep(p)
    <2>1. CASE StartValidation(p)
        BY <2>1 DEF StartValidation
    <2>2. CASE Validate(p)
        BY <2>2 DEF Validate
    <2>3. CASE CheckMount(p) \/ ListRoot(p) \/ ReadFile(p) \/ CheckNFS(p) \/ BucketVerdict(p)
        BY <2>3 DEF CheckMount, ListRoot, ReadFile, CheckNFS, BucketVerdict
    <2> QED BY <1>2, <2>1, <2>2, <2>3 DEF ValidatorStep, Operates
<1>3. CASE UploadStep(p) /\ UNCHANGED <<bucketVars, tree, detectVars>>
    BY <1>3 DEF UploadStep, StartUpload, VerifyAccess, UploadFile, UploadVerdict
<1>4. CASE DetectorStep(p) /\ UNCHANGED <<bucketVars, uploadVars>>
    BY <1>4 DEF DetectorStep, StartPreScan, ProbeCluster, ReadCluster, ReadMeta,
                ReadBackup, ReadChild, ChildrenRead, PatchResult
<1>5. CASE Fuse(p)
    BY <1>5 DEF Fuse, FuseStep, FuseReads, FuseMounts, FuseCrashes
<1>6. CASE Killed(p)
    BY <1>6 DEF Killed
<1> QED BY <1>1, <1>2, <1>3, <1>4, <1>5, <1>6 DEF StepOf, Script

\* Who has seen another once keeps it in mind.
LEMMA CrossedKept ==
    ASSUME TypeOK, NEW q \in Pods, StepOf(q), NEW p \in Pods, crossed[p]
    PROVE  crossed'[p]
<1>1. CASE Validate(q)
    BY <1>1 DEF Validate
<1>2. CASE Operates(q)
    BY <1>2 DEF Operates, Completes, IsRefused, IsLost
<1> QED BY <1>1, <1>2, BesidesOperations

LEMMA SetupKept ==
    ASSUME NEW p \in Pods, StepOf(p)
    PROVE  UNCHANGED setup
<1>1. MountStep(p) => UNCHANGED setup
    BY DEF MountStep, ReadForMount, WriteConf, FillConf, StartFuse, MountSeen,
           MountTimeout, RemoveConf
<1>2. ValidatorStep(p) => UNCHANGED setup
    BY DEF ValidatorStep, StartValidation, Validate, CheckMount, ListRoot, ReadFile, CheckNFS,
           Completes, IsRefused, IsLost, BucketVerdict
<1>3. UploadStep(p) => UNCHANGED setup
    BY DEF UploadStep, StartUpload, VerifyAccess, UploadFile, UploadVerdict
<1>4. DetectorStep(p) => UNCHANGED setup
    BY DEF DetectorStep, StartPreScan, ProbeCluster, ReadCluster, ReadMeta,
           ReadBackup, ReadChild, ChildrenRead, PatchResult
<1>5. Fuse(p) \/ Killed(p) => UNCHANGED setup
    BY DEF Fuse, FuseStep, FuseReads, FuseMounts, FuseCrashes, Killed
<1> QED BY <1>1, <1>2, <1>3, <1>4, <1>5 DEF StepOf, Script

\* What a validator reads of its Target, when no call fails.
LEMMA GoodRead ==
    ASSUME TypeOK, NEW p \in Pods, setup.type = "ObjectStore", NEW calls, Reads(p, calls),
           faults'[p] = 0
    PROVE  ReadTarget(calls) = "good"
<1>1. \A c \in Calls : calls[c] = "ok"
    BY DEF Reads, OneMoreFault, TypeOK
<1>2. calls["target"] = "ok" /\ calls["certificate"] = "ok" /\ calls["secret"] = "ok"
    BY <1>1 DEF Calls
<1> QED BY <1>2 DEF ReadTarget, TargetResource, ParseResponse, CertificateRaised, SecretCredentials

LEMMA ScriptTidy ==
    ASSUME TypeOK, NEW p \in Pods, StepOf(p), ~Operates(p),
           OwnSteps(p), Unblamed(p), Cleared(p)
    PROVE  Unblamed(p)' /\ Cleared(p)'
<1>1. /\ UNCHANGED <<bucket, op, headed, errors, setup>>
      /\ at[p] \notin Ended
      /\ at'[p] = "checkBucket" => at[p] \in {"checkBucket", "validate"}
      /\ at[p] = "checkBucket" => at'[p] \in {"checkBucket"} \union Ended
      /\ crossed[p] => crossed'[p]
    BY BesidesOperations, CrossedKept, SetupKept
<1>2. UNCHANGED <<Versions("test_copy"), Current("test"), Current("test_copy"),
                  Current("uploaded_test"), Current("testdirectory/")>>
    BY <1>1 DEF Versions, Current
<1>3. at[p] # "checkBucket" => op[p] = 1
    BY <1>1 DEF Cleared
<1>4. op[p] = 1 => op'[p] \notin 8 .. 13 /\ op'[p] <= 3
    BY <1>1
<1>5. Cleared(p)'
    <2>1. at'[p] \notin Ended \union {"checkBucket"} => op'[p] = 1
        BY <1>1, <1>3
    <2> QED BY <1>1, <1>2, <1>3, <1>4, <2>1 DEF Cleared
<1>6. ASSUME Blameless(p)' PROVE Unblamed(p)'
    <2>1. /\ setup.kind[p] = "validateReporting" /\ setup.type = "ObjectStore"
          /\ faults'[p] = 0
        BY <1>1, <1>6 DEF Blameless
    <2>2. ~Killed(p)
        BY <2>1 DEF Killed, OneMoreFault, TypeOK
    <2>3. ~MountStep(p)
        <3>1. at[p] \notin MountSteps
            BY <2>1 DEF OwnSteps, MountsFirst
        <3> QED BY <3>1 DEF MountStep, ReadForMount, WriteConf, FillConf, StartFuse, MountSeen,
                            MountTimeout, RemoveConf, MountSteps
    <2>4. ~UploadStep(p)
        <3>1. at[p] \notin {"verifyAccess", "upload"}
            BY <2>1 DEF OwnSteps
        <3> QED BY <2>1, <3>1
                DEF UploadStep, StartUpload, VerifyAccess, UploadFile, UploadVerdict
    <2>5. ~DetectorStep(p)
        <3>1. at[p] \notin PreScanSteps
            BY <2>1 DEF OwnSteps
        <3> QED BY <2>1, <3>1
                DEF DetectorStep, StartPreScan, ProbeCluster, ReadCluster, ReadMeta, ReadBackup,
                    ReadChild, ChildrenRead, PatchResult, PreScanSteps
    <2>6. faults[p] = 0
        <3>1. CASE StartValidation(p)
            BY <2>1, <3>1 DEF StartValidation, Reads, OneMoreFault, TypeOK
        <3>2. CASE CheckNFS(p) \/ Fuse(p)
            BY <2>1, <3>2
               DEF CheckNFS, Fuse, FuseStep, FuseReads, FuseMounts, FuseCrashes, OneMoreFault,
                   TypeOK
        <3>3. CASE Validate(p) \/ CheckMount(p) \/ ListRoot(p) \/ ReadFile(p) \/ BucketVerdict(p)
            BY <2>1, <3>3 DEF Validate, CheckMount, ListRoot, ReadFile, BucketVerdict
        <3> QED BY <2>2, <2>3, <2>4, <2>5, <3>1, <3>2, <3>3
                DEF StepOf, Script, ValidatorStep, Operates
    <2>7. Blameless(p)
        BY <1>1, <1>6, <2>1, <2>6, GrantedKept DEF Blameless
    <2>8. /\ at[p] # "failed" /\ ~errors[p]
          /\ at[p] \in {"validate", "checkBucket"} => credentials[p] = "good"
        BY <2>7 DEF Unblamed
    <2>9. /\ at'[p] # "failed"
          /\ at'[p] \in {"validate", "checkBucket"} => credentials'[p] = "good"
        <3>1. CASE StartValidation(p)
            <4>1. PICK calls \in [Calls -> Retry(p)] :
                      /\ Reads(p, calls)
                      /\ credentials' = [credentials EXCEPT ![p] =
                            IF ReadTarget(calls) \in Found THEN ReadTarget(calls) ELSE "none"]
                      /\ Goto(p, IF ReadTarget(calls) \in Found THEN "validate" ELSE "failed")
                BY <3>1 DEF StartValidation
            <4>2. ReadTarget(calls) = "good"
                BY <2>1, <4>1, GoodRead
            <4> QED BY <4>1, <4>2 DEF Found, Goto, TypeOK
        <3>2. CASE Validate(p)
            BY <2>1, <2>8, <3>2 DEF Validate, Goto, TypeOK
        <3>3. CASE CheckMount(p) \/ ListRoot(p) \/ ReadFile(p) \/ CheckNFS(p)
            BY <2>1, <3>3 DEF CheckMount, ListRoot, ReadFile, CheckNFS, OwnSteps
        <3>4. CASE BucketVerdict(p)
            BY <2>8, <3>4 DEF BucketVerdict, Goto, TypeOK
        <3>5. CASE Fuse(p)
            BY <2>8, <3>5 DEF Fuse, FuseStep, FuseReads, FuseMounts, FuseCrashes
        <3> QED BY <2>2, <2>3, <2>4, <2>5, <3>1, <3>2, <3>3, <3>4, <3>5
                DEF StepOf, Script, ValidatorStep, Operates
    <2>10. at'[p] = "checkBucket" =>
               /\ op'[p] > 3 /\ (setup'.lock \/ op'[p] <= 12) => Visible("test")'
               /\ op'[p] \in 8 .. 13 /\ headed'[p] = NoPod => Visible("test_copy")'
        <3>1. CASE at[p] = "checkBucket"
            BY <1>1, <1>2, <2>7, <3>1 DEF Unblamed, Visible
        <3>2. CASE at[p] # "checkBucket"
            BY <1>1, <1>3, <3>2
        <3> QED BY <3>1, <3>2
    <2> QED BY <1>1, <2>8, <2>9, <2>10 DEF Unblamed
<1> QED BY <1>5, <1>6 DEF Unblamed

LEMMA OthersLeft ==
    ASSUME TypeOK, NEW q \in Pods, NEW p \in Pods, p # q, StepOf(q)
    PROVE  /\ UNCHANGED <<setup, at[p], op[p], errors[p]>>
           /\ UNCHANGED <<headed[p], credentials[p]>>
           /\ faults'[p] = faults[p]
<1>0. UNCHANGED <<setup, at[p], op[p], errors[p]>>
    BY OfOthers DEF Own
<1> USE DEF TypeOK, bucketVars, OneMoreFault, Reads
<1>1. CASE MountStep(q) /\ UNCHANGED <<bucketVars, uploadVars, tree, detectVars>>
    BY <1>0, <1>1 DEF MountStep, ReadForMount, WriteConf, FillConf, StartFuse, MountSeen,
                      MountTimeout, RemoveConf
<1>2. CASE ValidatorStep(q)
    <2>1. CASE StartValidation(q)
        BY <1>0, <2>1 DEF StartValidation
    <2>2. CASE Validate(q) \/ CheckMount(q) \/ ListRoot(q) \/ ReadFile(q) \/ CheckNFS(q)
               \/ BucketVerdict(q)
        BY <1>0, <2>2 DEF Validate, CheckMount, ListRoot, ReadFile, CheckNFS, BucketVerdict
    <2>3. CASE Operates(q)
        BY <1>0, <2>3 DEF Operates, Completes, IsRefused, IsLost
    <2> QED BY <1>2, <2>1, <2>2, <2>3 DEF ValidatorStep, Operates
<1>3. CASE UploadStep(q) /\ UNCHANGED <<bucketVars, tree, detectVars>>
    BY <1>0, <1>3 DEF UploadStep, StartUpload, VerifyAccess, UploadFile, UploadVerdict
<1>4. CASE DetectorStep(q) /\ UNCHANGED <<bucketVars, uploadVars>>
    BY <1>0, <1>4 DEF DetectorStep, StartPreScan, ProbeCluster, ReadCluster, ReadMeta,
                      ReadBackup, ReadChild, ChildrenRead, PatchResult
<1>5. CASE Fuse(q)
    BY <1>0, <1>5 DEF Fuse, FuseStep, FuseReads, FuseMounts, FuseCrashes
<1>6. CASE Killed(q)
    BY <1>0, <1>6 DEF Killed
<1> QED BY <1>1, <1>2, <1>3, <1>4, <1>5, <1>6 DEF StepOf, Script

LEMMA BucketOfOther ==
    ASSUME TypeOK, NEW q \in Pods, StepOf(q), bucket' # bucket
    PROVE  at[q] = "checkBucket" /\ \E name : Effect(q, name)
<1>1. Operates(q)
    BY BesidesOperations
<1> QED BY <1>1 DEF Operates, Completes, IsRefused, IsLost, AtOperation

LEMMA TidyOfOthers ==
    ASSUME TypeOK, NEW q \in Pods, NEW p \in Pods, p # q, StepOf(q),
           Undisturbed(p), Unblamed(p), Cleared(p)
    PROVE  Unblamed(p)' /\ Cleared(p)'
<1>1. /\ UNCHANGED <<setup, at[p], op[p], errors[p]>>
      /\ UNCHANGED <<headed[p], credentials[p]>>
      /\ faults'[p] = faults[p]
      /\ crossed[p] => crossed'[p]
    BY OthersLeft, CrossedKept
<1>2. /\ p \notin Versions("test_copy") => p \notin Versions("test_copy")'
      /\ \A k \in Keys \ {"test_copy"} : Current(k) # p => Current(k)' # p
    <2>1. CASE bucket' = bucket
        BY <2>1 DEF Versions, Current
    <2>2. CASE bucket' # bucket
        BY <2>2, BucketOfOther, EffectOfOther
    <2> QED BY <2>1, <2>2
<1>3. at[p] = "checkBucket" /\ ~crossed'[p] => bucket' = bucket
    BY <1>1, BucketOfOther DEF Undisturbed
<1>4. {"test", "uploaded_test", "testdirectory/"} \subseteq Keys \ {"test_copy"}
    BY DEF Keys
<1>5. Cleared(p)'
    <2>1. CASE at[p] = "checkBucket" /\ ~crossed'[p]
        <3>1. UNCHANGED <<bucket, Versions("test_copy"), Current("test"), Current("test_copy"),
                          Current("uploaded_test"), Current("testdirectory/")>>
            BY <1>3, <2>1 DEF Versions, Current
        <3> QED BY <1>1, <3>1 DEF Cleared
    <2>2. CASE ~(at[p] = "checkBucket" /\ ~crossed'[p])
        BY <1>1, <1>2, <1>4, <2>2 DEF Cleared
    <2> QED BY <2>1, <2>2
<1>6. Unblamed(p)'
    <2>1. Blameless(p)' => Blameless(p) /\ ~crossed'[p]
        BY <1>1, GrantedKept DEF Blameless
    <2>2. at[p] = "checkBucket" /\ ~crossed'[p] =>
              UNCHANGED <<Visible("test"), Visible("test_copy")>>
        BY <1>3 DEF Visible, Current
    <2> QED BY <1>1, <2>1, <2>2 DEF Unblamed
<1> QED BY <1>5, <1>6

LEMMA EntersByValidate ==
    ASSUME TypeOK, NEW p \in Pods, StepOf(p), at[p] = "validate", at'[p] = "checkBucket"
    PROVE  Validate(p)
<1> USE DEF Goto, TypeOK
<1>1. ~MountStep(p)
    BY DEF MountStep, ReadForMount, WriteConf, FillConf, StartFuse, MountSeen, MountTimeout,
           RemoveConf
<1>2. ~UploadStep(p) /\ ~DetectorStep(p)
    BY DEF UploadStep, StartUpload, VerifyAccess, UploadFile, UploadVerdict, DetectorStep,
           StartPreScan, ProbeCluster, ReadCluster, ReadMeta, ReadBackup, ReadChild,
           ChildrenRead, PatchResult
<1>3. ~Fuse(p) /\ ~Killed(p)
    BY DEF Fuse, FuseStep, FuseReads, FuseMounts, FuseCrashes, Killed
<1>4. ValidatorStep(p) => Validate(p)
    BY DEF ValidatorStep, StartValidation, CheckMount, ListRoot, ReadFile, CheckNFS,
           Completes, IsRefused, IsLost, BucketVerdict, AtOperation
<1> QED BY <1>1, <1>2, <1>3, <1>4 DEF StepOf, Script

LEMMA UndisturbedNext ==
    ASSUME TypeOK, NEW q \in Pods, StepOf(q), \A p \in Pods : Undisturbed(p)
    PROVE  \A p \in Pods : Undisturbed(p)'
<1>1. \A p \in Pods \ {q} : at'[p] = at[p]
    BY OthersLeft
<1>2. \A p \in Pods : crossed[p] => crossed'[p]
    BY CrossedKept
<1>3. SUFFICES ASSUME NEW p \in Pods, NEW r \in Pods \ {p},
                      at'[p] = "checkBucket", at'[r] = "checkBucket"
               PROVE  crossed'[p]
    BY DEF Undisturbed
<1>4. CASE at[p] = "checkBucket" /\ at[r] = "checkBucket"
    BY <1>2, <1>4 DEF Undisturbed
<1>5. CASE at'[q] = "checkBucket" /\ at[q] # "checkBucket"
    <2>1. Validate(q)
        <3>1. at[q] = "validate"
            BY <1>5, BesidesOperations DEF Operates, Completes, IsRefused, IsLost, AtOperation
        <3> QED BY <1>5, <3>1, EntersByValidate
    <2>2. \E t \in Pods \ {q} : at[t] = "checkBucket"
        BY <1>1, <1>3
    <2>3. q = p \/ at[p] = "checkBucket"
        BY <1>1, <1>3
    <2> QED BY <1>5, <2>1, <2>2, <2>3 DEF Validate
<1> QED BY <1>1, <1>3, <1>4, <1>5

LEMMA TidyInit == Init => Tidy
<1> SUFFICES ASSUME Init, NEW p \in Pods
             PROVE  Undisturbed(p) /\ Unblamed(p) /\ Cleared(p)
    BY DEF Tidy
<1>1. at[p] \in {"absent", "readForMount", "main"}
    BY DEF Init, TargetInit, FirstStep
<1>2. op[p] = 1 /\ headed[p] = NoPod /\ ~errors[p] /\ bucket["test_copy"] = <<>>
    BY DEF Init, ValidatorInit, Keys
<1>3. p \notin Versions("test_copy")
    BY <1>2 DEF Versions
<1> QED BY <1>1, <1>2, <1>3 DEF Undisturbed, Unblamed, Cleared

LEMMA TidyNext == TypeOK /\ Inv /\ Tidy /\ [Next]_vars => Tidy'
<1> SUFFICES ASSUME TypeOK, Inv, Tidy, [Next]_vars PROVE Tidy'
    OBVIOUS
<1>1. ASSUME NEW q \in Pods, StepOf(q) PROVE Tidy'
    <2>1. \A p \in Pods : Undisturbed(p)'
        BY <1>1, UndisturbedNext DEF Tidy
    <2>2. Unblamed(q)' /\ Cleared(q)'
        BY <1>1, OperationTidy, ScriptTidy DEF Tidy, Inv
    <2>3. \A p \in Pods \ {q} : Unblamed(p)' /\ Cleared(p)'
        BY <1>1, TidyOfOthers DEF Tidy
    <2> QED BY <2>1, <2>2, <2>3 DEF Tidy
<1>2. CASE Retention \/ UNCHANGED vars
    <2>1. UNCHANGED <<setup, at, credentials, faults, bucket, op, headed, errors, crossed>>
        BY <1>2 DEF Retention, RetentionDeletes, vars, bucketVars
    <2> QED BY <2>1, GrantedKept
            DEF Tidy, Undisturbed, Unblamed, Blameless, Cleared, Visible, Versions, Current
<1> QED BY <1>1, <1>2 DEF Next, StepOf

LEMMA TidyAlways == Spec => [](TypeOK /\ Inv /\ Tidy)
<1>1. Init => TypeOK /\ Inv /\ Tidy
    BY TypeInit, InvInit, TidyInit
<1>2. TypeOK /\ Inv /\ Tidy /\ [Next]_vars => (TypeOK /\ Inv /\ Tidy)'
    BY TypeNext, InvNext, TidyNext
<1> QED BY <1>1, <1>2, PTL DEF Spec

\* A validator that met no fault of the cluster and no other validator finds fault
\* with a reporting target only when a permission is missing, whatever others have
\* left in the bucket (utilities.py:745-802).
THEOREM NoFalseAlarm == Spec => []FailureExplained
<1>1. Tidy => FailureExplained
    BY DEF Tidy, Unblamed, Blameless, Granted, FailureExplained
<1> QED BY <1>1, TidyAlways, PTL

\* Without a lock a validator that is past the list has made all operations.
LEMMA PastAll ==
    ASSUME NEW n \in Nat, n > 0, ~setup.lock, n \notin DOMAIN Operations
    PROVE  n > 15
<1>1. DOMAIN Operations = 1 .. 15
    BY OperationsListed DEF Listed
<1> QED BY <1>1

\* What a validator has put in a bucket with versions is covered or deleted when it
\* succeeds, and nothing that others do uncovers it again (utilities.py:758-763).
THEOREM NothingShows == Spec => []NothingLeft
<1>1. ASSUME TypeOK, Inv, Tidy PROVE NothingLeft
    <2>1. SUFFICES ASSUME NEW p \in Pods, at[p] = "succeeded",
                          setup.kind[p] = "validateReporting", setup.versioned, ~setup.lock,
                          ~crossed[p], NEW k \in Keys
                   PROVE  Current(k) # p
        BY DEF NothingLeft
    <2>2. ~errors[p] /\ op[p] \notin DOMAIN Operations /\ op[p] > 0
        BY <1>1, <2>1 DEF Inv, Tried
    <2>3. op[p] \in Nat /\ op[p] > 15
        <3>1. op[p] \in Nat
            BY <1>1 DEF TypeOK
        <3> QED BY <2>1, <2>2, <3>1, PastAll
    <2>4. /\ p \notin Versions("test_copy") /\ Current("test") # p
          /\ Current("uploaded_test") # p /\ Current("testdirectory/") # p
        BY <1>1, <2>1, <2>2, <2>3 DEF Tidy, Cleared
    <2>5. Current("test_copy") # p
        <3>1. bucket["test_copy"] \in Seq(Pods \union {"marker"})
            BY <1>1 DEF TypeOK, Keys
        <3> QED BY <2>4, <3>1, SetupsAssumption DEF Current, Versions
    <2> QED BY <2>4, <2>5 DEF Keys
<1> QED BY <1>1, TidyAlways, PTL
=============================================================================
