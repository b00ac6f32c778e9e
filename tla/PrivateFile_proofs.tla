-------------------------- MODULE PrivateFile_proofs --------------------------
(***************************************************************************)
(* The safety properties of PrivateFile, for any number of writers.  They  *)
(* are inductive together with PlaceOf: what a call has done by the time   *)
(* it is at a step.                                                        *)
(***************************************************************************)
EXTENDS PrivateFile, TLAPS

\* Before the creation there is no temporary file; then it is this call's, with
\* the permissions and the owner of the steps that are over.
PlaceOf(w) ==
  /\ tmp[w] = NoFile \/ tmp[w].by = w
  /\ pc[w] \in {"begin", "create"} => tmp[w] = NoFile /\ errs[w] = {}
  /\ pc[w] \in {"chmod", "owner", "write", "sync", "close", "rename"} => tmp[w].by = w /\ errs[w] = {}
  /\ pc[w] \in {"chmod", "owner"} => tmp[w].data = "none"
  /\ pc[w] \in {"owner", "write", "sync", "close", "rename"} => tmp[w].mode = "0600"
  /\ pc[w] \in {"write", "sync", "close", "rename"} => tmp[w].uid = owner[w]
  /\ pc[w] \in {"sync", "close", "rename"} => tmp[w].data = "whole"
  /\ pc[w] \in {"close", "rename"} => tmp[w].synced
  /\ tmp[w].data # "none" => tmp[w].mode = "0600" /\ tmp[w].uid = owner[w]
  /\ pc[w] = "returned" => tmp[w] = NoFile \/ "remove" \in errs[w]

\* What is at the path was put there by a call that returned with no error, or
\* by what was there before all of them.
IsPublished(file) ==
  /\ file # NoFile => file.data = "whole" /\ file.synced /\ Private(file)
  /\ file.by \in Writers => pc[file.by] = "returned" /\ errs[file.by] = {}

IInv == TypeOK /\ (\A w \in Writers : PlaceOf(w)) /\ IsPublished(path) /\ IsPublished(disk)

LEMMA InitInvariant == Init => IInv
<1>1. SUFFICES ASSUME Init PROVE IInv
  OBVIOUS
<1>2. NoFile \in Files /\ OldFile \in Files
  BY DEF NoFile, OldFile, File, Files
<1>3. TypeOK
  BY <1>1, <1>2 DEF Init, TypeOK, Steps
<1>4. ASSUME NEW w \in Writers PROVE PlaceOf(w)
  BY <1>1 DEF Init, PlaceOf, NoFile, File
<1>5. IsPublished(NoFile) /\ IsPublished(OldFile)
  BY WritersAssumption DEF IsPublished, Private, NoFile, OldFile, File
<1>6. QED
  BY <1>1, <1>3, <1>4, <1>5 DEF Init, IInv

-----------------------------------------------------------------------------

\* The invariant implies the properties.
LEMMA InvariantImplies ==
  IInv => TypeOK /\ PathIsWhole /\ SecretsArePrivate /\ ReturnsTellTheTruth
<1>1. SUFFICES ASSUME IInv PROVE PathIsWhole /\ SecretsArePrivate /\ ReturnsTellTheTruth
  BY DEF IInv
<1>2. PathIsWhole
  BY <1>1 DEF IInv, IsPublished, PathIsWhole
<1>3. SecretsArePrivate
  BY <1>1, WritersAssumption
  DEF IInv, TypeOK, PlaceOf, SecretsArePrivate, Private, NoFile, File, Files
<1>4. ReturnsTellTheTruth
  BY <1>1 DEF IInv, TypeOK, PlaceOf, IsPublished, ReturnsTellTheTruth
<1>5. QED
  BY <1>2, <1>3, <1>4

-----------------------------------------------------------------------------

\* A step of one call that leaves the path alone.
Local(w) ==
  /\ pc[w] # "returned" /\ UNCHANGED <<path, disk>>
  /\ \A v \in Writers \ {w} :
       pc'[v] = pc[v] /\ owner'[v] = owner[v] /\ tmp'[v] = tmp[v] /\ errs'[v] = errs[v]

LEMMA LocalStep ==
  ASSUME IInv, TypeOK', NEW w \in Writers, Local(w), PlaceOf(w)'
  PROVE  IInv'
<1>1. \A v \in Writers : PlaceOf(v)'
  BY DEF IInv, Local, PlaceOf
<1>2. ASSUME NEW file \in {path, disk}, IsPublished(file)
      PROVE  IsPublished(file)'
  BY <1>2 DEF IInv, TypeOK, IsPublished, Local, Private
<1>3. path' = path /\ disk' = disk
  BY DEF Local
<1>4. IsPublished(path)' /\ IsPublished(disk)'
  BY <1>3 DEF IInv, TypeOK, IsPublished, Local, Private
<1>5. QED
  BY <1>1, <1>4 DEF IInv

LEMMA SyncedFile ==
  ASSUME NEW f \in Files
  PROVE  LET g == [f EXCEPT !.synced = TRUE]
         IN g \in Files /\ g.by = f.by /\ g.data = f.data /\ g.mode = f.mode /\ g.uid = f.uid /\ g.synced = TRUE
BY DEF Files

LEMMA WriteInvariant ==
  ASSUME IInv, NEW w \in Writers, Write(w)
  PROVE  IInv'
<1> USE DEF Goto, Edit, Fails, Files, Steps, File, NoFile
<1>1. CASE writeCapture(w)
  <2>1. PICK euid \in {"root", "user"}, ids \in {"unset", "valid", "malformed"} :
          \/ /\ pc' = [pc EXCEPT ![w] = "returned"] /\ errs' = [errs EXCEPT ![w] = {"begin"}]
             /\ UNCHANGED owner
          \/ /\ pc' = [pc EXCEPT ![w] = "create"] /\ UNCHANGED errs
             /\ owner' = [owner EXCEPT ![w] = "sudo"] \/ owner' = [owner EXCEPT ![w] = "nil"]
    BY <1>1 DEF writeCapture, captureOwnership
  <2>2. pc[w] = "begin" /\ UNCHANGED <<closed, tmp, path, disk>>
    BY <1>1 DEF writeCapture
  <2>3. TypeOK'
    BY <2>1, <2>2 DEF IInv, TypeOK
  <2>4. PlaceOf(w)' /\ Local(w)
    BY <2>1, <2>2 DEF IInv, TypeOK, PlaceOf, Local
  <2>5. QED
    BY <2>3, <2>4, LocalStep
<1>2. CASE execute(w)
  <2>1. TypeOK'
    BY <1>2 DEF IInv, TypeOK, execute
  <2>2. PlaceOf(w)' /\ Local(w)
    BY <1>2 DEF IInv, TypeOK, PlaceOf, Local, execute
  <2>3. QED
    BY <2>1, <2>2, LocalStep
<1>3. CASE CreateTemp(w)
  <2> DEFINE file == File(w, "none", "created", "nil", FALSE)
  <2>1. file \in Files
    BY DEF IInv, TypeOK
  <2>2. tmp' = [tmp EXCEPT ![w] = file]
    BY <1>3 DEF CreateTemp
  <2>3. file.by = w /\ file.data = "none"
    BY DEF IInv, TypeOK
  <2> HIDE DEF file
  <2>4. TypeOK'
    BY <1>3, <2>1, <2>2 DEF IInv, TypeOK, CreateTemp
  <2>5. PlaceOf(w)' /\ Local(w)
    BY <1>3, <2>1, <2>2, <2>3 DEF IInv, TypeOK, PlaceOf, Local, CreateTemp
  <2>6. QED
    BY <2>4, <2>5, LocalStep
<1>4. CASE CreateFails(w)
  <2>1. TypeOK'
    BY <1>4 DEF IInv, TypeOK, CreateFails
  <2>2. PlaceOf(w)' /\ Local(w)
    BY <1>4 DEF IInv, TypeOK, PlaceOf, Local, CreateFails
  <2>3. QED
    BY <2>1, <2>2, LocalStep
<1>5. CASE Chmod(w)
  <2> DEFINE file == [tmp[w] EXCEPT !.mode = "0600"]
  <2>1. file \in Files
    BY DEF IInv, TypeOK
  <2>2. tmp' = [tmp EXCEPT ![w] = file]
    BY <1>5 DEF Chmod
  <2>3. file.by = tmp[w].by /\ file.data = tmp[w].data /\ file.uid = tmp[w].uid /\ file.synced = tmp[w].synced /\ file.mode = "0600"
    BY DEF IInv, TypeOK
  <2> HIDE DEF file
  <2>4. TypeOK'
    BY <1>5, <2>1, <2>2 DEF IInv, TypeOK, Chmod
  <2>5. PlaceOf(w)' /\ Local(w)
    BY <1>5, <2>1, <2>2, <2>3 DEF IInv, TypeOK, PlaceOf, Local, Chmod
  <2>6. QED
    BY <2>4, <2>5, LocalStep
<1>6. CASE Chown(w)
  <2> DEFINE file == [tmp[w] EXCEPT !.uid = owner[w]]
  <2>1. file \in Files
    BY DEF IInv, TypeOK
  <2>2. tmp' = [tmp EXCEPT ![w] = file]
    BY <1>6 DEF Chown
  <2>3. file.by = tmp[w].by /\ file.data = tmp[w].data /\ file.mode = tmp[w].mode /\ file.synced = tmp[w].synced /\ file.uid = owner[w]
    BY DEF IInv, TypeOK
  <2> HIDE DEF file
  <2>4. TypeOK'
    BY <1>6, <2>1, <2>2 DEF IInv, TypeOK, Chown
  <2>5. PlaceOf(w)' /\ Local(w)
    BY <1>6, <2>1, <2>2, <2>3 DEF IInv, TypeOK, PlaceOf, Local, Chown
  <2>6. QED
    BY <2>4, <2>5, LocalStep
<1>7. CASE WriteData(w)
  <2> DEFINE file == [tmp[w] EXCEPT !.data = "whole"]
  <2>1. file \in Files
    BY DEF IInv, TypeOK
  <2>2. tmp' = [tmp EXCEPT ![w] = file]
    BY <1>7 DEF WriteData
  <2>3. file.by = tmp[w].by /\ file.mode = tmp[w].mode /\ file.uid = tmp[w].uid /\ file.synced = tmp[w].synced /\ file.data = "whole"
    BY DEF IInv, TypeOK
  <2> HIDE DEF file
  <2>4. TypeOK'
    BY <1>7, <2>1, <2>2 DEF IInv, TypeOK, WriteData
  <2>5. PlaceOf(w)' /\ Local(w)
    BY <1>7, <2>1, <2>2, <2>3 DEF IInv, TypeOK, PlaceOf, Local, WriteData
  <2>6. QED
    BY <2>4, <2>5, LocalStep
<1>8. CASE WriteFails(w)
  <2>1. PICK data \in {"none", "part"} : tmp' = [tmp EXCEPT ![w] = [tmp[w] EXCEPT !.data = data]]
    BY <1>8 DEF WriteFails
  <2>2. TypeOK'
    BY <1>8, <2>1 DEF IInv, TypeOK, WriteFails
  <2>3. PlaceOf(w)' /\ Local(w)
    BY <1>8, <2>1 DEF IInv, TypeOK, PlaceOf, Local, WriteFails
  <2>4. QED
    BY <2>2, <2>3, LocalStep
<1>9. CASE Sync(w)
  <2> DEFINE file == [tmp[w] EXCEPT !.synced = TRUE]
  <2>1. tmp[w] \in Files
    BY DEF IInv, TypeOK
  <2>2. file \in Files /\ file.by = tmp[w].by /\ file.data = tmp[w].data /\ file.mode = tmp[w].mode
        /\ file.uid = tmp[w].uid /\ file.synced = TRUE
    BY <2>1, SyncedFile
  <2>3. pc[w] = "sync" /\ pc' = [pc EXCEPT ![w] = "close"] /\ tmp' = [tmp EXCEPT ![w] = file]
        /\ UNCHANGED <<owner, closed, errs, path, disk>>
    BY <1>9 DEF Sync
  <2> HIDE DEF file, Files
  <2>4. TypeOK'
    BY <2>2, <2>3 DEF IInv, TypeOK
  <2>5. PlaceOf(w)' /\ Local(w)
    BY <2>2, <2>3 DEF IInv, TypeOK, PlaceOf, Local
  <2>6. QED
    BY <2>4, <2>5, LocalStep
<1>10. CASE Close(w)
  <2>1. TypeOK'
    BY <1>10 DEF IInv, TypeOK, Close
  <2>2. PlaceOf(w)' /\ Local(w)
    BY <1>10 DEF IInv, TypeOK, PlaceOf, Local, Close
  <2>3. QED
    BY <2>1, <2>2, LocalStep
<1>11. CASE Rename(w)
  <2>1. TypeOK'
    BY <1>11 DEF IInv, TypeOK, Rename
  <2>2. ASSUME NEW v \in Writers PROVE PlaceOf(v)'
    <3>1. /\ tmp' = [tmp EXCEPT ![w] = NoFile] /\ pc' = [pc EXCEPT ![w] = "returned"]
          /\ errs' = errs /\ owner' = owner
      BY <1>11 DEF Rename
    <3>2. NoFile.data = "none"
      OBVIOUS
    <3> HIDE DEF NoFile
    <3>3. CASE v = w
      BY <3>1, <3>2, <3>3 DEF IInv, TypeOK, PlaceOf
    <3>4. CASE v # w
      BY <3>1, <3>4 DEF IInv, TypeOK, PlaceOf
    <3>5. QED
      BY <3>3, <3>4
  <2>3. tmp[w].by = w /\ tmp[w].data = "whole" /\ tmp[w].synced /\ Private(tmp[w]) /\ errs[w] = {}
    BY <1>11 DEF IInv, TypeOK, PlaceOf, Rename, Private
  <2>4. /\ path' = tmp[w] /\ disk' = disk /\ errs' = errs /\ owner' = owner
        /\ pc' = [pc EXCEPT ![w] = "returned"]
    BY <1>11 DEF Rename
  <2>5. IsPublished(path)'
    BY <2>3, <2>4 DEF IInv, TypeOK, IsPublished, Private
  <2>6. IsPublished(disk)'
    BY <2>4 DEF IInv, TypeOK, IsPublished, Private
  <2>7. QED
    BY <2>1, <2>2, <2>5, <2>6 DEF IInv
<1>12. CASE StepFails(w)
  <2>1. TypeOK'
    BY <1>12 DEF IInv, TypeOK, StepFails
  <2>2. PlaceOf(w)' /\ Local(w)
    BY <1>12 DEF IInv, TypeOK, PlaceOf, Local, StepFails
  <2>3. QED
    BY <2>1, <2>2, LocalStep
<1>13. CASE DeferClose(w)
  <2>1. TypeOK'
    BY <1>13 DEF IInv, TypeOK, DeferClose
  <2>2. PlaceOf(w)' /\ Local(w)
    BY <1>13 DEF IInv, TypeOK, PlaceOf, Local, DeferClose
  <2>3. QED
    BY <2>1, <2>2, LocalStep
<1>14. CASE DeferRemove(w)
  <2>1. /\ pc[w] = "remove" /\ pc' = [pc EXCEPT ![w] = "returned"]
        /\ UNCHANGED <<owner, closed, path, disk>>
        /\ \/ tmp' = [tmp EXCEPT ![w] = NoFile] /\ errs' = errs
           \/ tmp' = tmp /\ errs' = [errs EXCEPT ![w] = @ \cup {"remove"}]
    BY <1>14 DEF DeferRemove
  <2>2. NoFile \in Files /\ NoFile.data = "none"
    OBVIOUS
  <2> HIDE DEF NoFile
  <2>3. TypeOK'
    BY <2>1, <2>2 DEF IInv, TypeOK
  <2>4. PlaceOf(w)' /\ Local(w)
    BY <2>1, <2>2 DEF IInv, TypeOK, PlaceOf, Local
  <2>5. QED
    BY <2>3, <2>4, LocalStep
<1>15. QED
  BY <1>1, <1>2, <1>3, <1>4, <1>5, <1>6, <1>7, <1>8, <1>9, <1>10, <1>11, <1>12, <1>13, <1>14 DEF Write

-----------------------------------------------------------------------------

\* A power failure takes nothing of a file that was synced.
LEMMA PowerInvariant == IInv /\ PowerFails => IInv'
<1>1. SUFFICES ASSUME IInv, PowerFails PROVE IInv'
  OBVIOUS
<1>2. disk.synced \/ disk = NoFile
  BY <1>1 DEF IInv, IsPublished
<1>3. /\ path' = disk /\ disk' = disk /\ UNCHANGED <<owner, closed, tmp, errs>>
      /\ pc' = [w \in Writers |-> IF pc[w] \in Steps THEN "dead" ELSE pc[w]]
  BY <1>1, <1>2 DEF PowerFails
<1>4. TypeOK'
  BY <1>1, <1>3 DEF IInv, TypeOK, Steps
<1>5. \A w \in Writers : PlaceOf(w)'
  BY <1>1, <1>3 DEF IInv, TypeOK, PlaceOf, Steps
<1>6. IsPublished(path)' /\ IsPublished(disk)'
  BY <1>1, <1>3 DEF IInv, TypeOK, IsPublished, Private, Steps
<1>7. QED
  BY <1>4, <1>5, <1>6 DEF IInv

LEMMA NextInvariant == IInv /\ [Next]_vars => IInv'
<1>1. SUFFICES ASSUME IInv, [Next]_vars PROVE IInv'
  OBVIOUS
<1>2. ASSUME NEW w \in Writers, Write(w) PROVE IInv'
  BY <1>1, <1>2, WriteInvariant
<1>3. ASSUME NEW w \in Writers, Killed(w) PROVE IInv'
  <2>1. TypeOK'
    BY <1>1, <1>3 DEF IInv, TypeOK, Killed, Goto, Steps
  <2>2. PlaceOf(w)' /\ Local(w)
    BY <1>1, <1>3 DEF IInv, TypeOK, PlaceOf, Local, Killed, Goto, Steps
  <2>3. QED
    BY <1>1, <2>1, <2>2, LocalStep
<1>4. CASE Flush
  BY <1>1, <1>4 DEF IInv, TypeOK, PlaceOf, IsPublished, Private, Flush
<1>5. CASE PowerFails
  BY <1>1, <1>5, PowerInvariant
<1>6. CASE UNCHANGED vars
  BY <1>1, <1>6 DEF IInv, TypeOK, PlaceOf, IsPublished, Private, vars
<1>7. QED
  BY <1>1, <1>2, <1>3, <1>4, <1>5, <1>6 DEF Next

LEMMA Invariance == Spec => []IInv
BY InitInvariant, NextInvariant, PTL DEF Spec

\* Every call of Write keeps its types.
THEOREM FileTypeOK == Spec => []TypeOK
BY Invariance, InvariantImplies, PTL

\* However many processes write a path, and whenever they are killed or the
\* power fails, the path names nothing, the old file or the whole of one call's.
THEOREM FilePathIsWhole == Spec => []PathIsWhole
BY Invariance, InvariantImplies, PTL

\* A temporary file that holds anything has its permissions and its owner.
THEOREM FileSecretsArePrivate == Spec => []SecretsArePrivate
BY Invariance, InvariantImplies, PTL

\* A call that returns an error has published nothing, and one that leaves its
\* temporary file says so.
THEOREM FileReturnsTellTheTruth == Spec => []ReturnsTellTheTruth
BY Invariance, InvariantImplies, PTL
=============================================================================
