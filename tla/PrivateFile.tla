----------------------------- MODULE PrivateFile -----------------------------
(***************************************************************************)
(* privatefile.Write as the probe and goodix-dpapi call it: a temporary    *)
(* file is made private, given its owner, written, synced and closed, then *)
(* renamed over the path.  Each system call is an action and may fail;     *)
(* several processes write the same path; a process is killed or the power *)
(* fails between any two calls.                                            *)
(***************************************************************************)
EXTENDS Naturals

CONSTANT Writers   \* calls of Write

\* A writer is not one of the names that say where a file comes from.
ASSUME WritersAssumption == {"none", "old"} \cap Writers = {}

VARIABLES
  pc,        \* of each call: the next step, "returned" or "dead"
  owner,     \* the owner asked for: "nil", or who ran "sudo"
  closed,    \* of the deferred function
  tmp,       \* the temporary file of each call
  errs,      \* the steps whose failure the returned error joins
  path,      \* the file at the path
  disk       \* and the one the directory on disk names

vars == <<pc, owner, closed, tmp, errs, path, disk>>

\* by is the call a file was written by; what is not synced a power failure may take.
File(by, data, mode, uid, synced) ==
  [by |-> by, data |-> data, mode |-> mode, uid |-> uid, synced |-> synced]
NoFile == File("none", "none", "none", "none", FALSE)
OldFile == File("old", "whole", "0600", "nil", TRUE)
Files == [by : Writers \cup {"old", "none"}, data : {"none", "part", "whole"},
          mode : {"none", "created", "0600"}, uid : {"none", "nil", "sudo"}, synced : BOOLEAN]
Steps == {"begin", "create", "chmod", "owner", "write", "sync", "close", "rename", "defer", "remove"}

Init ==
  /\ pc = [w \in Writers |-> "begin"] /\ owner = [w \in Writers |-> "nil"]
  /\ closed = [w \in Writers |-> FALSE] /\ tmp = [w \in Writers |-> NoFile]
  /\ errs = [w \in Writers |-> {}] /\ path \in {NoFile, OldFile} /\ disk = path

Goto(w, step) == pc' = [pc EXCEPT ![w] = step]
Edit(w, file) == tmp' = [tmp EXCEPT ![w] = file]

\* An early return: the deferred function follows.
Fails(w, step, next) ==
  /\ pc[w] = step /\ Goto(w, next) /\ errs' = [errs EXCEPT ![w] = @ \cup {step}]

\* The ids sudo left in the environment count for root only; malformed ones are refused.
captureOwnership(euid, ids) ==
  CASE euid # "root" \/ ids = "unset" -> "nil" [] euid = "root" /\ ids = "valid" -> "sudo" [] OTHER -> "bad"

\* The probe has an image to write.
writeCapture(w) ==
  /\ pc[w] = "begin"
  /\ \E euid \in {"root", "user"}, ids \in {"unset", "valid", "malformed"} :
       IF captureOwnership(euid, ids) = "bad"
       THEN Goto(w, "returned") /\ errs' = [errs EXCEPT ![w] = {"begin"}] /\ UNCHANGED owner
       ELSE Goto(w, "create") /\ owner' = [owner EXCEPT ![w] = captureOwnership(euid, ids)]
                              /\ UNCHANGED errs
  /\ UNCHANGED <<closed, tmp, path, disk>>

\* goodix-dpapi has recovered the key, for the user who runs it, or has not.
execute(w) ==
  /\ \/ pc[w] = "begin" /\ Goto(w, "create") /\ UNCHANGED errs
     \/ Fails(w, "begin", "returned")
  /\ UNCHANGED <<owner, closed, tmp, path, disk>>

\* Mutant: the permissions are left to the file system.
CreateTempOpen(w) ==
  /\ pc[w] = "create" /\ Goto(w, "owner")
  /\ Edit(w, File(w, "none", "created", "nil", FALSE))
  /\ UNCHANGED <<owner, closed, errs, path, disk>>

CreateTemp(w) ==
  /\ pc[w] = "create" /\ Goto(w, "chmod")
  /\ Edit(w, File(w, "none", "created", "nil", FALSE))
  /\ UNCHANGED <<owner, closed, errs, path, disk>>

CreateFails(w) ==
  /\ Fails(w, "create", "returned") /\ UNCHANGED <<owner, closed, tmp, path, disk>>

Chmod(w) ==
  /\ pc[w] = "chmod" /\ Goto(w, "owner") /\ Edit(w, [tmp[w] EXCEPT !.mode = "0600"])
  /\ UNCHANGED <<owner, closed, errs, path, disk>>

Chown(w) ==
  /\ pc[w] = "owner" /\ Goto(w, "write")
  /\ Edit(w, [tmp[w] EXCEPT !.uid = owner[w]])
  /\ UNCHANGED <<owner, closed, errs, path, disk>>

\* Mutant: the data are not synced.
WriteDataOnly(w) ==
  /\ pc[w] = "write" /\ Goto(w, "close") /\ Edit(w, [tmp[w] EXCEPT !.data = "whole"])
  /\ UNCHANGED <<owner, closed, errs, path, disk>>

WriteData(w) ==
  /\ pc[w] = "write" /\ Goto(w, "sync") /\ Edit(w, [tmp[w] EXCEPT !.data = "whole"])
  /\ UNCHANGED <<owner, closed, errs, path, disk>>

\* An error, or fewer bytes than were given.
WriteFails(w) ==
  /\ Fails(w, "write", "defer")
  /\ \E data \in {"none", "part"} : Edit(w, [tmp[w] EXCEPT !.data = data])
  /\ UNCHANGED <<owner, closed, path, disk>>

Sync(w) ==
  /\ pc[w] = "sync" /\ Goto(w, "close") /\ Edit(w, [tmp[w] EXCEPT !.synced = TRUE])
  /\ UNCHANGED <<owner, closed, errs, path, disk>>

\* closed is set before the error is looked at: Close is not tried twice.
Close(w) ==
  /\ pc[w] = "close" /\ closed' = [closed EXCEPT ![w] = TRUE]
  /\ \/ Goto(w, "rename") /\ UNCHANGED errs
     \/ Fails(w, "close", "defer")
  /\ UNCHANGED <<owner, tmp, path, disk>>

Rename(w) ==
  /\ pc[w] = "rename" /\ Goto(w, "returned")
  /\ path' = tmp[w] /\ Edit(w, NoFile)
  /\ UNCHANGED <<owner, closed, errs, disk>>

\* A change of permissions or owner, a sync or a rename that fails changes nothing.
StepFails(w) ==
  /\ \/ Fails(w, "chmod", "defer") \/ Fails(w, "sync", "defer") \/ Fails(w, "rename", "defer")
     \/ owner[w] # "nil" /\ Fails(w, "owner", "defer")
  /\ UNCHANGED <<owner, closed, tmp, path, disk>>

\* The deferred function closes what is open, then removes what is not published.
DeferClose(w) ==
  /\ \/ pc[w] = "defer" /\ Goto(w, "remove") /\ UNCHANGED errs
     \/ ~closed[w] /\ Fails(w, "defer", "remove")
  /\ closed' = [closed EXCEPT ![w] = TRUE]
  /\ UNCHANGED <<owner, tmp, path, disk>>

\* Mutant: nobody hears of a temporary file that is left.
DeferRemoveSilently(w) ==
  /\ pc[w] = "remove" /\ Goto(w, "returned") /\ tmp' \in {tmp, [tmp EXCEPT ![w] = NoFile]}
  /\ UNCHANGED <<owner, closed, errs, path, disk>>

DeferRemove(w) ==
  /\ \/ pc[w] = "remove" /\ Goto(w, "returned") /\ Edit(w, NoFile) /\ UNCHANGED errs
     \/ Fails(w, "remove", "returned") /\ UNCHANGED tmp
  /\ UNCHANGED <<owner, closed, path, disk>>

-----------------------------------------------------------------------------
(* External: what kills a process, and what a file system promises *)

Killed(w) ==
  /\ pc[w] \in Steps /\ Goto(w, "dead")
  /\ UNCHANGED <<owner, closed, tmp, errs, path, disk>>

\* The directory, which is never synced, reaches the disk some time.
Flush == disk # path /\ disk' = path /\ UNCHANGED <<pc, owner, closed, tmp, errs, path>>

PowerFails ==
  /\ pc' = [w \in Writers |-> IF pc[w] \in Steps THEN "dead" ELSE pc[w]]
  /\ \E left \in {"none", "part", "whole"} :
       path' = IF disk.synced \/ disk = NoFile THEN disk ELSE [disk EXCEPT !.data = left]
  /\ disk' = path'
  /\ UNCHANGED <<owner, closed, tmp, errs>>

Write(w) ==
  \/ writeCapture(w) \/ execute(w) \/ CreateTemp(w) \/ CreateFails(w) \/ Chmod(w) \/ Chown(w) \/ WriteData(w) \/ WriteFails(w)
  \/ Sync(w) \/ Close(w) \/ Rename(w) \/ StepFails(w) \/ DeferClose(w) \/ DeferRemove(w)

Next == (\E w \in Writers : Write(w) \/ Killed(w)) \/ Flush \/ PowerFails
Spec == Init /\ [][Next]_vars

-----------------------------------------------------------------------------
(* Properties *)

TypeOK ==
  /\ pc \in [Writers -> Steps \cup {"returned", "dead"}]
  /\ owner \in [Writers -> {"nil", "sudo"}] /\ closed \in [Writers -> BOOLEAN]
  /\ tmp \in [Writers -> Files] /\ errs \in [Writers -> SUBSET Steps]
  /\ path \in Files /\ disk \in Files

\* The file was made in the right order: what it holds, only its owner reads.
Private(file) ==
  file.by \in Writers /\ file.data # "none" => file.mode = "0600" /\ file.uid = owner[file.by]

\* "Write atomically replaces a path with a 0600 regular file": whoever is
\* killed and whenever the power fails, the path names nothing, the old file,
\* or the whole, synced and private file of one call.
PathIsWhole ==
  path # NoFile => path.data = "whole" /\ path.synced /\ Private(path)

\* No byte of the secret is ever in a temporary file others could read.
SecretsArePrivate == \A w \in Writers : Private(tmp[w])

\* "Errors before rename preserve the original entry; failed temporary-file
\* cleanup is included in the returned error."
ReturnsTellTheTruth ==
  \A w \in Writers : pc[w] = "returned" =>
    /\ errs[w] # {} => path.by # w /\ disk.by # w
    /\ tmp[w] # NoFile => "remove" \in errs[w]
=============================================================================
