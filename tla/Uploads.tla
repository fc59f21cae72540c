------------------------------- MODULE Uploads --------------------------------
(***************************************************************************)
(* POST /api/v1/admin/upload (routes/admin.ts): a poster, a song or a      *)
(* video replaces a file of public/, through a temporary file whose name   *)
(* all uploads of its kind share, and is then committed to the repository  *)
(* over GitHub's API, so that the next deployment serves it too.           *)
(*                                                                         *)
(* A file is the upload it is of: its bytes are left out, and so are the   *)
(* checks of kind, type and size, after which an upload begins here.  The  *)
(* disk of the process is that of the repository whenever it restarts.     *)
(***************************************************************************)
EXTENDS Naturals

CONSTANTS
  Kinds,      \* of files: image, music, video
  Uploading,  \* uploads at one time
  Pushed, None, Partial, Torn    \* what else a file may be

ASSUME UploadsAssumption ==
  /\ {Pushed, None, Partial, Torn} \cap Uploading = {}
  /\ None \notin Kinds

VARIABLES
  disk,      \* the file of each kind in public/
  temp,      \* its ".uploading" file
  repo,      \* the file in the repository
  upload,    \* the handler of each upload
  lasting    \* history: kinds whose last upload was alone, answered persistent:
             \* true, and not replaced in the repository by somebody else

uploadVars == <<disk, temp, repo, upload, lasting>>

Content == Uploading \cup {Pushed, None, Partial, Torn}
Repository == Uploading \cup {Pushed, None}

\* `name`: where the file it writes is now.  `sha`: what GitHub said is stored.
\* `alone` is history: no other upload of the kind overlapped, and nobody
\* pushed since it was committed.
Upload == [step: {"idle", "write", "rename", "get", "put", "answer"},
           kind: Kinds \cup {None}, name: {"none", "temp", "disk"}, sha: Repository,
           alone: BOOLEAN]

NoUpload == [step |-> "idle", kind |-> None, name |-> "none", sha |-> None, alone |-> FALSE]

UploadsTypeOK ==
  /\ disk \in [Kinds -> Content] /\ temp \in [Kinds -> Content]
  /\ repo \in [Kinds -> Repository]
  /\ upload \in [Uploading -> Upload]
  /\ lasting \subseteq Kinds

\* What is deployed: the file of a kind may not have been committed yet.
UploadsInit ==
  /\ repo \in [Kinds -> {Pushed, None}] /\ disk = repo
  /\ temp = [k \in Kinds |-> None]
  /\ upload = [u \in Uploading |-> NoUpload]
  /\ lasting = {}

-----------------------------------------------------------------------------
Of(k) == {u \in Uploading : upload[u].kind = k}
Writers(k, name) == {u \in Of(k) : upload[u].step = "write" /\ upload[u].name = name}

Goes(u, s) == upload' = [upload EXCEPT ![u].step = s]
Leaves(u)  == upload' = [upload EXCEPT ![u] = NoUpload]

\* fs.writeFile opens the temporary file and truncates it: if another upload is
\* writing it, bytes of both end up in it.
BeginUpload(u, k) ==
  /\ upload[u] = NoUpload
  /\ upload' = [v \in Uploading |->
       IF v = u THEN [step |-> "write", kind |-> k, name |-> "temp", sha |-> None, alone |-> Of(k) = {}]
       ELSE [upload[v] EXCEPT !.alone = @ /\ upload[v].kind # k]]
  /\ temp' = [temp EXCEPT ![k] = IF Writers(k, "temp") = {} THEN Partial ELSE Torn]
  /\ lasting' = lasting \ {k}
  /\ UNCHANGED <<disk, repo>>

Filled(content, u) == IF content = Partial THEN u ELSE content

\* The file is closed, wherever a rename by another upload has moved it.
FinishWrite(u) ==
  /\ upload[u].step = "write"
  /\ LET k == upload[u].kind IN
     CASE upload[u].name = "temp" -> temp' = [temp EXCEPT ![k] = Filled(@, u)] /\ UNCHANGED disk
       [] upload[u].name = "disk" -> disk' = [disk EXCEPT ![k] = Filled(@, u)] /\ UNCHANGED temp
       [] OTHER                   -> UNCHANGED <<temp, disk>>
  /\ Goes(u, "rename")
  /\ UNCHANGED <<repo, lasting>>

Moved(h) == [h EXCEPT !.name = CASE h.name = "temp" -> "disk" [] OTHER -> "none"]

\* fs.rename: the name is gone if another upload of the kind renamed the file.
Rename(u) ==
  /\ upload[u].step = "rename"
  /\ LET k == upload[u].kind IN
     /\ temp[k] # None
     /\ disk' = [disk EXCEPT ![k] = temp[k]]
     /\ temp' = [temp EXCEPT ![k] = None]
     /\ upload' = [v \in Uploading |->
          IF v = u THEN [upload[u] EXCEPT !.step = "get", !.name = "none"]
          ELSE IF v \in Of(k) THEN Moved(upload[v]) ELSE upload[v]]
  /\ UNCHANGED <<repo, lasting>>

-----------------------------------------------------------------------------
(* persistToGitHub, and GitHub itself *)

\* GET .../contents/<path>: the sha that is stored, none after a 404.
GetSha(u) ==
  /\ upload[u].step = "get"
  /\ upload' = [upload EXCEPT ![u].step = "put", ![u].sha = repo[upload[u].kind]]
  /\ UNCHANGED <<disk, temp, repo, lasting>>

AnswerAnyway(u) ==    \* mutant: a refused PUT does not throw
  Goes(u, "answer")

\* GitHub PUT 409 or 422: the sha is not that of the stored file any more.
Refused(u) == Leaves(u)

PutFile(u) ==
  /\ upload[u].step = "put"
  /\ LET k == upload[u].kind IN
     IF repo[k] = upload[u].sha
     THEN repo' = [repo EXCEPT ![k] = u] /\ Goes(u, "answer")
     ELSE UNCHANGED repo /\ Refused(u)
  /\ UNCHANGED <<disk, temp, lasting>>

\* persistent: true.
AnswerUpload(u) ==
  /\ upload[u].step = "answer"
  /\ lasting' = IF upload[u].alone THEN lasting \cup {upload[u].kind} ELSE lasting
  /\ Leaves(u)
  /\ UNCHANGED <<disk, temp, repo>>

\* The write, the rename, the GET or the PUT fails, or its answer is lost: 500,
\* or 502 with persistent: false.
UploadFails(u) ==
  /\ upload[u].step # "idle"
  /\ Leaves(u)
  /\ UNCHANGED <<disk, temp, repo, lasting>>

\* Someone else commits a version of the file.
Push(k) ==
  /\ repo' = [repo EXCEPT ![k] = Pushed]
  /\ lasting' = lasting \ {k}
  /\ upload' = [u \in Uploading |->
       [upload[u] EXCEPT !.alone = @ /\ ~(u \in Of(k) /\ upload[u].step = "answer")]]
  /\ UNCHANGED <<disk, temp>>

Redeploy ==
  /\ disk' = repo
  /\ temp' = [k \in Kinds |-> None]
  /\ upload' = [u \in Uploading |-> NoUpload]
  /\ UNCHANGED <<repo, lasting>>

UploadsNext ==
  \/ \E u \in Uploading :
       \/ \E k \in Kinds : BeginUpload(u, k)
       \/ FinishWrite(u) \/ Rename(u) \/ GetSha(u) \/ PutFile(u) \/ AnswerUpload(u) \/ UploadFails(u)
  \/ \E k \in Kinds : Push(k)
  \/ Redeploy

UploadsSpec == UploadsInit /\ [][UploadsNext]_uploadVars

-----------------------------------------------------------------------------
(* Properties *)

\* "persistent: true" holds: what such an upload left on the disk is what the
\* repository holds, whole, so a deployment keeps it, until another upload or
\* another commit replaces it.  Uploads of one kind that overlap are excepted:
\* their writes, renames and commits may come in different orders.
PersistentUploadsLast == \A k \in lasting : repo[k] \in Uploading /\ disk[k] = repo[k]

=============================================================================
