------------------------------ MODULE BlobUpload ------------------------------
(***************************************************************************)
(* The admin page that uploads a file to blob storage: the script that     *)
(* sends a file a part at a time, some parts at once and each tried a few  *)
(* times, then commits it; and the server, which stages each part as a     *)
(* block of the blob and commits the blocks in order                       *)
(* (public/javascripts/blob-upload.js, admin/upload-to-blob/controller.ts).*)
(* Everything here is of one blob name: an upload under another touches    *)
(* none of it, and is here only if the server refuses that name.           *)
(***************************************************************************)
EXTENDS Naturals, FiniteSets, Sequences

CONSTANTS
  Files,         \* what people choose to upload under the name
  Parts,         \* [Files -> Nat]: how many parts the file is sent in
  Refused,       \* files whose own name cannot be a blob's: no part of one is taken
  Pages,         \* open upload pages that save under the name
  Lanes,         \* PARALLEL_PARTS: how many parts are in flight at once
  ATTEMPTS,      \* how many times a part is tried
  First,         \* the file the blob holds at first
  MaxUploads,    \* bound: uploads begun
  MaxTrouble,    \* bound: requests that fail, or whose answer is lost
  Nothing

\* Some file has the most parts, and nothing is neither a number nor a part.
ASSUME BlobUploadAssumption ==
  /\ Parts \in [Files -> Nat] /\ Refused \subseteq Files /\ First \in Files
  /\ \E f \in Files : \A g \in Files : Parts[g] <= Parts[f]
  /\ Nothing \notin Nat /\ \A f \in Files : \A n \in 0 .. Parts[f] - 1 : <<f, n>> # Nothing
  /\ ATTEMPTS \in Nat \ {0} /\ MaxUploads \in Nat /\ MaxTrouble \in Nat
  /\ Lanes # {} /\ Pages # {}

Uploads == 1 .. MaxUploads

VARIABLES
  uploads,   \* the uploads begun, oldest first
  lanes,     \* [Uploads -> [Lanes -> ...]]: what each sender is doing
  pending,   \* requests the server has yet to carry out
  staged,    \* the blob's uncommitted blocks: block -> the file whose part it is
  blob,      \* the blob: its parts in order, whose upload wrote them, whether as blocks by id
  trouble,   \* how many requests have failed
  mingled    \* ghost: uploads beside which another file was written under the name

uploadVars == <<uploads, lanes, pending, staged, blob, trouble, mingled>>

MaxParts == CHOOSE n \in {Parts[f] : f \in Files} : \A f \in Files : Parts[f] <= n
Blocks == 0 .. MaxParts - 1

\* What a request asks for: a part by its number, or the commit.
Commit == MaxParts

Whole(file) == [n \in 1 .. Parts[file] |-> <<file, n - 1>>]

Resting == [at |-> "start", item |-> Nothing, tries |-> 0]

UploadInit ==
  /\ uploads = <<>>
  /\ lanes = [u \in Uploads |-> [l \in Lanes |-> Resting]]
  /\ pending = {}
  /\ staged = [b \in Blocks |-> Nothing]
  /\ blob = [parts |-> Whole(First), by |-> Nothing, ids |-> TRUE]
  /\ trouble = 0
  /\ mingled = {}

Begun == DOMAIN uploads
FileOf(u) == uploads[u].file
PartsOf(u) == Parts[FileOf(u)]

\* An upload that has not ended: the page's button is disabled.
Busy(u) == u \in Begun /\ uploads[u].phase \in {"parts", "commit"}

\* Writing file under the name mingles with every other upload of another file
\* that has begun to and may still replace the blob.
Mingles(u, file) ==
  {v \in Begun \ {u} : (Busy(v) \/ \E r \in pending : r.upload = v) /\ FileOf(v) # file}

(***************************************************************************)
(* The script.                                                             *)
(***************************************************************************)

\* The form is submitted while no upload of its page is going on; an empty file
\* ends it at once. What an earlier upload's senders are still doing goes on.
Submit(page, file) ==
  /\ Len(uploads) < MaxUploads
  /\ \A u \in Begun : uploads[u].page = page => ~Busy(u) /\ uploads[u].phase # "left"
  /\ uploads' = Append(uploads, [page |-> page, file |-> file, next |-> 0,
                                 phase |-> IF Parts[file] = 0 THEN "failed" ELSE "parts"])
  /\ UNCHANGED <<lanes, pending, staged, blob, trouble, mingled>>

Request(u, item, try) == [upload |-> u, item |-> item, try |-> try]

\* sendParts: a sender takes the next part, or ends when there is none. It does
\* so whether or not another sender has failed.
TakePart(u, l) ==
  /\ uploads[u].phase \in {"parts", "failed"} /\ PartsOf(u) > 0 /\ lanes[u][l].at = "start"
  /\ LET n == uploads[u].next
     IN IF n < PartsOf(u)
        THEN /\ uploads' = [uploads EXCEPT ![u].next = n + 1]
             /\ lanes' = [lanes EXCEPT ![u][l] = [at |-> "sending", item |-> n, tries |-> 1]]
             /\ pending' = pending \union {Request(u, n, 1)}
        ELSE /\ lanes' = [lanes EXCEPT ![u][l].at = "ended"]
             /\ UNCHANGED <<uploads, pending>>
  /\ UNCHANGED <<staged, blob, trouble, mingled>>

\* Mutant: one sender has ended.
SendCommitMutant(u) ==
  /\ uploads[u].phase = "parts" /\ \E l \in Lanes : lanes[u][l].at = "ended"
  /\ uploads' = [uploads EXCEPT ![u].phase = "commit"]
  /\ LET l == CHOOSE l \in Lanes : lanes[u][l].at = "ended"
     IN lanes' = [lanes EXCEPT ![u][l] = [at |-> "sending", item |-> Commit, tries |-> 1]]
  /\ pending' = pending \union {Request(u, Commit, 1)}
  /\ UNCHANGED <<staged, blob, trouble, mingled>>

\* Every sender has ended and none has failed: the commit is sent.
SendCommit(u) ==
  /\ uploads[u].phase = "parts" /\ \A l \in Lanes : lanes[u][l].at = "ended"
  /\ uploads' = [uploads EXCEPT ![u].phase = "commit"]
  /\ LET l == CHOOSE l \in Lanes : TRUE
     IN lanes' = [lanes EXCEPT ![u][l] = [at |-> "sending", item |-> Commit, tries |-> 1]]
  /\ pending' = pending \union {Request(u, Commit, 1)}
  /\ UNCHANGED <<staged, blob, trouble, mingled>>

\* withRetries: tried again after a wait.
TryAgain(u, l) ==
  /\ lanes[u][l].at = "waiting" /\ uploads[u].phase # "left"
  /\ lanes' = [lanes EXCEPT ![u][l].at = "sending", ![u][l].tries = @ + 1]
  /\ pending' = pending \union {Request(u, lanes[u][l].item, lanes[u][l].tries + 1)}
  /\ UNCHANGED <<uploads, staged, blob, trouble, mingled>>

\* The page is closed or left: its requests are on their way all the same.
Leave(u) ==
  /\ Busy(u)
  /\ uploads' = [uploads EXCEPT ![u].phase = "left"]
  /\ lanes' = [lanes EXCEPT ![u] = [l \in Lanes |-> [Resting EXCEPT !.at = "ended"]]]
  /\ UNCHANGED <<pending, staged, blob, trouble, mingled>>

(***************************************************************************)
(* What a sender does with an answer.                                      *)
(***************************************************************************)

\* The sender that awaits the answer to request r: none, once it has given that
\* try up.
Awaiting(r) ==
  {l \in Lanes : LET lane == lanes[r.upload][l]
                 IN lane.at = "sending" /\ lane.item = r.item /\ lane.tries = r.try}

\* One sender, or the commit, gives up: the first to do so ends the upload, and
\* the button works again.
GiveUp(u, l) ==
  /\ lanes' = [lanes EXCEPT ![u][l].at = "ended"]
  /\ uploads' = [uploads EXCEPT ![u].phase = IF Busy(u) THEN "failed" ELSE @]

Accepted(u, l) ==
  IF lanes[u][l].item = Commit
  THEN /\ lanes' = [lanes EXCEPT ![u][l].at = "ended"]
       /\ uploads' = [uploads EXCEPT ![u].phase = "uploaded"]
  ELSE /\ lanes' = [lanes EXCEPT ![u][l] = Resting]
       /\ UNCHANGED uploads

\* Mutant: tried again until it is answered.
UnansweredMutant(u, l) ==
  lanes' = [lanes EXCEPT ![u][l].at = "waiting", ![u][l].tries = 1] /\ UNCHANGED uploads

\* Any other answer than a refusal, or none: tried again, a few times.
Unanswered(u, l) ==
  IF lanes[u][l].tries < ATTEMPTS
  THEN lanes' = [lanes EXCEPT ![u][l].at = "waiting"] /\ UNCHANGED uploads
  ELSE GiveUp(u, l)

\* The answer to r reaches the sender that awaits it.
Answered(r, Takes(_, _)) ==
  IF Awaiting(r) = {} THEN UNCHANGED <<uploads, lanes>>
  ELSE \E l \in Awaiting(r) : Takes(r.upload, l)

Trouble == trouble < MaxTrouble /\ trouble' = trouble + 1

\* What was done is answered, or its answer is lost on the way.
DoneThen(r) ==
  \/ Answered(r, Accepted) /\ UNCHANGED trouble
  \/ Awaiting(r) # {} /\ Trouble /\ Answered(r, Unanswered)

(***************************************************************************)
(* The server, and blob storage behind it.                                 *)
(***************************************************************************)

Settle(r) == r \in pending /\ pending' = pending \ {r}

\* A part is staged under its block's id, in place of what was staged there.
StageBlock(r) ==
  /\ r.item # Commit /\ FileOf(r.upload) \notin Refused /\ Settle(r)
  /\ staged' = [staged EXCEPT ![r.item] = <<FileOf(r.upload), r.item>>]
  /\ DoneThen(r)
  /\ mingled' = mingled \union Mingles(r.upload, FileOf(r.upload))
  /\ UNCHANGED blob

\* A file's own name that cannot name a blob: its parts are refused (400), and
\* not tried again.
RefuseBlock(r) ==
  /\ r.item # Commit /\ FileOf(r.upload) \in Refused /\ Settle(r)
  /\ Answered(r, GiveUp)
  /\ UNCHANGED <<staged, blob, trouble, mingled>>

\* A block id names the latest part under it: the staged one, else the blob's own.
Latest(b) ==
  IF staged[b] # Nothing THEN staged[b]
  ELSE IF blob.ids /\ b < Len(blob.parts) THEN blob.parts[b + 1] ELSE Nothing

\* The blob becomes its first blocks, in order, and nothing stays staged; storage
\* refuses a list with a block it does not have.
CommitBlocks(r) ==
  /\ r.item = Commit /\ Settle(r)
  /\ LET list == [n \in 1 .. PartsOf(r.upload) |-> Latest(n - 1)]
     IN IF \A n \in DOMAIN list : list[n] # Nothing
        THEN /\ blob' = [parts |-> list, by |-> r.upload, ids |-> TRUE]
             /\ staged' = [b \in Blocks |-> Nothing]
             /\ DoneThen(r)
        ELSE Answered(r, Unanswered) /\ UNCHANGED <<blob, staged, trouble>>
  /\ mingled' = mingled \union Mingles(r.upload, FileOf(r.upload))

\* The request, or the call to storage, fails before it has any effect (502, 503).
RequestFails(r) ==
  /\ Settle(r) /\ Trouble /\ Answered(r, Unanswered)
  /\ UNCHANGED <<staged, blob, mingled>>

\* Front Door gives up on a request the server goes on with.
TimesOut(r) ==
  /\ r \in pending /\ Awaiting(r) # {} /\ Trouble /\ Answered(r, Unanswered)
  /\ UNCHANGED <<pending, staged, blob, mingled>>

\* A form without the script: the whole file in one request, which replaces the
\* blob and what is staged under its name.
RunUploadToBlob(file) ==
  /\ Len(uploads) < MaxUploads /\ file \notin Refused
  /\ uploads' = Append(uploads, [page |-> Nothing, file |-> file, next |-> 0, phase |-> "uploaded"])
  /\ blob' = [parts |-> Whole(file), by |-> Len(uploads) + 1, ids |-> FALSE]
  /\ staged' = [b \in Blocks |-> Nothing]
  /\ mingled' = mingled \union Mingles(Nothing, file)
  /\ UNCHANGED <<lanes, pending, trouble>>

(***************************************************************************)
(* The whole.                                                              *)
(***************************************************************************)

ScriptStep(u) ==
  \/ SendCommit(u)
  \/ \E l \in Lanes : TakePart(u, l) \/ TryAgain(u, l)

Serve(r) == StageBlock(r) \/ RefuseBlock(r) \/ CommitBlocks(r)

UploadNext ==
  \/ \E page \in Pages, file \in Files : Submit(page, file)
  \/ \E file \in Files : RunUploadToBlob(file)
  \/ \E u \in Begun : ScriptStep(u) \/ Leave(u)
  \/ \E r \in pending : Serve(r) \/ RequestFails(r) \/ TimesOut(r)

\* The browser goes on with a page that is open, and the server with every
\* request it has; nothing has to fail, and nobody has to upload.
UploadFairness ==
  /\ \A u \in Uploads : WF_uploadVars(u \in Begun /\ ScriptStep(u))
  /\ \A u \in Uploads : WF_uploadVars(\E r \in pending : r.upload = u /\ Serve(r))

UploadSpec == UploadInit /\ [][UploadNext]_uploadVars /\ UploadFairness

(***************************************************************************)
(* Properties.                                                             *)
(***************************************************************************)

\* "A blob isn't replaced until every part has arrived": what replaces it is a
\* whole file, each part once and in order, however often a part or the commit
\* was tried and whichever of its answers were lost. Only an upload beside which
\* another file was written under the name may mix the two - a second person's, or
\* what senders of the page's own failed upload go on sending.
UploadedIsWhole ==
  [][blob'.by # Nothing /\ blob'.by \notin mingled'
       => blob'.parts = Whole(uploads'[blob'.by].file)]_uploadVars

\* An upload ends: the page shows that the file is there, or what went wrong.
UploadEnds == \A u \in Uploads : u \in Begun ~> ~Busy(u)
=============================================================================
