--------------------------- MODULE BlobUploadProofs ---------------------------
(***************************************************************************)
(* Theorems about BlobUpload, for any files, pages, senders and attempts:  *)
(* what replaces the blob is a whole file, whichever requests fail, are    *)
(* tried again, time out and are carried out all the same, or lose their   *)
(* answer.                                                                 *)
(*                                                                         *)
(* What ties the page to the server is that a part is accepted only once   *)
(* it has been staged. IInv says so of every upload beside which no other  *)
(* file was written: of the parts it has sent, those no sender is busy     *)
(* with are the latest under their block's id, or nothing is (SentInv),    *)
(* and all of them are from when its commit is sent (ReadyInv). ClientInv  *)
(* is what the page's senders do; it says nothing of the server.           *)
(***************************************************************************)
EXTENDS BlobUpload, SequenceTheorems, TLAPS

Phases == {"parts", "commit", "uploaded", "failed", "left"}
Upload == [page : Pages \cup {Nothing}, file : Files, next : Nat, phase : Phases]
Lane == [at : {"start", "sending", "waiting", "ended"}, item : Nat \cup {Nothing}, tries : Nat]

\* A sender has an item that it has sent or is to send again.
Active(u, l) == lanes[u][l].at \in {"sending", "waiting"}
InFlight(u, n) == \E l \in Lanes : Active(u, l) /\ lanes[u][l].item = n

CommitPending(u) == \E r \in pending : r.upload = u /\ r.item = Commit
Alive(u) == Busy(u) \/ \E r \in pending : r.upload = u

TypeInv ==
  /\ uploads \in Seq(Upload) /\ Len(uploads) <= MaxUploads
  /\ lanes \in [Uploads -> [Lanes -> Lane]]
  /\ \A r \in pending : /\ r.upload \in Begun
                        /\ r.item = Commit \/ r.item \in 0 .. PartsOf(r.upload) - 1
  /\ staged = [b \in Blocks |-> staged[b]]
  /\ blob.by \in {Nothing} \cup Begun

\* The senders of one upload: they send its parts until none is left, and then one
\* of them the commit, and what they send is in a phase of the upload's.
Client(u) ==
  /\ uploads[u].next <= PartsOf(u)
  /\ \A l \in Lanes : Active(u, l) /\ lanes[u][l].item # Commit =>
       lanes[u][l].item \in 0 .. PartsOf(u) - 1
  /\ \A l \in Lanes : Active(u, l) /\ lanes[u][l].item = Commit => uploads[u].phase = "commit"
  /\ uploads[u].phase = "commit" =>
       \A l, k \in Lanes : lanes[u][l].at = "ended" \/ lanes[u][k].at = "ended" \/ l = k
  /\ uploads[u].phase = "parts" =>
       /\ ~CommitPending(u)
       /\ \A l \in Lanes : lanes[u][l].at = "ended" => uploads[u].next = PartsOf(u)

ClientInv ==
  /\ \A u \in Begun : Client(u)
  /\ \A u \in Uploads \ Begun : \A l \in Lanes : lanes[u][l] = Resting

\* A part of the upload's file is the latest under its block's id, or nothing is.
Stands(u, n) == Latest(n) \in {Nothing, <<FileOf(u), n>>}

SentInv ==
  \A u \in Begun \ mingled : uploads[u].phase = "parts" =>
    \A n \in 0 .. uploads[u].next - 1 : InFlight(u, n) \/ Stands(u, n)

ReadyInv ==
  \A u \in Begun \ mingled : uploads[u].phase = "commit" \/ CommitPending(u) =>
    \A n \in 0 .. PartsOf(u) - 1 : Stands(u, n)

\* What an upload wrote is its whole file, unless another was written beside it.
BlobWhole ==
  blob.by # Nothing /\ blob.by \notin mingled => blob.parts = Whole(FileOf(blob.by))

IInv == TypeInv /\ ClientInv /\ SentInv /\ ReadyInv /\ BlobWhole

(***************************************************************************)
(* The parts of a file, and one upload or sender that changes.             *)
(***************************************************************************)

\* No file has more than MaxParts parts, so that the commit is not a part.
LEMMA MostParts ==
  /\ MaxParts \in Nat /\ \A f \in Files : Parts[f] \in Nat /\ Parts[f] <= MaxParts
<1> DEFINE Counts == {Parts[f] : f \in Files}
<1>1. \A f \in Files : Parts[f] \in Nat
  BY BlobUploadAssumption
<1>2. PICK f \in Files : \A g \in Files : Parts[g] <= Parts[f]
  BY BlobUploadAssumption
<1>3. Parts[f] \in Counts
  OBVIOUS
<1>4. MaxParts \in Counts /\ \A g \in Files : Parts[g] <= MaxParts
  BY <1>2, <1>3 DEF MaxParts
<1>5. QED
  BY <1>1, <1>4

\* An upload that has begun has a file, in so many parts.
LEMMA UploadFacts ==
  ASSUME TypeInv
  PROVE  /\ Len(uploads) \in Nat /\ Begun = 1 .. Len(uploads) /\ Begun \subseteq Uploads
         /\ \A u \in Begun : /\ uploads[u] \in Upload /\ FileOf(u) \in Files
                              /\ PartsOf(u) \in Nat /\ PartsOf(u) <= MaxParts
                              /\ uploads[u].next \in Nat /\ uploads[u].phase \in Phases
<1>1. uploads \in Seq(Upload) /\ Len(uploads) <= MaxUploads /\ MaxUploads \in Nat
  BY BlobUploadAssumption DEF TypeInv
<1>2. Len(uploads) \in Nat /\ DOMAIN uploads = 1 .. Len(uploads)
  BY <1>1, LenProperties
<1>3. \A u \in Begun : uploads[u] \in Upload
  BY <1>1, <1>2, ElementOfSeq DEF Begun
<1>4. \A u \in Begun : uploads[u].file \in Files
  BY <1>3 DEF Upload
<1>5. \A u \in Begun : uploads[u].next \in Nat /\ uploads[u].phase \in Phases
  BY <1>3 DEF Upload
<1>6. QED
  BY <1>1, <1>2, <1>3, <1>4, <1>5, MostParts DEF Begun, Uploads, FileOf, PartsOf

\* One upload changes, and is still of its file: the others are as they were.
LEMMA UploadTurns ==
  ASSUME TypeInv, NEW u \in Begun, NEW x \in Upload, x.file = FileOf(u),
         uploads' = [uploads EXCEPT ![u] = x]
  PROVE  /\ uploads' \in Seq(Upload) /\ Len(uploads') = Len(uploads) /\ Begun' = Begun
         /\ uploads'[u] = x /\ \A v \in Begun \ {u} : uploads'[v] = uploads[v]
         /\ \A v \in Begun : FileOf(v)' = FileOf(v) /\ PartsOf(v)' = PartsOf(v)
<1>1. uploads \in Seq(Upload) /\ u \in 1 .. Len(uploads) /\ Begun = 1 .. Len(uploads)
  BY UploadFacts DEF TypeInv
<1>2. /\ uploads' \in Seq(Upload) /\ Len(uploads') = Len(uploads)
      /\ \A v \in 1 .. Len(uploads) : uploads'[v] = IF v = u THEN x ELSE uploads[v]
  BY <1>1, ExceptSeq
<1>3. Begun' = Begun
  BY <1>1, <1>2, LenProperties DEF Begun
<1>4. \A v \in Begun : FileOf(v)' = FileOf(v)
  BY <1>1, <1>2 DEF FileOf
<1>5. QED
  BY <1>1, <1>2, <1>3, <1>4 DEF PartsOf

\* One sender changes: the others are as they were.
LEMMA LaneTurns ==
  ASSUME TypeInv, NEW u \in Uploads, NEW l \in Lanes, NEW x \in Lane,
         lanes' = [lanes EXCEPT ![u][l] = x]
  PROVE  /\ lanes' \in [Uploads -> [Lanes -> Lane]]
         /\ lanes'[u][l] = x
         /\ \A k \in Lanes \ {l} : lanes'[u][k] = lanes[u][k]
         /\ \A v \in Uploads \ {u} : lanes'[v] = lanes[v]
  BY DEF TypeInv

\* An upload begins, after those that have.
LEMMA UploadBegins ==
  ASSUME TypeInv, NEW x \in Upload, Len(uploads) < MaxUploads, uploads' = Append(uploads, x)
  PROVE  /\ uploads' \in Seq(Upload) /\ Len(uploads') = Len(uploads) + 1
         /\ Len(uploads) + 1 \in Uploads \ Begun /\ Begun' = Begun \cup {Len(uploads) + 1}
         /\ uploads'[Len(uploads) + 1] = x /\ \A v \in Begun : uploads'[v] = uploads[v]
         /\ \A v \in Begun : FileOf(v)' = FileOf(v) /\ PartsOf(v)' = PartsOf(v)
<1>1. /\ uploads \in Seq(Upload) /\ Len(uploads) \in Nat /\ Begun = 1 .. Len(uploads)
      /\ MaxUploads \in Nat
  BY UploadFacts, BlobUploadAssumption DEF TypeInv
<1>2. /\ uploads' \in Seq(Upload) /\ Len(uploads') = Len(uploads) + 1
      /\ \A v \in 1 .. Len(uploads) : uploads'[v] = uploads[v]
      /\ uploads'[Len(uploads) + 1] = x
  BY <1>1, AppendProperties
<1>3. DOMAIN uploads' = 1 .. Len(uploads) + 1
  BY <1>2, LenProperties
<1>4. Begun' = Begun \cup {Len(uploads) + 1} /\ Len(uploads) + 1 \in Uploads \ Begun
  BY <1>1, <1>3 DEF Begun, Uploads
<1>5. \A v \in Begun : FileOf(v)' = FileOf(v)
  BY <1>1, <1>2 DEF FileOf
<1>6. QED
  BY <1>1, <1>2, <1>4, <1>5 DEF PartsOf

(***************************************************************************)
(* The server's side of a step.                                            *)
(***************************************************************************)

\* A step that neither stages nor commits leaves the parts of a file standing.
LEMMA StandsStill ==
  ASSUME UNCHANGED <<staged, blob>>, NEW u, FileOf(u)' = FileOf(u), NEW n
  PROVE  Stands(u, n)' <=> Stands(u, n)
  BY DEF Stands, Latest

\* What a step must do for SentInv and ReadyInv: a part it sends is in flight or
\* stands, one that stood stands yet, and a commit is sent or asked for only when
\* nothing is in flight any more.
LEMMA PartsKeep ==
  ASSUME TypeInv, SentInv, ReadyInv, mingled \subseteq mingled',
         \A v \in Begun : v \in Begun' /\ PartsOf(v)' = PartsOf(v),
         \A v \in Begun \ mingled' : Alive(v) =>
           \A n \in 0 .. PartsOf(v) - 1 : Stands(v, n) => Stands(v, n)',
         \A v \in Begun' \ mingled' : (uploads[v].phase = "parts")' =>
           \/ (uploads[v].next)' = 0
           \/ /\ v \in Begun /\ uploads[v].phase = "parts"
              /\ uploads'[v].next \in Nat /\ uploads'[v].next <= PartsOf(v)
              /\ \A n \in 0 .. uploads'[v].next - 1 :
                   InFlight(v, n)' \/ Stands(v, n)' \/ (n < uploads[v].next /\ ~InFlight(v, n)),
         \A v \in Begun' \ mingled' : (uploads[v].phase = "commit")' \/ CommitPending(v)' =>
           /\ v \in Begun
           /\ \/ uploads[v].phase = "commit" \/ CommitPending(v)
              \/ /\ uploads[v].phase = "parts" /\ uploads[v].next = PartsOf(v)
                 /\ \A n \in 0 .. PartsOf(v) - 1 : ~InFlight(v, n)
  PROVE  SentInv' /\ ReadyInv'
<1>1. SUFFICES ASSUME NEW v \in Begun', v \notin mingled'
               PROVE  /\ (uploads[v].phase = "parts")' =>
                           \A n \in 0 .. uploads'[v].next - 1 : InFlight(v, n)' \/ Stands(v, n)'
                      /\ (uploads[v].phase = "commit")' \/ CommitPending(v)' =>
                           \A n \in 0 .. PartsOf(v)' - 1 : Stands(v, n)'
  BY DEF SentInv, ReadyInv
<1>2. v \notin mingled
  BY <1>1
<1>3. ASSUME (uploads[v].phase = "parts")', NEW n \in 0 .. uploads'[v].next - 1
      PROVE  InFlight(v, n)' \/ Stands(v, n)'
  <2>1. n \in Nat /\ uploads'[v].next # 0
    BY <1>3
  <2>2. /\ v \in Begun /\ uploads[v].phase = "parts" 
        /\ uploads'[v].next \in Nat /\ uploads'[v].next <= PartsOf(v)
        /\ InFlight(v, n)' \/ Stands(v, n)' \/ (n < uploads[v].next /\ ~InFlight(v, n))
    BY <1>1, <1>3, <2>1
  <2>3. uploads[v].next \in Nat /\ PartsOf(v) \in Nat
    BY <2>2, UploadFacts
  <2>4. CASE n < uploads[v].next /\ ~InFlight(v, n)
    <3>1. n \in 0 .. uploads[v].next - 1 /\ n \in 0 .. PartsOf(v) - 1
      BY <2>1, <2>2, <2>3, <2>4, <1>3
    <3>2. Stands(v, n)
      BY <1>2, <2>2, <2>4, <3>1 DEF SentInv
    <3>3. Alive(v)
      BY <2>2 DEF Alive, Busy
    <3>4. QED
      BY <1>1, <2>2, <3>1, <3>2, <3>3
  <2>5. QED
    BY <2>2, <2>4
<1>4. ASSUME (uploads[v].phase = "commit")' \/ CommitPending(v)', NEW n \in 0 .. PartsOf(v)' - 1
      PROVE  Stands(v, n)'
  <2>1. /\ v \in Begun
        /\ \/ uploads[v].phase = "commit" \/ CommitPending(v)
           \/ /\ uploads[v].phase = "parts" /\ uploads[v].next = PartsOf(v)
              /\ \A k \in 0 .. PartsOf(v) - 1 : ~InFlight(v, k)
    BY <1>1, <1>4
  <2>2. n \in 0 .. PartsOf(v) - 1
    BY <2>1, <1>4
  <2>3. Stands(v, n)
    BY <1>2, <2>1, <2>2 DEF SentInv, ReadyInv
  <2>4. Alive(v)
    BY <2>1 DEF Alive, Busy, CommitPending
  <2>5. QED
    BY <1>1, <2>1, <2>2, <2>3, <2>4
<1>5. QED
  BY <1>3, <1>4

\* The senders of the other uploads are as they were.
LEMMA ClientsKeep ==
  ASSUME TypeInv, ClientInv, NEW u \in Begun, Begun' = Begun, Client(u)',
         \A v \in Begun \ {u} : uploads'[v] = uploads[v],
         \A v \in Uploads \ {u} : lanes'[v] = lanes[v],
         \A v \in Begun \ {u} : CommitPending(v)' => CommitPending(v)
  PROVE  ClientInv'
<1>1. ASSUME NEW v \in Begun \ {u} PROVE Client(v)'
  <2>1. /\ Client(v) /\ v \in Uploads /\ uploads'[v] = uploads[v] /\ lanes'[v] = lanes[v]
        /\ CommitPending(v)' => CommitPending(v)
    BY <1>1, UploadFacts DEF ClientInv
  <2>2. QED
    BY <2>1 DEF Client, Active, PartsOf, FileOf
<1>2. u \in Uploads
  BY UploadFacts
<1>3. QED
  BY <1>1, <1>2 DEF ClientInv

(***************************************************************************)
(* What a sender does with an answer.                                      *)
(***************************************************************************)

\* An answer, to a request of upload u, changes no file and leaves in flight what
\* was, part n of u at most excepted.
AnswerKeeps(u, n) ==
  /\ uploads' \in Seq(Upload) /\ Len(uploads') = Len(uploads) /\ Begun' = Begun
  /\ lanes' \in [Uploads -> [Lanes -> Lane]]
  /\ ClientInv'
  /\ \A v \in Begun : FileOf(v)' = FileOf(v) /\ PartsOf(v)' = PartsOf(v)
  /\ \A v \in Begun : uploads'[v].phase = "parts" =>
       /\ uploads[v].phase = "parts" /\ uploads'[v].next = uploads[v].next
       /\ \A k : InFlight(v, k) => InFlight(v, k)' \/ (v = u /\ k = n)
  /\ \A v \in Begun : uploads'[v].phase = "commit" => uploads[v].phase = "commit"

LEMMA NoneAwaits ==
  ASSUME TypeInv, ClientInv, pending' \subseteq pending, UNCHANGED <<uploads, lanes>>, NEW u, NEW n
  PROVE  AnswerKeeps(u, n)
<1>1. \A v : CommitPending(v)' => CommitPending(v)
  BY DEF CommitPending
<1>2. Begun' = Begun /\ \A v : FileOf(v)' = FileOf(v) /\ PartsOf(v)' = PartsOf(v)
  BY DEF Begun, FileOf, PartsOf
<1>3. ASSUME NEW v \in Begun PROVE Client(v)'
  BY <1>1, <1>2, <1>3 DEF ClientInv, Client, Active
<1>4. ClientInv'
  BY <1>2, <1>3 DEF ClientInv
<1>5. \A v, k : InFlight(v, k) => InFlight(v, k)'
  BY DEF InFlight, Active
<1>6. QED
  BY <1>2, <1>4, <1>5 DEF AnswerKeeps, TypeInv

\* One sender that awaited an answer moves on.
LEMMA SenderMoves ==
  ASSUME TypeInv, ClientInv, pending' \subseteq pending,
         NEW u \in Begun, NEW l \in Lanes, lanes[u][l].at = "sending",
         NEW x \in Lane, lanes' = [lanes EXCEPT ![u][l] = x],
         NEW y \in Upload, y.file = FileOf(u), y.next = uploads[u].next,
         uploads' = [uploads EXCEPT ![u] = y], NEW n,
         \/ x.at = "waiting" /\ x.item = lanes[u][l].item /\ y.phase = uploads[u].phase
         \/ /\ x.at = "start" /\ lanes[u][l].item # Commit /\ n = lanes[u][l].item
            /\ y.phase = uploads[u].phase
         \/ x.at = "ended" /\ y.phase \notin {"parts", "commit"}
  PROVE  AnswerKeeps(u, n)
<1>1. u \in Uploads
  BY UploadFacts
<1>2. /\ lanes' \in [Uploads -> [Lanes -> Lane]] /\ lanes'[u][l] = x
      /\ \A k \in Lanes \ {l} : lanes'[u][k] = lanes[u][k]
      /\ \A v \in Uploads \ {u} : lanes'[v] = lanes[v]
  BY <1>1, LaneTurns
<1>3. /\ uploads' \in Seq(Upload) /\ Len(uploads') = Len(uploads) /\ Begun' = Begun
      /\ uploads'[u] = y /\ \A v \in Begun \ {u} : uploads'[v] = uploads[v]
      /\ \A v \in Begun : FileOf(v)' = FileOf(v) /\ PartsOf(v)' = PartsOf(v)
  BY UploadTurns
<1>4. \A v : CommitPending(v)' => CommitPending(v)
  BY DEF CommitPending
<1>5. Client(u)'
  <2>1. Client(u)
    BY DEF ClientInv
  <2>2. (uploads[u].next <= PartsOf(u))'
    BY <1>3, <2>1 DEF Client
  <2>3. (\A k \in Lanes : Active(u, k) /\ lanes[u][k].item # Commit =>
           lanes[u][k].item \in 0 .. PartsOf(u) - 1)'
    BY <1>2, <1>3, <2>1 DEF Client, Active, Commit
  <2>4. (\A k \in Lanes : Active(u, k) /\ lanes[u][k].item = Commit => uploads[u].phase = "commit")'
    <3>1. ASSUME NEW k \in Lanes, Active(u, k)', lanes'[u][k].item = Commit
          PROVE  y.phase = "commit"
      <4>1. Active(u, k) /\ lanes[u][k].item = Commit
        BY <1>2, <3>1 DEF Active
      <4>2. uploads[u].phase = "commit"
        BY <2>1, <4>1 DEF Client
      <4>3. CASE k = l
        BY <1>2, <3>1, <4>2, <4>3 DEF Active
      <4>4. CASE k # l
        <5>1. lanes[u][k].at # "ended" /\ lanes[u][l].at # "ended"
          BY <4>1 DEF Active
        <5>2. QED
          BY <2>1, <4>2, <4>4, <5>1 DEF Client
      <4>5. QED
        BY <4>3, <4>4
    <3>2. QED
      BY <1>3, <3>1 DEF Commit
  <2>5. (uploads[u].phase = "commit" =>
           \A k, m \in Lanes : lanes[u][k].at = "ended" \/ lanes[u][m].at = "ended" \/ k = m)'
    <3>1. ASSUME y.phase = "commit", NEW k \in Lanes, NEW m \in Lanes, k # m
          PROVE  lanes'[u][k].at = "ended" \/ lanes'[u][m].at = "ended"
      <4>1. lanes[u][k].at = "ended" \/ lanes[u][m].at = "ended"
        BY <2>1, <3>1 DEF Client
      <4>2. QED
        BY <1>2, <4>1
    <3>2. QED
      BY <1>3, <3>1
  <2>6. (uploads[u].phase = "parts" =>
           /\ ~CommitPending(u)
           /\ \A k \in Lanes : lanes[u][k].at = "ended" => uploads[u].next = PartsOf(u))'
    <3>1. ASSUME y.phase = "parts" PROVE ~CommitPending(u)'
      BY <1>4, <2>1, <3>1 DEF Client
    <3>2. ASSUME y.phase = "parts", NEW k \in Lanes, lanes'[u][k].at = "ended"
          PROVE  y.next = PartsOf(u)
      BY <1>2, <2>1, <3>2 DEF Client
    <3>3. QED
      BY <1>3, <3>1, <3>2
  <2>7. QED
    BY <2>2, <2>3, <2>4, <2>5, <2>6 DEF Client
<1>6. ClientInv'
  BY <1>2, <1>3, <1>4, <1>5, ClientsKeep
<1>7. ASSUME NEW v \in Begun, uploads'[v].phase = "parts"
      PROVE  /\ uploads[v].phase = "parts" /\ uploads'[v].next = uploads[v].next
             /\ \A k : InFlight(v, k) => InFlight(v, k)' \/ (v = u /\ k = n)
  <2>1. CASE v = u
    BY <1>2, <1>3, <1>7, <2>1 DEF InFlight, Active
  <2>2. CASE v # u
    <3>1. lanes'[v] = lanes[v] /\ uploads'[v] = uploads[v]
      BY <1>2, <1>3, <2>2, UploadFacts
    <3>2. QED
      BY <1>7, <3>1 DEF InFlight, Active
  <2>3. QED
    BY <2>1, <2>2
<1>8. \A v \in Begun : uploads'[v].phase = "commit" => uploads[v].phase = "commit"
  BY <1>3
<1>9. QED
  BY <1>2, <1>3, <1>6, <1>7, <1>8 DEF AnswerKeeps

LEMMA GivenUp ==
  ASSUME TypeInv, ClientInv, pending' \subseteq pending, NEW u \in Begun, NEW l \in Lanes,
         lanes[u][l].at = "sending", GiveUp(u, l), NEW n
  PROVE  AnswerKeeps(u, n)
<1> DEFINE x == [lanes[u][l] EXCEPT !.at = "ended"]
           y == [uploads[u] EXCEPT !.phase = IF Busy(u) THEN "failed" ELSE @]
<1>1. u \in Uploads /\ uploads[u] \in Upload /\ lanes[u][l] \in Lane
  BY UploadFacts DEF TypeInv
<1>2. x \in Lane /\ x.at = "ended"
  BY <1>1 DEF Lane
<1>3. y \in Upload /\ y.file = FileOf(u) /\ y.next = uploads[u].next
  BY <1>1 DEF Upload, Phases, FileOf
<1>4. y.phase \notin {"parts", "commit"}
  BY <1>1 DEF Upload, Busy
<1>5. lanes' = [lanes EXCEPT ![u][l] = x] /\ uploads' = [uploads EXCEPT ![u] = y]
  BY DEF GiveUp
<1> HIDE DEF x, y
<1>6. QED
  BY <1>2, <1>3, <1>4, <1>5, SenderMoves

LEMMA TriedOrGivenUp ==
  ASSUME TypeInv, ClientInv, pending' \subseteq pending, NEW u \in Begun, NEW l \in Lanes,
         lanes[u][l].at = "sending", Unanswered(u, l), NEW n
  PROVE  AnswerKeeps(u, n)
<1>1. CASE lanes[u][l].tries < ATTEMPTS
  <2> DEFINE x == [lanes[u][l] EXCEPT !.at = "waiting"]
             y == uploads[u]
  <2>1. y \in Upload /\ y.file = FileOf(u) /\ lanes[u][l] \in Lane
    BY UploadFacts DEF TypeInv, FileOf
  <2>2. x \in Lane /\ x.at = "waiting" /\ x.item = lanes[u][l].item
    BY <2>1 DEF Lane
  <2>3. lanes' = [lanes EXCEPT ![u][l] = x] /\ UNCHANGED uploads
    BY <1>1 DEF Unanswered
  <2>4. uploads' = [uploads EXCEPT ![u] = y]
    <3>1. uploads \in [1 .. Len(uploads) -> Upload]
      BY LenProperties DEF TypeInv
    <3>2. QED
      BY <2>3, <3>1
  <2>5. y.next = uploads[u].next /\ y.phase = uploads[u].phase
    OBVIOUS
  <2> HIDE DEF x, y
  <2>6. lanes' = [lanes EXCEPT ![u][l] = x]
    BY <2>3
  <2>7. QED
    BY <2>1, <2>2, <2>4, <2>5, <2>6, SenderMoves
<1>2. CASE ~(lanes[u][l].tries < ATTEMPTS)
  BY <1>2, GivenUp DEF Unanswered
<1>3. QED
  BY <1>1, <1>2

LEMMA AcceptedMoves ==
  ASSUME TypeInv, ClientInv, pending' \subseteq pending, NEW u \in Begun, NEW l \in Lanes,
         lanes[u][l].at = "sending", Accepted(u, l)
  PROVE  AnswerKeeps(u, lanes[u][l].item)
<1>1. uploads[u] \in Upload /\ uploads[u].file = FileOf(u) /\ lanes[u][l] \in Lane
  BY UploadFacts DEF TypeInv, FileOf
<1>2. CASE lanes[u][l].item = Commit
  <2> DEFINE x == [lanes[u][l] EXCEPT !.at = "ended"]
             y == [uploads[u] EXCEPT !.phase = "uploaded"]
  <2>1. x \in Lane /\ x.at = "ended"
    BY <1>1 DEF Lane
  <2>2. /\ y \in Upload /\ y.file = FileOf(u) /\ y.next = uploads[u].next
        /\ y.phase \notin {"parts", "commit"}
    BY <1>1 DEF Upload, Phases
  <2>3. lanes' = [lanes EXCEPT ![u][l] = x] /\ uploads' = [uploads EXCEPT ![u] = y]
    BY <1>2 DEF Accepted
  <2> HIDE DEF x, y
  <2>4. QED
    BY <2>1, <2>2, <2>3, SenderMoves
<1>3. CASE lanes[u][l].item # Commit
  <2> DEFINE y == uploads[u]
  <2>1. Resting \in Lane /\ Resting.at = "start"
    BY DEF Resting, Lane
  <2>2. lanes' = [lanes EXCEPT ![u][l] = Resting] /\ UNCHANGED uploads
    BY <1>3 DEF Accepted
  <2>3. uploads' = [uploads EXCEPT ![u] = y]
    <3>1. uploads \in [1 .. Len(uploads) -> Upload]
      BY LenProperties DEF TypeInv
    <3>2. QED
      BY <2>2, <3>1
  <2>4. y \in Upload /\ y.file = FileOf(u) /\ y.next = uploads[u].next /\ y.phase = uploads[u].phase
    BY <1>1
  <2> HIDE DEF y
  <2>5. lanes' = [lanes EXCEPT ![u][l] = Resting]
    BY <2>2
  <2>6. QED
    BY <1>3, <2>1, <2>3, <2>4, <2>5, SenderMoves
<1>4. QED
  BY <1>2, <1>3

\* A request is of an upload that has begun, and the sender that awaits its answer
\* is sending its item.
LEMMA AwaitingFacts ==
  ASSUME TypeInv, NEW r \in pending
  PROVE  /\ r.upload \in Begun
         /\ \A l \in Awaiting(r) : /\ l \in Lanes /\ lanes[r.upload][l].at = "sending"
                                   /\ lanes[r.upload][l].item = r.item
  BY DEF TypeInv, Awaiting

\* Nothing that goes wrong with a request takes a part out of flight, unless the
\* upload has failed.
LEMMA TroubleKeeps ==
  ASSUME TypeInv, ClientInv, pending' \subseteq pending, NEW r \in pending,
         Answered(r, Unanswered) \/ Answered(r, GiveUp)
  PROVE  AnswerKeeps(r.upload, Nothing)
<1>1. CASE UNCHANGED <<uploads, lanes>>
  BY <1>1, NoneAwaits
<1>2. CASE \E l \in Awaiting(r) : Unanswered(r.upload, l)
  BY <1>2, AwaitingFacts, TriedOrGivenUp
<1>3. CASE \E l \in Awaiting(r) : GiveUp(r.upload, l)
  BY <1>3, AwaitingFacts, GivenUp
<1>4. QED
  BY <1>1, <1>2, <1>3 DEF Answered

\* What was done is answered, or not: its item alone is no longer in flight.
LEMMA DoneKeeps ==
  ASSUME TypeInv, ClientInv, pending' \subseteq pending, NEW r \in pending, DoneThen(r)
  PROVE  AnswerKeeps(r.upload, r.item)
<1>1. CASE UNCHANGED <<uploads, lanes>>
  BY <1>1, NoneAwaits
<1>2. CASE \E l \in Awaiting(r) : Accepted(r.upload, l)
  <2>1. PICK l \in Awaiting(r) : Accepted(r.upload, l)
    BY <1>2
  <2>2. /\ l \in Lanes /\ lanes[r.upload][l].at = "sending" /\ lanes[r.upload][l].item = r.item
        /\ r.upload \in Begun
    BY AwaitingFacts
  <2>3. QED
    BY <2>1, <2>2, AcceptedMoves
<1>3. CASE \E l \in Awaiting(r) : Unanswered(r.upload, l)
  BY <1>3, AwaitingFacts, TriedOrGivenUp
<1>4. QED
  BY <1>1, <1>2, <1>3 DEF DoneThen, Answered

(***************************************************************************)
(* Each action preserves IInv.                                             *)
(***************************************************************************)

\* The file of an upload that wrote the blob does not change.
LEMMA BlobStays ==
  ASSUME TypeInv, BlobWhole, UNCHANGED blob, mingled \subseteq mingled',
         \A v \in Begun : FileOf(v)' = FileOf(v)
  PROVE  BlobWhole'
  BY DEF BlobWhole, TypeInv, Whole

\* A request is settled, or given up: what it may have written stands, and of the
\* other uploads what stood.
LEMMA SettledKeeps ==
  ASSUME IInv, NEW r \in pending, pending' \subseteq pending, mingled \subseteq mingled',
         NEW n, AnswerKeeps(r.upload, n),
         r.upload \notin mingled' /\ n \in 0 .. PartsOf(r.upload) - 1 => Stands(r.upload, n)',
         \A v \in Begun \ mingled' : Alive(v) =>
           \A k \in 0 .. PartsOf(v) - 1 : Stands(v, k) => Stands(v, k)',
         (staged = [b \in Blocks |-> staged[b]])',
         (blob.by \in {Nothing} \cup Begun)', BlobWhole'
  PROVE  IInv'
<1>1. TypeInv /\ ClientInv /\ SentInv /\ ReadyInv
  BY DEF IInv
<1>2. /\ uploads' \in Seq(Upload) /\ Len(uploads') = Len(uploads) /\ Begun' = Begun
      /\ lanes' \in [Uploads -> [Lanes -> Lane]] /\ ClientInv'
      /\ \A v \in Begun : FileOf(v)' = FileOf(v) /\ PartsOf(v)' = PartsOf(v)
  BY DEF AnswerKeeps
<1>3. TypeInv'
  <2>1. (\A q \in pending : /\ q.upload \in Begun
                            /\ q.item = Commit \/ q.item \in 0 .. PartsOf(q.upload) - 1)'
    BY <1>1, <1>2 DEF TypeInv, Commit
  <2>2. (uploads \in Seq(Upload) /\ Len(uploads) <= MaxUploads)'
    BY <1>1, <1>2 DEF TypeInv
  <2>3. (staged = [b \in Blocks |-> staged[b]] /\ blob.by \in {Nothing} \cup Begun)'
    OBVIOUS
  <2>4. (lanes \in [Uploads -> [Lanes -> Lane]])'
    BY <1>2 DEF Uploads
  <2>5. QED
    BY <2>1, <2>2, <2>3, <2>4 DEF TypeInv
<1>4. \A v \in Begun : v \in Begun' /\ PartsOf(v)' = PartsOf(v)
  BY <1>2
<1>5. ASSUME NEW v \in Begun' \ mingled', (uploads[v].phase = "parts")'
      PROVE  /\ v \in Begun /\ uploads[v].phase = "parts"
             /\ uploads'[v].next \in Nat /\ uploads'[v].next <= PartsOf(v)
             /\ \A k \in 0 .. uploads'[v].next - 1 :
                  InFlight(v, k)' \/ Stands(v, k)' \/ (k < uploads[v].next /\ ~InFlight(v, k))
  <2>1. /\ v \in Begun /\ uploads[v].phase = "parts" /\ uploads'[v].next = uploads[v].next
        /\ \A k : InFlight(v, k) => InFlight(v, k)' \/ (v = r.upload /\ k = n)
    BY <1>2, <1>5 DEF AnswerKeeps
  <2>2. uploads[v].next \in Nat /\ uploads[v].next <= PartsOf(v) /\ PartsOf(v) \in Nat
    BY <1>1, <2>1, UploadFacts DEF ClientInv, Client
  <2>3. ASSUME NEW k \in 0 .. uploads[v].next - 1
        PROVE  InFlight(v, k)' \/ Stands(v, k)' \/ (k < uploads[v].next /\ ~InFlight(v, k))
    <3>1. k < uploads[v].next /\ k \in 0 .. PartsOf(v) - 1
      BY <2>2, <2>3
    <3>2. CASE v = r.upload /\ k = n
      BY <1>5, <3>1, <3>2
    <3>3. QED
      BY <2>1, <3>1, <3>2
  <2>4. QED
    BY <2>1, <2>2, <2>3
<1>6. ASSUME NEW v \in Begun' \ mingled', (uploads[v].phase = "commit")' \/ CommitPending(v)'
      PROVE  v \in Begun /\ (uploads[v].phase = "commit" \/ CommitPending(v))
  <2>1. CommitPending(v)' => CommitPending(v)
    BY DEF CommitPending
  <2>2. QED
    BY <1>2, <1>6, <2>1 DEF AnswerKeeps
<1>7. SentInv' /\ ReadyInv'
  BY <1>1, <1>4, <1>5, <1>6, PartsKeep
<1>8. QED
  BY <1>2, <1>3, <1>7 DEF IInv

\* A request that writes nothing.
LEMMA TroubledStep ==
  ASSUME IInv, NEW r \in pending, pending' \subseteq pending, UNCHANGED <<staged, blob, mingled>>,
         Answered(r, Unanswered) \/ Answered(r, GiveUp)
  PROVE  IInv'
<1>1. TypeInv /\ ClientInv /\ BlobWhole
  BY DEF IInv
<1>2. AnswerKeeps(r.upload, Nothing)
  BY <1>1, TroubleKeeps
<1>3. Begun' = Begun /\ \A v \in Begun : FileOf(v)' = FileOf(v)
  BY <1>2 DEF AnswerKeeps
<1>4. \A v \in Begun : \A k : Stands(v, k) => Stands(v, k)'
  BY <1>3, StandsStill
<1>5. r.upload \in Begun /\ PartsOf(r.upload) \in Nat
  BY <1>1, AwaitingFacts, UploadFacts
<1>6. Nothing \notin 0 .. PartsOf(r.upload) - 1
  BY <1>5, BlobUploadAssumption
<1>7. (staged = [b \in Blocks |-> staged[b]])' /\ (blob.by \in {Nothing} \cup Begun)'
  BY <1>1, <1>3 DEF TypeInv
<1>8. BlobWhole'
  BY <1>1, <1>3, BlobStays
<1>9. QED
  BY <1>2, <1>4, <1>6, <1>7, <1>8, SettledKeeps

LEMMA RefuseBlockKeeps ==
  ASSUME IInv, NEW r \in pending, RefuseBlock(r)
  PROVE  IInv'
  BY TroubledStep DEF RefuseBlock, Settle

LEMMA RequestFailsKeeps ==
  ASSUME IInv, NEW r \in pending, RequestFails(r)
  PROVE  IInv'
  BY TroubledStep DEF RequestFails, Settle

LEMMA TimesOutKeeps ==
  ASSUME IInv, NEW r \in pending, TimesOut(r)
  PROVE  IInv'
  BY TroubledStep DEF TimesOut

\* Of the uploads beside which nothing else is written, those that may still
\* replace the blob are of the file that is.
LEMMA SameFile ==
  ASSUME TypeInv, NEW u, NEW file, mingled' = mingled \cup Mingles(u, file),
         NEW v \in Begun \ mingled', Alive(v), v # u
  PROVE  FileOf(v) = file
  BY DEF Mingles, Alive

\* A part that is staged is the latest under its block's id.
LEMMA StageBlockKeeps ==
  ASSUME IInv, NEW r \in pending, StageBlock(r)
  PROVE  IInv'
<1> DEFINE u == r.upload
           part == <<FileOf(u), r.item>>
<1>1. /\ TypeInv /\ ClientInv /\ BlobWhole
      /\ r.item # Commit /\ pending' \subseteq pending /\ DoneThen(r) /\ UNCHANGED blob
      /\ staged' = [staged EXCEPT ![r.item] = part]
      /\ mingled' = mingled \cup Mingles(u, FileOf(u))
  BY DEF IInv, StageBlock, Settle
<1>2. /\ u \in Begun /\ r.item \in 0 .. PartsOf(u) - 1 /\ FileOf(u) \in Files
      /\ \A v \in Begun : PartsOf(v) \in Nat /\ PartsOf(v) <= MaxParts
      /\ MaxParts \in Nat
  BY <1>1, UploadFacts, MostParts DEF TypeInv
<1>3. \A v \in Begun : \A k \in 0 .. PartsOf(v) - 1 : k \in Blocks
  BY <1>2 DEF Blocks
<1>4. staged = [b \in Blocks |-> staged[b]] /\ r.item \in Blocks
  BY <1>1, <1>2, <1>3 DEF TypeInv
<1>5. /\ staged' = [b \in Blocks |-> staged'[b]] /\ staged'[r.item] = part
      /\ \A b \in Blocks \ {r.item} : staged'[b] = staged[b]
  BY <1>1, <1>4
<1>6. part # Nothing
  BY <1>2, BlobUploadAssumption DEF PartsOf
<1>7. Latest(r.item)' = part /\ \A b \in Blocks \ {r.item} : Latest(b)' = Latest(b)
  <2> HIDE DEF part, u
  <2>1. QED
    BY <1>1, <1>5, <1>6 DEF Latest
<1>8. AnswerKeeps(u, r.item)
  BY <1>1, DoneKeeps
<1>9. Begun' = Begun /\ \A v \in Begun : FileOf(v)' = FileOf(v)
  BY <1>8 DEF AnswerKeeps
<1>10. Stands(u, r.item)'
  <2>1. FileOf(u)' = FileOf(u)
    BY <1>2, <1>9
  <2>2. QED
    BY <1>7, <2>1 DEF Stands
<1>11. ASSUME NEW v \in Begun \ mingled', Alive(v), NEW k \in 0 .. PartsOf(v) - 1, Stands(v, k)
       PROVE  Stands(v, k)'
  <2>1. FileOf(v) = FileOf(u)
    BY <1>1, <1>11, SameFile
  <2>2. FileOf(v)' = FileOf(v) /\ k \in Blocks
    BY <1>3, <1>9, <1>11
  <2>3. CASE k = r.item
    BY <1>7, <2>1, <2>2, <2>3 DEF Stands
  <2>4. CASE k # r.item
    <3>1. Latest(k)' = Latest(k)
      BY <1>7, <2>2, <2>4
    <3>2. QED
      BY <1>11, <2>2, <3>1 DEF Stands
  <2>5. QED
    BY <2>3, <2>4
<1>12. (blob.by \in {Nothing} \cup Begun)' /\ BlobWhole'
  BY <1>1, <1>9, BlobStays DEF TypeInv
<1>13. mingled \subseteq mingled'
  BY <1>1
<1> HIDE DEF part, u
<1>14. r.upload = u
  BY DEF u
<1>15. QED
  BY <1>1, <1>5, <1>8, <1>10, <1>11, <1>12, <1>13, <1>14, SettledKeeps

\* The blocks of a commit are the whole file, for each part of it stands.
LEMMA CommitBlocksKeeps ==
  ASSUME IInv, NEW r \in pending, CommitBlocks(r)
  PROVE  IInv'
<1> DEFINE u == r.upload
           list == [n \in 1 .. PartsOf(u) |-> Latest(n - 1)]
<1>1. /\ TypeInv /\ ClientInv /\ ReadyInv /\ BlobWhole
      /\ r.item = Commit /\ pending' \subseteq pending
      /\ mingled' = mingled \cup Mingles(u, FileOf(u))
  BY DEF IInv, CommitBlocks, Settle
<1>2. /\ u \in Begun /\ FileOf(u) \in Files
      /\ \A v \in Begun : PartsOf(v) \in Nat /\ PartsOf(v) <= MaxParts
      /\ MaxParts \in Nat
  BY <1>1, UploadFacts, MostParts DEF TypeInv
<1>3. CommitPending(u)
  BY <1>1 DEF CommitPending
<1>4. Commit \notin 0 .. PartsOf(u) - 1
  BY <1>2 DEF Commit
<1>5. CASE ~ \A n \in DOMAIN list : list[n] # Nothing
  <2>1. Answered(r, Unanswered) /\ UNCHANGED <<blob, staged>>
    BY <1>5 DEF CommitBlocks
  <2>2. AnswerKeeps(u, Nothing)
    BY <1>1, <2>1, TroubleKeeps
  <2>3. Begun' = Begun /\ \A v \in Begun : FileOf(v)' = FileOf(v)
    BY <2>2 DEF AnswerKeeps
  <2>4. \A v \in Begun : \A k : Stands(v, k) => Stands(v, k)'
    BY <2>1, <2>3, StandsStill
  <2>5. Nothing \notin 0 .. PartsOf(u) - 1
    BY <1>2, BlobUploadAssumption
  <2>6. (staged = [b \in Blocks |-> staged[b]])' /\ (blob.by \in {Nothing} \cup Begun)'
    BY <1>1, <2>1, <2>3 DEF TypeInv
  <2>7. mingled \subseteq mingled'
    BY <1>1
  <2>8. BlobWhole'
    BY <1>1, <2>1, <2>3, <2>7, BlobStays
  <2>9. r.upload = u
    OBVIOUS
  <2> HIDE DEF u
  <2>10. QED
    BY <1>1, <2>2, <2>4, <2>5, <2>6, <2>7, <2>8, <2>9, SettledKeeps
<1>6. CASE \A n \in DOMAIN list : list[n] # Nothing
  <2>1. /\ blob' = [parts |-> list, by |-> u, ids |-> TRUE]
        /\ staged' = [b \in Blocks |-> Nothing] /\ DoneThen(r)
    BY <1>6 DEF CommitBlocks
  <2>2. AnswerKeeps(u, Commit)
    BY <1>1, <2>1, DoneKeeps
  <2>3. Begun' = Begun /\ \A v \in Begun : FileOf(v)' = FileOf(v) /\ PartsOf(v)' = PartsOf(v)
    BY <2>2 DEF AnswerKeeps
  <2>4. Len(list) = PartsOf(u)
    <3> DEFINE Parted == {Latest(n - 1) : n \in 1 .. PartsOf(u)}
    <3>a. list \in [1 .. PartsOf(u) -> Parted] /\ DOMAIN list = 1 .. PartsOf(u)
      OBVIOUS
    <3> HIDE DEF list, Parted
    <3>1. list \in Seq(Parted)
      BY <1>2, <3>a, SeqDef
    <3>2. DOMAIN list = 1 .. PartsOf(u) /\ DOMAIN list = 1 .. Len(list) /\ Len(list) \in Nat
      BY <3>a, <3>1, LenProperties
    <3>3. QED
      BY <1>2, <3>2
  <2>5. ASSUME NEW k \in 0 .. PartsOf(u) - 1 PROVE Latest(k)' = Latest(k)
    <3>1. k + 1 \in 1 .. PartsOf(u) /\ k < PartsOf(u) /\ k \in Blocks
      BY <1>2, <2>5 DEF Blocks
    <3>2. list[k + 1] = Latest(k)
      BY <3>1
    <3> HIDE DEF list
    <3>3. Latest(k)' = list[k + 1]
      BY <2>1, <2>4, <3>1 DEF Latest
    <3>4. QED
      BY <3>2, <3>3
  <2>6. ASSUME NEW v \in Begun \ mingled', Alive(v), NEW k \in 0 .. PartsOf(v) - 1, Stands(v, k)
        PROVE  Stands(v, k)'
    <3>1. FileOf(v) = FileOf(u)
      BY <1>1, <2>6, SameFile
    <3>2. k \in 0 .. PartsOf(u) - 1 /\ FileOf(v)' = FileOf(v)
      BY <2>3, <2>6, <3>1 DEF PartsOf
    <3>3. QED
      BY <2>5, <2>6, <3>2 DEF Stands
  <2>7. BlobWhole'
    <3>1. SUFFICES ASSUME u \notin mingled' PROVE list = Whole(FileOf(u))
      BY <1>2, <2>1, <2>3 DEF BlobWhole, Whole
    <3>2. \A k \in 0 .. PartsOf(u) - 1 : Latest(k) \in {Nothing, <<FileOf(u), k>>}
      BY <1>1, <1>2, <1>3, <3>1 DEF ReadyInv, Stands
    <3>3. ASSUME NEW n \in 1 .. PartsOf(u) PROVE list[n] = <<FileOf(u), n - 1>>
      <4>1. n - 1 \in 0 .. PartsOf(u) - 1
        BY <1>2, <3>3
      <4>2. list[n] = Latest(n - 1) /\ list[n] # Nothing
        BY <1>6, <3>3
      <4>3. QED
        BY <3>2, <4>1, <4>2
    <3>4. QED
      BY <3>3 DEF Whole, PartsOf
  <2>8. (staged = [b \in Blocks |-> staged[b]])' /\ (blob.by \in {Nothing} \cup Begun)'
    BY <1>2, <2>1, <2>3
  <2>9. mingled \subseteq mingled'
    BY <1>1
  <2>10. r.upload = u
    OBVIOUS
  <2> HIDE DEF u, list
  <2>11. QED
    BY <1>1, <1>4, <2>2, <2>6, <2>7, <2>8, <2>9, <2>10, SettledKeeps
<1>7. QED
  BY <1>5, <1>6

\* An upload that begins has sent nothing yet.
LEMMA BeginsKeeps ==
  ASSUME IInv, NEW x \in Upload, x.next = 0, x.phase \in {"parts", "failed", "uploaded"},
         Len(uploads) < MaxUploads, uploads' = Append(uploads, x), UNCHANGED <<lanes, pending>>,
         mingled \subseteq mingled',
         \A v \in Begun \ mingled' : Alive(v) =>
           \A k \in 0 .. PartsOf(v) - 1 : Stands(v, k) => Stands(v, k)',
         (staged = [b \in Blocks |-> staged[b]])',
         (blob.by \in {Nothing} \cup Begun)', BlobWhole'
  PROVE  IInv'
<1>. PICK w : w = Len(uploads) + 1
  OBVIOUS
<1>1. TypeInv /\ ClientInv /\ SentInv /\ ReadyInv
  BY DEF IInv
<1>2. /\ uploads' \in Seq(Upload) /\ Len(uploads') = w /\ w \in Uploads \ Begun
      /\ Begun' = Begun \cup {w} /\ uploads'[w] = x /\ \A v \in Begun : uploads'[v] = uploads[v]
      /\ \A v \in Begun : FileOf(v)' = FileOf(v) /\ PartsOf(v)' = PartsOf(v)
  BY <1>1, UploadBegins
<1>3. /\ Len(uploads) \in Nat /\ MaxUploads \in Nat /\ x.file \in Files
      /\ \A f \in Files : Parts[f] \in Nat
  BY <1>1, UploadFacts, BlobUploadAssumption DEF Upload
<1>4. \A r \in pending : r.upload \in Begun
  BY <1>1 DEF TypeInv
<1>5. \A v : CommitPending(v)' <=> CommitPending(v)
  BY DEF CommitPending
<1>6. TypeInv'
  <2>1. (\A q \in pending : /\ q.upload \in Begun
                            /\ q.item = Commit \/ q.item \in 0 .. PartsOf(q.upload) - 1)'
    BY <1>1, <1>2 DEF TypeInv, Commit
  <2>2. (uploads \in Seq(Upload) /\ Len(uploads) <= MaxUploads)'
    BY <1>2, <1>3
  <2>3. (lanes \in [Uploads -> [Lanes -> Lane]])'
    BY <1>1 DEF TypeInv, Uploads
  <2>4. QED
    BY <2>1, <2>2, <2>3 DEF TypeInv
<1>7. Client(w)'
  <2>1. \A l \in Lanes : lanes'[w][l].at = "start"
    BY <1>1, <1>2 DEF ClientInv, Resting
  <2>2. ~CommitPending(w)'
    BY <1>2, <1>4 DEF CommitPending
  <2>3. PartsOf(w)' \in Nat
    BY <1>2, <1>3 DEF PartsOf, FileOf
  <2>4. QED
    BY <1>2, <2>1, <2>2, <2>3 DEF Client, Active
<1>8. ASSUME NEW v \in Begun PROVE Client(v)'
  BY <1>1, <1>2, <1>5, <1>8 DEF ClientInv, Client, Active
<1>9. ClientInv'
  <2>1. Uploads' \ Begun' \subseteq Uploads \ Begun
    BY <1>2 DEF Uploads
  <2>2. QED
    BY <1>1, <1>2, <1>7, <1>8, <2>1 DEF ClientInv, Resting
<1>10. ASSUME NEW v \in Begun' \ mingled', (uploads[v].phase = "parts")'
       PROVE  \/ (uploads[v].next)' = 0
              \/ /\ v \in Begun /\ uploads[v].phase = "parts"
                 /\ uploads'[v].next \in Nat /\ uploads'[v].next <= PartsOf(v)
                 /\ \A k \in 0 .. uploads'[v].next - 1 :
                      InFlight(v, k)' \/ Stands(v, k)' \/ (k < uploads[v].next /\ ~InFlight(v, k))
  <2>1. CASE v = w
    BY <1>2, <2>1
  <2>2. CASE v \in Begun
    <3>1. uploads'[v] = uploads[v] /\ Client(v) /\ uploads[v].next \in Nat
      BY <1>1, <1>2, <2>2, UploadFacts DEF ClientInv
    <3>2. \A k : InFlight(v, k)' <=> InFlight(v, k)
      BY DEF InFlight, Active
    <3>3. QED
      BY <1>10, <2>2, <3>1, <3>2 DEF Client
  <2>3. QED
    BY <1>2, <2>1, <2>2
<1>11. ASSUME NEW v \in Begun' \ mingled', (uploads[v].phase = "commit")' \/ CommitPending(v)'
       PROVE  v \in Begun /\ (uploads[v].phase = "commit" \/ CommitPending(v))
  BY <1>2, <1>4, <1>5, <1>11 DEF CommitPending
<1>12. \A v \in Begun : v \in Begun' /\ PartsOf(v)' = PartsOf(v)
  BY <1>2
<1>13. SentInv' /\ ReadyInv'
  BY <1>1, <1>10, <1>11, <1>12, PartsKeep
<1>14. QED
  BY <1>6, <1>9, <1>13 DEF IInv

LEMMA SubmitKeeps ==
  ASSUME IInv, NEW page \in Pages, NEW file \in Files, Submit(page, file)
  PROVE  IInv'
<1> DEFINE x == [page |-> page, file |-> file, next |-> 0,
                 phase |-> IF Parts[file] = 0 THEN "failed" ELSE "parts"]
<1>1. TypeInv /\ BlobWhole
  BY DEF IInv
<1>2. x \in Upload /\ x.next = 0 /\ x.phase \in {"parts", "failed", "uploaded"}
  BY DEF Upload, Phases
<1>3. /\ Len(uploads) < MaxUploads /\ uploads' = Append(uploads, x)
      /\ UNCHANGED <<lanes, pending, staged, blob, mingled>>
  BY DEF Submit
<1> HIDE DEF x
<1>4. \A v \in Begun : v \in Begun' /\ FileOf(v)' = FileOf(v)
  BY <1>1, <1>2, <1>3, UploadBegins
<1>5. \A v \in Begun : \A k : Stands(v, k) => Stands(v, k)'
  BY <1>3, <1>4, StandsStill
<1>6. (staged = [b \in Blocks |-> staged[b]])' /\ (blob.by \in {Nothing} \cup Begun)'
  BY <1>1, <1>3, <1>4 DEF TypeInv
<1>7. BlobWhole'
  BY <1>1, <1>3, <1>4, BlobStays
<1>8. QED
  BY <1>2, <1>3, <1>5, <1>6, <1>7, BeginsKeeps

\* The whole file in one request leaves no block that could be mistaken for a part.
LEMMA RunUploadToBlobKeeps ==
  ASSUME IInv, NEW file \in Files, RunUploadToBlob(file)
  PROVE  IInv'
<1> DEFINE x == [page |-> Nothing, file |-> file, next |-> 0, phase |-> "uploaded"]
           w == Len(uploads) + 1
<1>1. TypeInv
  BY DEF IInv
<1>2. x \in Upload /\ x.next = 0 /\ x.phase \in {"parts", "failed", "uploaded"} /\ x.file = file
  BY DEF Upload, Phases
<1>3. /\ Len(uploads) < MaxUploads /\ uploads' = Append(uploads, x) /\ UNCHANGED <<lanes, pending>>
      /\ blob' = [parts |-> Whole(file), by |-> w, ids |-> FALSE]
      /\ staged' = [b \in Blocks |-> Nothing]
      /\ mingled \subseteq mingled'
  BY DEF RunUploadToBlob
<1> HIDE DEF x
<1>4. w \in Begun' /\ uploads'[w] = x
  BY <1>1, <1>2, <1>3, UploadBegins
<1>5. ASSUME NEW v, NEW k \in 0 .. PartsOf(v) - 1, PartsOf(v) \in Nat, PartsOf(v) <= MaxParts
      PROVE  Stands(v, k)'
  <2>1. k \in Blocks
    BY <1>5, MostParts DEF Blocks
  <2>2. Latest(k)' = Nothing
    BY <1>3, <2>1 DEF Latest
  <2>3. QED
    BY <2>2 DEF Stands
<1>6. \A v \in Begun : \A k \in 0 .. PartsOf(v) - 1 : Stands(v, k)'
  BY <1>1, <1>5, UploadFacts
<1>7. BlobWhole'
  BY <1>2, <1>3, <1>4 DEF BlobWhole, FileOf, Whole
<1>8. (staged = [b \in Blocks |-> staged[b]])' /\ (blob.by \in {Nothing} \cup Begun)'
  BY <1>3, <1>4
<1> HIDE DEF w
<1>9. QED
  BY <1>2, <1>3, <1>6, <1>7, <1>8, BeginsKeeps

\* A step of one upload's own page, which writes nothing.
LEMMA PageKeeps ==
  ASSUME IInv, NEW u \in Begun, NEW y \in Upload, y.file = FileOf(u),
         uploads' = [uploads EXCEPT ![u] = y], UNCHANGED <<staged, blob, mingled>>,
         (lanes \in [Uploads -> [Lanes -> Lane]])', \A v \in Uploads \ {u} : lanes'[v] = lanes[v],
         \A q \in pending' :
           \/ q \in pending
           \/ q.upload = u /\ (q.item = Commit \/ q.item \in 0 .. PartsOf(u) - 1),
         Client(u)',
         y.phase = "parts" =>
           /\ uploads[u].phase = "parts"
           /\ \A k \in 0 .. y.next - 1 : InFlight(u, k)' \/ (k < uploads[u].next /\ ~InFlight(u, k)),
         y.phase = "commit" \/ CommitPending(u)' =>
           \/ uploads[u].phase = "commit" \/ CommitPending(u)
           \/ /\ uploads[u].phase = "parts" /\ uploads[u].next = PartsOf(u)
              /\ \A k : ~InFlight(u, k)
  PROVE  IInv'
<1>1. TypeInv /\ ClientInv /\ SentInv /\ ReadyInv /\ BlobWhole
  BY DEF IInv
<1>2. /\ uploads' \in Seq(Upload) /\ Len(uploads') = Len(uploads) /\ Begun' = Begun
      /\ uploads'[u] = y /\ \A v \in Begun \ {u} : uploads'[v] = uploads[v]
      /\ \A v \in Begun : FileOf(v)' = FileOf(v) /\ PartsOf(v)' = PartsOf(v)
  BY <1>1, UploadTurns
<1>3. \A v \in Begun \ {u} : CommitPending(v)' => CommitPending(v)
  BY DEF CommitPending
<1>4. ClientInv'
  BY <1>1, <1>2, <1>3, ClientsKeep
<1>5. TypeInv'
  <2>1. (\A q \in pending : /\ q.upload \in Begun
                            /\ q.item = Commit \/ q.item \in 0 .. PartsOf(q.upload) - 1)'
    <3>1. SUFFICES ASSUME NEW q \in pending'
                   PROVE  /\ q.upload \in Begun
                          /\ q.item = Commit \/ q.item \in 0 .. PartsOf(q.upload) - 1
      BY <1>2 DEF Commit
    <3>2. QED
      BY <1>1 DEF TypeInv
  <2>2. (uploads \in Seq(Upload) /\ Len(uploads) <= MaxUploads)'
    BY <1>1, <1>2 DEF TypeInv
  <2>3. (staged = [b \in Blocks |-> staged[b]] /\ blob.by \in {Nothing} \cup Begun)'
    BY <1>1, <1>2 DEF TypeInv
  <2>4. QED
    BY <2>1, <2>2, <2>3 DEF TypeInv
<1>6. \A v \in Begun : \A k : Stands(v, k)' <=> Stands(v, k)
  BY <1>2, StandsStill
<1>7. \A v \in Begun \ {u} : \A k : InFlight(v, k)' <=> InFlight(v, k)
  BY <1>1, UploadFacts DEF InFlight, Active
<1>8. ASSUME NEW v \in Begun' \ mingled', (uploads[v].phase = "parts")'
      PROVE  /\ v \in Begun /\ uploads[v].phase = "parts"
             /\ uploads'[v].next \in Nat /\ uploads'[v].next <= PartsOf(v)
             /\ \A k \in 0 .. uploads'[v].next - 1 :
                  InFlight(v, k)' \/ Stands(v, k)' \/ (k < uploads[v].next /\ ~InFlight(v, k))
  <2>1. v \in Begun
    BY <1>2, <1>8
  <2>2. CASE v = u
    <3>1. y.next \in Nat /\ y.next <= PartsOf(u)
      BY <1>2 DEF Upload, Client
    <3>2. QED
      BY <1>2, <1>8, <2>1, <2>2, <3>1
  <2>3. CASE v # u
    <3>1. uploads'[v] = uploads[v] /\ Client(v) /\ uploads[v].next \in Nat
      BY <1>1, <1>2, <2>1, <2>3, UploadFacts DEF ClientInv
    <3>2. QED
      BY <1>7, <1>8, <2>1, <2>3, <3>1 DEF Client
  <2>4. QED
    BY <2>2, <2>3
<1>9. ASSUME NEW v \in Begun' \ mingled', (uploads[v].phase = "commit")' \/ CommitPending(v)'
      PROVE  /\ v \in Begun
             /\ \/ uploads[v].phase = "commit" \/ CommitPending(v)
                \/ /\ uploads[v].phase = "parts" /\ uploads[v].next = PartsOf(v)
                   /\ \A k \in 0 .. PartsOf(v) - 1 : ~InFlight(v, k)
  <2>1. v \in Begun
    BY <1>2, <1>9
  <2>2. CASE v = u
    BY <1>2, <1>9, <2>1, <2>2
  <2>3. CASE v # u
    BY <1>2, <1>3, <1>9, <2>1, <2>3
  <2>4. QED
    BY <2>2, <2>3
<1>10. /\ mingled \subseteq mingled' /\ \A v \in Begun : v \in Begun' /\ PartsOf(v)' = PartsOf(v)
  BY <1>2
<1>11. SentInv' /\ ReadyInv'
  BY <1>1, <1>6, <1>8, <1>9, <1>10, PartsKeep
<1>12. BlobWhole'
  BY <1>1, <1>2, <1>10, BlobStays
<1>13. QED
  BY <1>4, <1>5, <1>11, <1>12 DEF IInv

\* A part that is taken is in flight; a sender ends when all have been taken.
LEMMA TakePartKeeps ==
  ASSUME IInv, NEW u \in Begun, NEW l \in Lanes, TakePart(u, l)
  PROVE  IInv'
<1>. PICK n : n = uploads[u].next
  OBVIOUS
<1>1. TypeInv /\ ClientInv /\ Client(u)
  BY DEF IInv, ClientInv
<1>2. /\ uploads[u] \in Upload /\ n \in Nat /\ PartsOf(u) \in Nat /\ PartsOf(u) <= MaxParts
      /\ MaxParts \in Nat /\ u \in Uploads /\ n <= PartsOf(u) /\ uploads[u].file = FileOf(u)
  BY <1>1, UploadFacts, MostParts DEF Client, FileOf
<1>3. lanes[u][l] \in Lane /\ lanes[u][l].at = "start" /\ uploads[u].phase \in {"parts", "failed"}
  BY <1>1, <1>2 DEF TakePart, TypeInv
<1>4. UNCHANGED <<staged, blob, mingled>>
  BY DEF TakePart
<1>5. CASE n < PartsOf(u)
  <2>1. PICK x : x = [at |-> "sending", item |-> n, tries |-> 1]
    OBVIOUS
  <2>2. PICK y : y = [uploads[u] EXCEPT !.next = n + 1]
    OBVIOUS
  <2>3. /\ uploads' = [uploads EXCEPT ![u] = y] /\ lanes' = [lanes EXCEPT ![u][l] = x]
        /\ pending' = pending \cup {Request(u, n, 1)}
    BY <1>5, <2>1, <2>2 DEF TakePart
  <2>4. x \in Lane /\ x.at = "sending" /\ x.item = n
    BY <1>2, <2>1 DEF Lane
  <2>5. y \in Upload /\ y.file = FileOf(u) /\ y.next = n + 1 /\ y.phase = uploads[u].phase
    BY <1>2, <2>2 DEF Upload
  <2>6. n \in 0 .. PartsOf(u) - 1 /\ n # Commit
    BY <1>2, <1>5 DEF Commit
  <2>7. /\ lanes' \in [Uploads -> [Lanes -> Lane]] /\ lanes'[u][l] = x
        /\ \A k \in Lanes \ {l} : lanes'[u][k] = lanes[u][k]
        /\ \A v \in Uploads \ {u} : lanes'[v] = lanes[v]
    BY <1>1, <1>2, <2>3, <2>4, LaneTurns
  <2>8. uploads'[u] = y /\ PartsOf(u)' = PartsOf(u)
    BY <1>1, <2>3, <2>5, UploadTurns
  <2>9. \A q \in pending' :
          q \in pending \/ (q.upload = u /\ q.item = n)
    BY <2>3 DEF Request
  <2>10. CommitPending(u)' => CommitPending(u)
    BY <2>6, <2>9 DEF CommitPending, Commit
  <2>11. Client(u)'
    <3>1. (uploads[u].next <= PartsOf(u))'
      BY <1>2, <1>5, <2>5, <2>8
    <3>2. (\A k \in Lanes : Active(u, k) /\ lanes[u][k].item # Commit =>
             lanes[u][k].item \in 0 .. PartsOf(u) - 1)'
      BY <1>1, <2>4, <2>6, <2>7, <2>8 DEF Client, Active, Commit
    <3>3. (\A k \in Lanes : Active(u, k) /\ lanes[u][k].item = Commit => uploads[u].phase = "commit")'
      BY <1>1, <2>4, <2>5, <2>6, <2>7, <2>8 DEF Client, Active, Commit
    <3>4. y.phase # "commit"
      BY <1>3, <2>5
    <3>5. (uploads[u].phase = "parts" =>
             /\ ~CommitPending(u)
             /\ \A k \in Lanes : lanes[u][k].at = "ended" => uploads[u].next = PartsOf(u))'
      BY <1>1, <1>2, <1>5, <2>4, <2>5, <2>7, <2>8, <2>10 DEF Client
    <3>6. QED
      BY <2>8, <3>1, <3>2, <3>3, <3>4, <3>5 DEF Client
  <2>12. ASSUME NEW k \in 0 .. y.next - 1
         PROVE  InFlight(u, k)' \/ (k < uploads[u].next /\ ~InFlight(u, k))
    <3>1. k = n \/ k < n
      BY <1>2, <2>5, <2>12
    <3>2. InFlight(u, n)'
      BY <2>4, <2>7 DEF InFlight, Active
    <3>3. InFlight(u, k) => InFlight(u, k)'
      BY <1>3, <2>7 DEF InFlight, Active
    <3>4. QED
      BY <3>1, <3>2, <3>3
  <2>13. /\ y.phase = "parts" => uploads[u].phase = "parts"
         /\ y.phase = "commit" \/ CommitPending(u)' => uploads[u].phase = "commit" \/ CommitPending(u)
    BY <2>5, <2>10
  <2>14. \A q \in pending' :
           \/ q \in pending
           \/ q.upload = u /\ (q.item = Commit \/ q.item \in 0 .. PartsOf(u) - 1)
    BY <2>6, <2>9
  <2>15. (lanes \in [Uploads -> [Lanes -> Lane]])'
    BY <2>7 DEF Uploads
  <2>16. \A v \in Uploads \ {u} : lanes'[v] = lanes[v]
    BY <2>7
  <2>17. uploads' = [uploads EXCEPT ![u] = y]
    BY <2>3
  <2>18. y \in Upload /\ y.file = FileOf(u)
    BY <2>5
  <2>19. QED
    BY <1>4, <2>11, <2>12, <2>13, <2>14, <2>15, <2>16, <2>17, <2>18, PageKeeps
<1>6. CASE ~(n < PartsOf(u))
  <2>1. PICK x : x = [lanes[u][l] EXCEPT !.at = "ended"]
    OBVIOUS
  <2>2. lanes' = [lanes EXCEPT ![u][l] = x] /\ UNCHANGED <<uploads, pending>>
    BY <1>6, <2>1 DEF TakePart
  <2>3. x \in Lane /\ x.at = "ended"
    BY <1>3, <2>1 DEF Lane
  <2>4. /\ lanes' \in [Uploads -> [Lanes -> Lane]] /\ lanes'[u][l] = x
        /\ \A k \in Lanes \ {l} : lanes'[u][k] = lanes[u][k]
        /\ \A v \in Uploads \ {u} : lanes'[v] = lanes[v]
    BY <1>1, <1>2, <2>2, <2>3, LaneTurns
  <2>5. uploads' = [uploads EXCEPT ![u] = uploads[u]]
    <3>1. uploads \in [1 .. Len(uploads) -> Upload]
      BY <1>1, LenProperties DEF TypeInv
    <3>2. QED
      BY <2>2, <3>1
  <2>6. (CommitPending(u)' <=> CommitPending(u)) /\ PartsOf(u)' = PartsOf(u)
    BY <2>2 DEF CommitPending, PartsOf, FileOf
  <2>7. n = PartsOf(u)
    BY <1>2, <1>6
  <2>8. \A k \in Lanes : Active(u, k)' => Active(u, k) /\ lanes'[u][k] = lanes[u][k]
    BY <2>3, <2>4 DEF Active
  <2>9. Client(u)'
    BY <1>1, <1>3, <2>2, <2>6, <2>7, <2>8 DEF Client, Commit
  <2>10. \A k : InFlight(u, k) => InFlight(u, k)'
    BY <1>3, <2>4 DEF InFlight, Active
  <2>11. ASSUME NEW k \in 0 .. uploads[u].next - 1
         PROVE  InFlight(u, k)' \/ (k < uploads[u].next /\ ~InFlight(u, k))
    BY <1>2, <2>10, <2>11
  <2>12. (lanes \in [Uploads -> [Lanes -> Lane]])'
    BY <2>4 DEF Uploads
  <2>13. \A v \in Uploads \ {u} : lanes'[v] = lanes[v]
    BY <2>4
  <2>14. pending' = pending
    BY <2>2
  <2>15. QED
    BY <1>2, <1>4, <2>5, <2>6, <2>9, <2>11, <2>12, <2>13, <2>14, PageKeeps
<1>7. QED
  BY <1>5, <1>6

\* The commit is sent when nothing is in flight: all the parts stand.
LEMMA SendCommitKeeps ==
  ASSUME IInv, NEW u \in Begun, SendCommit(u)
  PROVE  IInv'
<1>1. TypeInv /\ ClientInv /\ Client(u)
  BY DEF IInv, ClientInv
<1>2. /\ uploads[u] \in Upload /\ MaxParts \in Nat /\ u \in Uploads /\ uploads[u].file = FileOf(u)
      /\ PartsOf(u) \in Nat
  BY <1>1, UploadFacts, MostParts DEF FileOf
<1>3. /\ uploads[u].phase = "parts" /\ \A k \in Lanes : lanes[u][k].at = "ended"
      /\ UNCHANGED <<staged, blob, mingled>>
  BY DEF SendCommit
<1>4. PICK l : l = (CHOOSE k \in Lanes : TRUE)
  OBVIOUS
<1>5. PICK x : x = [at |-> "sending", item |-> Commit, tries |-> 1]
  OBVIOUS
<1>6. PICK y : y = [uploads[u] EXCEPT !.phase = "commit"]
  OBVIOUS
<1>7. l \in Lanes
  BY <1>4, BlobUploadAssumption
<1>8. /\ uploads' = [uploads EXCEPT ![u] = y] /\ lanes' = [lanes EXCEPT ![u][l] = x]
      /\ pending' = pending \cup {Request(u, Commit, 1)}
  BY <1>4, <1>5, <1>6 DEF SendCommit
<1>9. x \in Lane /\ x.item = Commit
  BY <1>2, <1>5 DEF Lane, Commit
<1>10. y \in Upload /\ y.file = FileOf(u) /\ y.phase = "commit" /\ y.next = uploads[u].next
  BY <1>2, <1>6 DEF Upload, Phases
<1>11. /\ lanes' \in [Uploads -> [Lanes -> Lane]] /\ lanes'[u][l] = x
       /\ \A k \in Lanes \ {l} : lanes'[u][k] = lanes[u][k]
       /\ \A v \in Uploads \ {u} : lanes'[v] = lanes[v]
  BY <1>1, <1>2, <1>7, <1>8, <1>9, LaneTurns
<1>12. uploads'[u] = y /\ PartsOf(u)' = PartsOf(u)
  BY <1>1, <1>8, <1>10, UploadTurns
<1>13. \A k \in Lanes \ {l} : lanes'[u][k].at = "ended"
  BY <1>3, <1>11
<1>14. Client(u)'
  <2>1. \A k \in Lanes : Active(u, k)' => lanes'[u][k].item = Commit
    BY <1>9, <1>11, <1>13 DEF Active
  <2>2. y.next <= PartsOf(u)
    BY <1>1, <1>10 DEF Client
  <2>3. QED
    BY <1>10, <1>12, <1>13, <2>1, <2>2 DEF Client, Commit
<1>15. uploads[u].next = PartsOf(u)
  BY <1>1, <1>3, <1>7 DEF Client
<1>16. \A k : ~InFlight(u, k)
  BY <1>3 DEF InFlight, Active
<1>17. \A q \in pending' :
         \/ q \in pending
         \/ q.upload = u /\ (q.item = Commit \/ q.item \in 0 .. PartsOf(u) - 1)
  BY <1>8 DEF Request
<1>18. (lanes \in [Uploads -> [Lanes -> Lane]])'
  BY <1>11 DEF Uploads
<1>19. \A v \in Uploads \ {u} : lanes'[v] = lanes[v]
  BY <1>11
<1>20. uploads' = [uploads EXCEPT ![u] = y]
  BY <1>8
<1>21. QED
  BY <1>3, <1>10, <1>14, <1>15, <1>16, <1>17, <1>18, <1>19, <1>20, PageKeeps

\* Tried again is in flight still.
LEMMA TryAgainKeeps ==
  ASSUME IInv, NEW u \in Begun, NEW l \in Lanes, TryAgain(u, l)
  PROVE  IInv'
<1>1. TypeInv /\ ClientInv /\ Client(u)
  BY DEF IInv, ClientInv
<1>2. /\ uploads[u] \in Upload /\ MaxParts \in Nat /\ u \in Uploads /\ uploads[u].file = FileOf(u)
      /\ PartsOf(u) \in Nat /\ uploads[u].next \in Nat
  BY <1>1, UploadFacts, MostParts DEF FileOf
<1>3. lanes[u][l] \in Lane /\ lanes[u][l].at = "waiting" /\ UNCHANGED <<staged, blob, mingled>>
  BY <1>1, <1>2 DEF TryAgain, TypeInv
<1>4. PICK x : x = [lanes[u][l] EXCEPT !.at = "sending", !.tries = @ + 1]
  OBVIOUS
<1>5. PICK item : item = lanes[u][l].item
  OBVIOUS
<1>6. /\ lanes' = [lanes EXCEPT ![u][l] = x] /\ UNCHANGED uploads
      /\ pending' = pending \cup {Request(u, item, lanes[u][l].tries + 1)}
  BY <1>4, <1>5 DEF TryAgain
<1>7. x \in Lane /\ x.at = "sending" /\ x.item = item
  <2>1. lanes[u][l].tries + 1 \in Nat /\ item \in Nat \cup {Nothing}
    BY <1>3, <1>5 DEF Lane
  <2>2. x = [at |-> "sending", item |-> item, tries |-> lanes[u][l].tries + 1]
    BY <1>3, <1>4, <1>5 DEF Lane
  <2>3. QED
    BY <2>1, <2>2 DEF Lane
<1>8. /\ lanes' \in [Uploads -> [Lanes -> Lane]] /\ lanes'[u][l] = x
      /\ \A k \in Lanes \ {l} : lanes'[u][k] = lanes[u][k]
      /\ \A v \in Uploads \ {u} : lanes'[v] = lanes[v]
  BY <1>1, <1>2, <1>6, <1>7, LaneTurns
<1>9. uploads' = [uploads EXCEPT ![u] = uploads[u]]
  <2>1. uploads \in [1 .. Len(uploads) -> Upload]
    BY <1>1, LenProperties DEF TypeInv
  <2>2. QED
    BY <1>6, <2>1
<1>10. \A q \in pending' : q \in pending \/ (q.upload = u /\ q.item = item)
  BY <1>6 DEF Request
<1>11. PartsOf(u)' = PartsOf(u) /\ FileOf(u)' = FileOf(u)
  BY <1>6 DEF PartsOf, FileOf
<1>12. /\ item # Commit => item \in 0 .. PartsOf(u) - 1
       /\ item = Commit => uploads[u].phase = "commit"
  BY <1>1, <1>3, <1>5 DEF Client, Active
<1>13. CommitPending(u)' => CommitPending(u) \/ uploads[u].phase = "commit"
  BY <1>10, <1>12 DEF CommitPending, Commit
<1>14. \A k \in Lanes : /\ Active(u, k)' <=> Active(u, k)
                        /\ lanes'[u][k].item = lanes[u][k].item
                        /\ lanes'[u][k].at = "ended" <=> lanes[u][k].at = "ended"
  BY <1>3, <1>5, <1>7, <1>8 DEF Active
<1>15. Client(u)'
  BY <1>1, <1>6, <1>11, <1>13, <1>14 DEF Client, Commit
<1>16. \A k : InFlight(u, k)' <=> InFlight(u, k)
  BY <1>14 DEF InFlight
<1>17. ASSUME NEW k \in 0 .. uploads[u].next - 1
       PROVE  InFlight(u, k)' \/ (k < uploads[u].next /\ ~InFlight(u, k))
  BY <1>2, <1>16, <1>17
<1>18. \A q \in pending' :
         \/ q \in pending
         \/ q.upload = u /\ (q.item = Commit \/ q.item \in 0 .. PartsOf(u) - 1)
  BY <1>10, <1>12
<1>19. (lanes \in [Uploads -> [Lanes -> Lane]])'
  BY <1>8 DEF Uploads
<1>20. \A v \in Uploads \ {u} : lanes'[v] = lanes[v]
  BY <1>8
<1>21. QED
  BY <1>2, <1>3, <1>9, <1>13, <1>15, <1>17, <1>18, <1>19, <1>20, PageKeeps

\* A page that is left sends nothing more.
LEMMA LeaveKeeps ==
  ASSUME IInv, NEW u \in Begun, Leave(u)
  PROVE  IInv'
<1>1. TypeInv /\ ClientInv /\ Client(u)
  BY DEF IInv, ClientInv
<1>2. /\ uploads[u] \in Upload /\ u \in Uploads /\ uploads[u].file = FileOf(u)
  BY <1>1, UploadFacts DEF FileOf
<1>3. PICK y : y = [uploads[u] EXCEPT !.phase = "left"]
  OBVIOUS
<1>4. PICK x : x = [Resting EXCEPT !.at = "ended"]
  OBVIOUS
<1>5. /\ uploads' = [uploads EXCEPT ![u] = y] /\ UNCHANGED <<pending, staged, blob, mingled>>
      /\ lanes' = [lanes EXCEPT ![u] = [l \in Lanes |-> x]]
  BY <1>3, <1>4 DEF Leave
<1>6. y \in Upload /\ y.file = FileOf(u) /\ y.phase = "left" /\ y.next = uploads[u].next
  BY <1>2, <1>3 DEF Upload, Phases
<1>7. x \in Lane /\ x.at = "ended"
  BY <1>4 DEF Resting, Lane
<1>8. lanes \in [Uploads -> [Lanes -> Lane]]
  BY <1>1 DEF TypeInv
<1>9. /\ lanes' \in [Uploads -> [Lanes -> Lane]]
      /\ \A k \in Lanes : lanes'[u][k] = x
      /\ \A v \in Uploads \ {u} : lanes'[v] = lanes[v]
  BY <1>2, <1>5, <1>7, <1>8
<1>10. uploads'[u] = y /\ PartsOf(u)' = PartsOf(u)
  BY <1>1, <1>5, <1>6, UploadTurns
<1>11. Client(u)'
  BY <1>1, <1>6, <1>7, <1>9, <1>10 DEF Client, Active
<1>12. CommitPending(u)' => CommitPending(u)
  BY <1>5 DEF CommitPending
<1>13. (lanes \in [Uploads -> [Lanes -> Lane]])'
  BY <1>9 DEF Uploads
<1>14. \A v \in Uploads \ {u} : lanes'[v] = lanes[v]
  BY <1>9
<1>15. pending' = pending
  BY <1>5
<1>16. uploads' = [uploads EXCEPT ![u] = y] /\ UNCHANGED <<staged, blob, mingled>>
  BY <1>5
<1>17. QED
  BY <1>6, <1>11, <1>12, <1>13, <1>14, <1>15, <1>16, PageKeeps

LEMMA IInvInitially == UploadInit => IInv
<1>1. SUFFICES ASSUME UploadInit PROVE IInv
  OBVIOUS
<1>2. uploads = <<>> /\ uploads \in Seq(Upload) /\ Len(uploads) = 0
  BY <1>1, EmptySeq DEF UploadInit
<1>3. Begun = {} /\ MaxUploads \in Nat
  BY <1>2, LenProperties, BlobUploadAssumption DEF Begun
<1>4. lanes = [u \in Uploads |-> [l \in Lanes |-> Resting]] /\ Resting \in Lane
  BY <1>1 DEF UploadInit, Resting, Lane
<1>5. TypeInv
  BY <1>1, <1>2, <1>3, <1>4 DEF UploadInit, TypeInv
<1>6. ClientInv
  BY <1>3, <1>4 DEF ClientInv
<1>7. BlobWhole
  BY <1>1 DEF UploadInit, BlobWhole
<1>8. QED
  BY <1>3, <1>5, <1>6, <1>7 DEF IInv, SentInv, ReadyInv

LEMMA IInvKept == IInv /\ [UploadNext]_uploadVars => IInv'
<1>1. SUFFICES ASSUME IInv, [UploadNext]_uploadVars PROVE IInv'
  OBVIOUS
<1>2. ASSUME NEW page \in Pages, NEW file \in Files, Submit(page, file) PROVE IInv'
  BY <1>1, <1>2, SubmitKeeps
<1>3. ASSUME NEW file \in Files, RunUploadToBlob(file) PROVE IInv'
  BY <1>1, <1>3, RunUploadToBlobKeeps
<1>4. ASSUME NEW u \in Begun, ScriptStep(u) \/ Leave(u) PROVE IInv'
  BY <1>1, <1>4, SendCommitKeeps, TakePartKeeps, TryAgainKeeps, LeaveKeeps DEF ScriptStep
<1>5. ASSUME NEW r \in pending, Serve(r) \/ RequestFails(r) \/ TimesOut(r) PROVE IInv'
  BY <1>1, <1>5, StageBlockKeeps, RefuseBlockKeeps, CommitBlocksKeeps, RequestFailsKeeps,
     TimesOutKeeps DEF Serve
<1>6. CASE UNCHANGED uploadVars
  <2>1. UNCHANGED <<uploads, lanes, pending, staged, blob, mingled>>
    BY <1>6 DEF uploadVars
  <2>2. /\ Begun' = Begun /\ \A u : FileOf(u)' = FileOf(u) /\ PartsOf(u)' = PartsOf(u)
        /\ \A u, l : Active(u, l)' <=> Active(u, l)
        /\ \A u : CommitPending(u)' <=> CommitPending(u)
    BY <2>1 DEF Begun, FileOf, PartsOf, Active, CommitPending
  <2>3. \A u, n : (InFlight(u, n)' <=> InFlight(u, n)) /\ (Stands(u, n)' <=> Stands(u, n))
    BY <2>1, <2>2, StandsStill DEF InFlight
  <2>4. TypeInv'
    BY <1>1, <2>1, <2>2 DEF IInv, TypeInv, Uploads
  <2>5. \A u : Client(u) => Client(u)'
    BY <2>1, <2>2 DEF Client
  <2>6. ClientInv'
    BY <1>1, <2>1, <2>2, <2>5 DEF IInv, ClientInv
  <2>7. SentInv'
    BY <1>1, <2>1, <2>2, <2>3 DEF IInv, SentInv
  <2>8. ReadyInv'
    BY <1>1, <2>1, <2>2, <2>3 DEF IInv, ReadyInv
  <2>9. BlobWhole'
    BY <1>1, <2>1, <2>2 DEF IInv, BlobWhole, Whole
  <2>10. QED
    BY <2>4, <2>6, <2>7, <2>8, <2>9 DEF IInv
<1>7. QED
  BY <1>1, <1>2, <1>3, <1>4, <1>5, <1>6 DEF UploadNext

\* public/javascripts/blob-upload.js and admin/upload-to-blob/controller.ts: for any
\* files, pages, senders, attempts and troubles, what an upload leaves in the blob is
\* its whole file, each part once and in order, unless another file was written under
\* the name meanwhile: retries, late requests and lost answers never tear it.
THEOREM UploadsAreWhole == UploadSpec => UploadedIsWhole
<1>1. IInv' => (blob'.by # Nothing /\ blob'.by \notin mingled'
                  => blob'.parts = Whole(uploads'[blob'.by].file))
  BY DEF IInv, BlobWhole, FileOf, Whole
<1>2. IInv /\ [UploadNext]_uploadVars =>
        [blob'.by # Nothing /\ blob'.by \notin mingled'
           => blob'.parts = Whole(uploads'[blob'.by].file)]_uploadVars
  BY <1>1, IInvKept
<1>3. QED
  BY <1>2, IInvInitially, IInvKept, PTL DEF UploadSpec, UploadedIsWhole

=============================================================================
