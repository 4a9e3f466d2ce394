-------------------------------- MODULE Media --------------------------------
(***************************************************************************)
(* Uploaded images: registered, attached to a project, a talent card or a  *)
(* milestone, replaced, and deleted from the object store in the end; and  *)
(* the certification of milestones, whose evidence such images are.        *)
(*                                                                         *)
(* Images of a project or a card are replaced under the lock of its row.   *)
(* A submission of evidence and an edit of the milestones look at their    *)
(* tables first and act on that snapshot.  Objects are deleted after the   *)
(* commit, by the request or by a scheduler that claims old rows.          *)
(* One user's images: those of another match no query.                     *)
(***************************************************************************)
EXTENDS Naturals, FiniteSets

CONSTANTS
  None,
  Keys,        \* object keys, never used again
  Albums,      \* projects and talent cards
  Milestones,
  Calls,       \* requests, and the scheduler's rounds
  MaxRequests  \* bound: requests

VARIABLES
  upload,    \* media_upload
  images,    \* project_image, talent_work_image and project_milestone_evidence
  stored,    \* the objects in the store
  cert,      \* project_milestones.certification_status
  call,
  requests

vars == <<upload, images, stored, cert, call, requests>>

Holders == Albums \cup Milestones
\* at: where the image is attached; old: unattached for a day, or claimed for an hour.
Uploads == [at : {None, "cleanup"} \cup Holders, evidence : BOOLEAN, old : BOOLEAN]
NoUpload == [at |-> "absent", evidence |-> FALSE, old |-> FALSE]
Certifications == {"absent", "open", "pending", "certified", "rejected"}

NoCall == [op |-> "idle", m |-> None, keys |-> {}, seen |-> "absent"]
CallRecords ==
  [op : {"idle", "register", "submit", "edit", "delete"}, m : Milestones \cup {None},
   keys : SUBSET Keys, seen : Certifications]

TypeOK ==
  /\ upload \in [Keys -> Uploads \cup {NoUpload}]
  /\ images \in [Holders -> SUBSET Keys]
  /\ stored \subseteq Keys
  /\ cert \in [Milestones -> Certifications]
  /\ call \in [Calls -> CallRecords]
  /\ requests \in 0..MaxRequests

Init ==
  /\ upload = [k \in Keys |-> NoUpload]
  /\ images = [h \in Holders |-> {}]
  /\ stored = {}
  /\ cert \in [Milestones -> {"absent", "open"}]
  /\ call = [c \in Calls |-> NoCall]
  /\ requests = 0

Begin(c, r) ==
  /\ call[c] = NoCall
  /\ requests < MaxRequests
  /\ requests' = requests + 1
  /\ call' = [call EXCEPT ![c] = r]

Goes(c, r) == call' = [call EXCEPT ![c] = r] /\ UNCHANGED requests

\* What is left to do after the commit: delete the objects of these keys.
Deletion(S) == IF S = {} THEN NoCall ELSE [NoCall EXCEPT !.op = "delete", !.keys = S]

-----------------------------------------------------------------------------
(* Uploads.                                                                *)

UploadBusinessImage(c, k) ==
  /\ k \notin stored /\ upload[k] = NoUpload
  /\ \A h \in Holders : k \notin images[h]
  /\ \A d \in Calls : k \notin call[d].keys
  /\ stored' = stored \cup {k}
  /\ Begin(c, [NoCall EXCEPT !.op = "register", !.keys = {k}])
  /\ UNCHANGED <<upload, images, cert>>

\* When the row cannot be written the object is deleted at once, if that works.
RegisterUpload(c) ==
  /\ call[c].op = "register"
  /\ \E k \in call[c].keys :
       \/ \E e \in BOOLEAN :
            /\ upload' = [upload EXCEPT ![k] = [at |-> None, evidence |-> e, old |-> FALSE]]
            /\ UNCHANGED stored
       \/ UNCHANGED upload /\ stored' = stored \ {k}
  /\ Goes(c, NoCall)
  /\ UNCHANGED <<images, cert>>

-----------------------------------------------------------------------------
(* Attachment.                                                             *)

\* (Mutant: every key that the user has uploaded will do.)
Attachable_Owned(k, h) == upload[k] # NoUpload

Attachable(k, h) ==
  /\ upload[k].at \in {None, h}
  /\ upload[k].evidence <=> h \in Milestones

\* The new images take the place of those that were seen; these are marked.
Replace(h, S, gone) ==
  /\ \A k \in S : Attachable(k, h)
  /\ images' = [images EXCEPT ![h] = S]
  /\ upload' = [k \in Keys |->
       CASE k \in S -> [upload[k] EXCEPT !.at = h, !.old = FALSE]
         [] k \in gone /\ upload[k] # NoUpload -> [upload[k] EXCEPT !.at = "cleanup", !.old = FALSE]
         [] OTHER -> upload[k]]

replaceImagesTx(c, h, S) ==
  /\ Replace(h, S, images[h] \ S)
  /\ Begin(c, Deletion(images[h] \ S))
  /\ UNCHANGED <<stored, cert>>

\* The milestone is looked up, and with it the evidence it has.
SubmitMilestoneCertification(c, m) ==
  /\ cert[m] \in {"open", "rejected"}
  /\ Begin(c, [op |-> "submit", m |-> m, keys |-> images[m], seen |-> cert[m]])
  /\ UNCHANGED <<upload, images, stored, cert>>

Evidence == (SUBSET Keys) \ {{}}

\* The status is written whatever it has become; of a milestone that is gone
\* only the evidence is written.
SubmitMilestoneEvidence(c) ==
  LET m == call[c].m
  IN /\ call[c].op = "submit"
     /\ \E S \in Evidence :
          /\ Replace(m, S, call[c].keys \ S)
          /\ Goes(c, Deletion(call[c].keys \ S))
     /\ cert' = [cert EXCEPT ![m] = IF @ = "absent" THEN @ ELSE "pending"]
     /\ UNCHANGED stored

\* Approved or refused, the evidence has served.
FinalizeMilestoneReview(c, m, verdict) ==
  /\ images[m] # {}
  /\ cert[m] = "pending"
  /\ cert' = [cert EXCEPT ![m] = verdict]
  /\ images' = [images EXCEPT ![m] = {}]
  /\ upload' = [k \in Keys |->
       IF k \in images[m] THEN [upload[k] EXCEPT !.at = "cleanup", !.old = FALSE] ELSE upload[k]]
  /\ Begin(c, Deletion(images[m]))
  /\ UNCHANGED stored

-----------------------------------------------------------------------------
(* The milestones themselves.                                              *)

CreateProjectMilestone(m) ==
  /\ requests < MaxRequests
  /\ requests' = requests + 1
  /\ cert[m] = "absent" /\ images[m] = {}
  /\ \A c \in Calls : call[c].m # m
  /\ cert' = [cert EXCEPT ![m] = "open"]
  /\ UNCHANGED <<upload, images, stored, call>>

\* The project's row is locked from here on; the milestones are those of now.
BeginUpdateProject(c, m) ==
  /\ \A d \in Calls : call[d].op # "edit"
  /\ cert[m] # "absent"
  /\ Begin(c, [NoCall EXCEPT !.op = "edit", !.m = m, !.seen = cert[m]])
  /\ UNCHANGED <<upload, images, stored, cert>>

\* Not while it is seen as pending: it is removed, or what it says is changed,
\* which takes its certification back.
saveProjectMetadataTx(c) ==
  LET m == call[c].m
  IN /\ call[c].op = "edit" /\ call[c].seen # "pending"
     /\ cert' \in {[cert EXCEPT ![m] = "absent"],
                   [cert EXCEPT ![m] = IF @ = "absent" THEN @ ELSE "open"]}
     /\ Goes(c, NoCall)
     /\ UNCHANGED <<upload, images, stored>>

-----------------------------------------------------------------------------
(* Deletion.                                                               *)

Deleted(k) == stored' = stored \ {k}

\* The object first, then its row, if it is still to be cleaned up; whichever
\* fails is left for the scheduler.
DeleteFile(c, k) ==
  /\ call[c].op = "delete" /\ k \in call[c].keys
  /\ \/ UNCHANGED <<upload, stored>>
     \/ Deleted(k) /\ UNCHANGED upload
     \/ /\ Deleted(k)
        /\ upload' = [upload EXCEPT ![k] = IF @.at = "cleanup" THEN NoUpload ELSE @]
  /\ Goes(c, Deletion(call[c].keys \ {k}))
  /\ UNCHANGED <<images, cert>>

Age(k) ==
  /\ upload[k].at \in {None, "cleanup"} /\ ~upload[k].old
  /\ upload' = [upload EXCEPT ![k].old = TRUE]
  /\ UNCHANGED <<images, stored, cert, call, requests>>

\* A round of the scheduler; what somebody claimed and did not finish is due again.
ClaimCleanupBatch(c) ==
  LET due == {k \in Keys : /\ upload[k].at \in {None, "cleanup"} /\ upload[k].old
                           /\ \A h \in Holders : k \notin images[h]}
  IN /\ due # {}
     /\ upload' = [k \in Keys |-> IF k \in due THEN [upload[k] EXCEPT !.at = "cleanup", !.old = FALSE]
                                  ELSE upload[k]]
     /\ Begin(c, Deletion(due))
     /\ UNCHANGED <<images, stored, cert>>

\* A request fails, or its process ends.
CallEnds(c) ==
  /\ call[c] # NoCall
  /\ Goes(c, NoCall)
  /\ UNCHANGED <<upload, images, stored, cert>>

Next ==
  \/ \E c \in Calls :
       \/ \E k \in Keys : UploadBusinessImage(c, k) \/ DeleteFile(c, k)
       \/ \E h \in Albums, S \in SUBSET Keys : replaceImagesTx(c, h, S)
       \/ \E m \in Milestones :
            \/ SubmitMilestoneCertification(c, m) \/ BeginUpdateProject(c, m)
            \/ \E verdict \in {"certified", "rejected"} : FinalizeMilestoneReview(c, m, verdict)
       \/ RegisterUpload(c) \/ SubmitMilestoneEvidence(c) \/ saveProjectMetadataTx(c)
       \/ ClaimCleanupBatch(c) \/ CallEnds(c)
  \/ \E m \in Milestones : CreateProjectMilestone(m)
  \/ \E k \in Keys : Age(k)

Spec == Init /\ [][Next]_vars

-----------------------------------------------------------------------------
(* Properties                                                              *)

\* An image that a project, a card or a milestone shows can be fetched: no
\* replacement, review or round of the scheduler deletes it.
ImageIsThere == \A h \in Holders : images[h] \subseteq stored

\* A row of media_upload leaves only after its object: whatever a crash leaves
\* undone, the scheduler still knows of it.
DeletedWithItsObjectStep ==
  \A k \in Keys : upload[k] # NoUpload /\ upload'[k] = NoUpload => k \notin stored'

DeletedWithItsObject == [][DeletedWithItsObjectStep]_vars

\* Who waits for a review can get it: without evidence the milestone could not
\* be reviewed, submitted again, edited or removed any more.
PendingHasEvidence == \A m \in Milestones : cert[m] = "pending" => images[m] # {}
=============================================================================
