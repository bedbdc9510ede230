----------------------------- MODULE ProjectTags -----------------------------
(***************************************************************************)
(* A project's own row and its tags.  An edit of the project updates the   *)
(* row, removes every tag and makes the new ones all at once: none of it   *)
(* in a transaction, and nobody has to log in for it.                      *)
(***************************************************************************)
EXTENDS ProjectData

CONSTANT TagNames

VARIABLES
  tags,     \* names of the ProjectTag rows; unique in the project
  wanted,   \* the tags a handler has still to make
  (* history *)
  asked,    \* the tags of the last edit, and what was done to them since
  muddled   \* edits overlapped, or one failed, since an undisturbed one

tagging == <<tags, wanted, asked, muddled>>

InitTags == /\ tags = {} /\ asked = {} /\ muddled = FALSE
            /\ wanted = [r \in Requests |-> {}]

(* Edits that have removed the tags and not yet made all of theirs.        *)
Making == {r \in Requests : pc[r] = "tags"}

-----------------------------------------------------------------------------
(* PATCH /projects/:id                                                     *)
EditCheck(r) ==
  /\ pc[r] = "idle"
  /\ project = "live"
  /\ \E names \in SUBSET TagNames : wanted' = [wanted EXCEPT ![r] = names]
  /\ Goto(r, "details")
  /\ UNCHANGED <<shared, tags, asked, muddled>>

(* The row; the names of other projects are left out.  Without `tags' in   *)
(* the body the edit ends here.                                            *)
EditProject(r) ==
  /\ pc[r] = "details"
  /\ \/ project = "live" /\ Goto(r, "clear") /\ UNCHANGED wanted
     \/ Answer(r) /\ wanted' = [wanted EXCEPT ![r] = {}]
  /\ UNCHANGED <<shared, tags, asked, muddled>>

(* Mutant: old tags are not removed.                                       *)
ClearTagsSkipped(r) ==
  /\ pc[r] = "clear"
  /\ asked' = wanted[r]
  /\ muddled' = (Making # {})
  /\ Goto(r, IF wanted[r] = {} THEN "done" ELSE "tags")
  /\ UNCHANGED <<shared, tags, wanted>>

ClearTags(r) ==
  /\ pc[r] = "clear"
  /\ tags' = {}
  /\ asked' = IF project = "live" THEN wanted[r] ELSE {}
  /\ muddled' = (Making # {})
  /\ Goto(r, IF wanted[r] = {} THEN "done" ELSE "tags")
  /\ UNCHANGED <<shared, wanted>>

(* In any order.  One that is there already, or whose project is gone,     *)
(* fails; the others are made all the same.                                *)
MakeTag(r) ==
  /\ pc[r] = "tags"
  /\ \E n \in wanted[r] :
       /\ tags' = IF project = "live" THEN tags \cup {n} ELSE tags
       /\ wanted' = [wanted EXCEPT ![r] = @ \ {n}]
       /\ IF wanted[r] = {n} THEN Answer(r) ELSE UNCHANGED pc
  /\ UNCHANGED <<shared, asked, muddled>>

(* POST /projects/:id/tags                                                 *)
PostTag(r) ==
  /\ pc[r] = "idle"
  /\ project = "live"
  /\ \E n \in TagNames \ tags : tags' = tags \cup {n} /\ asked' = asked \cup {n}
  /\ Answer(r)
  /\ UNCHANGED <<shared, wanted, muddled>>

(* DELETE /projects/:id/tags/:tagId                                        *)
DeleteTag(r) ==
  /\ pc[r] = "idle"
  /\ \E n \in tags : tags' = tags \ {n} /\ asked' = asked \ {n}
  /\ muddled' = (muddled \/ Making # {})
  /\ Answer(r)
  /\ UNCHANGED <<shared, wanted>>

TagStep(r) ==
  \/ EditCheck(r) \/ EditProject(r) \/ ClearTags(r) \/ MakeTag(r)
  \/ PostTag(r) \/ DeleteTag(r)

(* The tags go with their project.                                         *)
DropTags == /\ tags' = {} /\ asked' = {} /\ muddled' = FALSE
            /\ UNCHANGED wanted

TagsFail(r) ==
  /\ wanted' = [wanted EXCEPT ![r] = {}]
  /\ muddled' = (muddled \/ pc[r] = "tags")
  /\ UNCHANGED <<tags, asked>>

-----------------------------------------------------------------------------
TagTypeOK ==
  /\ tags \subseteq TagNames /\ asked \subseteq TagNames /\ muddled \in BOOLEAN
  /\ wanted \in [Requests -> SUBSET TagNames]
  /\ \A r \in Making : wanted[r] # {}

(* A project bears the tags it was last given, less and more what was      *)
(* removed and added since, unless two edits overlapped or one failed      *)
(* half way; and the next edit that nothing disturbs makes it good again.  *)
TagsNeedCause == muddled \/ Making # {} \/ tags = asked
=============================================================================
