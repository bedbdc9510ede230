----------------------------- MODULE PlotImagery -----------------------------
(***************************************************************************)
(* Satellite pictures of plots: Sentinel Hub is asked once, the picture is *)
(* kept in Redis for a day, SatelliteVerification records that there is    *)
(* one, and the answer of the metadata route is kept in Redis too.         *)
(***************************************************************************)
EXTENDS LandRequests

VARIABLES
  picture,    \* plots whose picture is in Redis
  recorded,   \* plots with a SatelliteVerification that has an imageryUrl
  answer,     \* cached metadata: the plot, and whether with a url
  seen,       \* what an imagery handler read
  (* history *)
  unrecorded  \* plots whose picture was cached by a handler that then failed

imagery == <<picture, recorded, answer, unrecorded>>

Cached(p) == p \in {a[1] : a \in answer}
AllBut(p) == {a \in answer : a[1] # p}
NotSeen == [plot |-> 0, url |-> FALSE]

InitImagery ==
  /\ picture = {} /\ recorded = {} /\ unrecorded = {}
  /\ answer = {}
  /\ seen = [r \in Requests |-> NotSeen]

Look(r, p, url, place) ==
  /\ seen' = [seen EXCEPT ![r] = [plot |-> p, url |-> url]]
  /\ Goto(r, place)

-----------------------------------------------------------------------------
(* GET /imagery, on a miss in Redis: a plot that is not recorded is        *)
(* fetched ...                                                             *)
GetImagery(r) ==
  /\ pc[r] = "idle"
  /\ \E p \in DOMAIN plots :
       /\ ~Cached(p)
       /\ Look(r, p, p \in recorded,
               IF plots[p].placed /\ p \notin recorded THEN "fetch" ELSE "answer")
  /\ UNCHANGED imagery

(* ... but not by GET /imagery/batch.  Bound: a batch names one plot.       *)
GetBatch(r) ==
  /\ pc[r] = "idle"
  /\ \E p \in DOMAIN plots : ~Cached(p) /\ Look(r, p, p \in recorded, "answer")
  /\ UNCHANGED imagery

(* GET /imagery/:plotId/image                                              *)
GetPicture(r) ==
  /\ pc[r] = "idle"
  /\ \E p \in DOMAIN plots :
       /\ p \notin picture /\ plots[p].placed
       /\ Look(r, p, p \in recorded, "fetch image")
  /\ UNCHANGED imagery

(* Sentinel Hub may have no picture or not answer; then the picture route  *)
(* fails, and the other answers without.                                   *)
Fetch(r) ==
  /\ pc[r] \in {"fetch", "fetch image"}
  /\ \/ Goto(r, IF pc[r] = "fetch" THEN "keep" ELSE "keep image")
     \/ pc[r] = "fetch" /\ Goto(r, "answer")
     \/ pc[r] = "fetch image" /\ Answer(r)
  /\ UNCHANGED <<seen, imagery>>

(* Redis is written if the connection is open.                             *)
KeepPicture(r) ==
  /\ pc[r] \in {"keep", "keep image"}
  /\ picture' \in {picture, picture \cup {seen[r].plot}}
  /\ Goto(r, IF pc[r] = "keep" THEN "record" ELSE "record image")
  /\ UNCHANGED <<seen, recorded, answer, unrecorded>>

RecordAs(r, rows) ==
  /\ pc[r] \in {"record", "record image"}
  /\ recorded' = rows
  /\ seen' = [seen EXCEPT ![r].url = TRUE]
  /\ IF pc[r] = "record" THEN Goto(r, "answer") ELSE Answer(r)
  /\ UNCHANGED <<picture, answer, unrecorded>>

(* Mutant: the metadata route leaves the record to the picture route.      *)
RecordImage(r) ==
  RecordAs(r, recorded \cup {q \in {seen[r].plot} : pc[r] = "record image"})

Record(r) == RecordAs(r, recorded \cup {seen[r].plot})

KeepAnswer(r) ==
  /\ pc[r] = "answer"
  /\ answer' \in {answer, AllBut(seen[r].plot) \cup {<<seen[r].plot, seen[r].url>>}}
  /\ Answer(r)
  /\ UNCHANGED <<seen, picture, recorded, unrecorded>>

(* After a day, or five minutes for an answer without a picture.           *)
Expire(p) ==
  /\ \/ p \in picture /\ picture' = picture \ {p} /\ UNCHANGED answer
     \/ Cached(p) /\ answer' = AllBut(p) /\ UNCHANGED picture
  /\ UNCHANGED <<pc, seen, recorded, unrecorded>>

ImageryStep(r) ==
  \/ GetImagery(r) \/ GetBatch(r) \/ GetPicture(r) \/ Fetch(r) \/ KeepPicture(r)
  \/ Record(r) \/ KeepAnswer(r)

ImageryFails(r) ==
  /\ unrecorded' = IF pc[r] \in {"record", "record image"}
                   THEN unrecorded \cup {seen[r].plot} ELSE unrecorded
  /\ UNCHANGED <<seen, picture, recorded, answer>>

-----------------------------------------------------------------------------
ImageryTypeOK ==
  /\ picture \subseteq DOMAIN plots /\ recorded \subseteq DOMAIN plots
  /\ answer \subseteq (DOMAIN plots) \X BOOLEAN
  /\ \A r \in Requests : seen[r].plot \in {0} \cup DOMAIN plots

(* An answer in the cache points to a picture only if that is recorded.  A *)
(* picture in the cache is recorded, too, unless its handler is about to,  *)
(* or one failed between the two: the record is then missing until GET     *)
(* /imagery, which asks the records and not the picture's cache, fetches   *)
(* the picture again.                                                      *)
ImageryIsRecorded ==
  \A p \in DOMAIN plots :
    /\ <<p, TRUE>> \in answer => p \in recorded
    /\ p \in picture => \/ p \in recorded \cup unrecorded
                        \/ \E r \in Requests : /\ seen[r].plot = p
                                               /\ pc[r] \in {"record", "record image"}
=============================================================================
