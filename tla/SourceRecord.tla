---------------------------- MODULE SourceRecord ----------------------------
(***************************************************************************)
(* What ingestion promises of one source record: the version that is       *)
(* current for each source identity, and the only ways it may change.      *)
(* Every change is judged against the version it replaces, at the moment   *)
(* it replaces it: a record is created once, a revision the source did not *)
(* ask for keeps the words or adds an attachment, nothing ever drops an    *)
(* attachment that was resolved, and a recalled record keeps its content.  *)
(*                                                                         *)
(* Ingest implements this specification with two concurrent callers that   *)
(* read, decide and then write.                                            *)
(***************************************************************************)
CONSTANTS Keys,      \* source identities (org_id, source, external_id)
          Contents,  \* canonical contents
          None       \* no version, no text

(* The content of a record that was recalled before it arrived. *)
NoContent == [text |-> None, have |-> {}, lack |-> {}]

(* revision is the stored revision_id: the source's own, the one given to  *)
(* a surface correction, or none.  linked says the version has a parent.   *)
Version ==
    [op : {"create", "revise", "tombstone"}, content : Contents \cup {NoContent},
     revision : {"none", "source", "surface"}, linked : BOOLEAN]

-----------------------------------------------------------------------------
(* A content is its text, the attachments whose bytes are there and the    *)
(* ones whose bytes are not (each known by its locator).                   *)

(* incomingWorsensAttachments *)
Worsens(existing, incoming) == ~(existing.have \subseteq incoming.have)

(* incomingImprovesAttachments *)
Improves(existing, incoming) ==
    ~(incoming.have \subseteq existing.have) /\ ~Worsens(existing, incoming)

(* sameBodySurfaceCorrection, once neither side lacks an attachment. *)
Corrects(existing, incoming) ==
    /\ existing.lack = {} /\ incoming.lack = {}
    /\ incoming.text # None /\ incoming.text = existing.text

-----------------------------------------------------------------------------
VARIABLE current  \* [Keys -> Version or None]

Init == current = [k \in Keys |-> None]

Become(k, version) == current' = [current EXCEPT ![k] = version]

(* One transaction creates the new records of a page. *)
Create(page) ==
    /\ \A k \in DOMAIN page : current[k] = None
    /\ current' = [k \in Keys |->
         IF k \in DOMAIN page
         THEN [op |-> "create", content |-> page[k], revision |-> "none", linked |-> FALSE]
         ELSE current[k]]

(* The source supplied a revision, or a repeated create resolves more      *)
(* attachments or corrects the surface of the same words.                  *)
Revise(k, content, revision) ==
    /\ current[k] # None
    /\ content # current[k].content
    /\ ~Worsens(current[k].content, content)
    /\ revision = "none" => Improves(current[k].content, content)
    /\ revision = "surface" => Corrects(current[k].content, content)
    /\ Become(k, [op |-> "revise", content |-> content, revision |-> revision, linked |-> TRUE])

Recall(k) ==
    \/ /\ current[k] = None
       /\ Become(k, [op |-> "tombstone", content |-> NoContent,
                     revision |-> "none", linked |-> FALSE])
    \/ /\ current[k] # None
       /\ current[k].op # "tombstone"
       /\ Become(k, [op |-> "tombstone", content |-> current[k].content,
                     revision |-> "none", linked |-> TRUE])

(* A record that was recalled before it arrived arrives. *)
Return(k, content) ==
    /\ current[k] # None
    /\ current[k].op = "tombstone" /\ ~current[k].linked
    /\ Become(k, [op |-> "create", content |-> content, revision |-> "none", linked |-> FALSE])

Next ==
    \/ \E K \in SUBSET Keys : \E page \in [K -> Contents] : Create(page)
    \/ \E k \in Keys :
         \/ Recall(k)
         \/ \E content \in Contents :
              \/ Return(k, content)
              \/ \E revision \in {"none", "source", "surface"} : Revise(k, content, revision)

Spec == Init /\ [][Next]_current
=============================================================================
