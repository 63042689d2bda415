------------------------- MODULE KnowledgeLifecycle -------------------------
(***************************************************************************)
(* The governed life of a knowledge article: drafts, reviews, publication, *)
(* revisions and the archive, with the version snapshots and the retrieval *)
(* index that follow it (services/knowledge/management.py, lifecycle.py,   *)
(* indexing.py, repositories/knowledge_repository.py).                     *)
(*                                                                         *)
(* A request loads the article without a lock, judges its copy, and        *)
(* commits all it does in one transaction at its end.  The UPDATE of the   *)
(* article takes the row lock, so two commits come one after the other     *)
(* (a request that meets the chunks or the lock in another order fails).   *)
(***************************************************************************)
EXTENDS Naturals

CONSTANTS
    Articles,    \* ids of articles
    Contents,    \* the texts an article may have
    Requests,    \* requests that may be in flight together
    MaxVersion,  \* bound on the version numbers
    None,        \* no row yet, no chunks, no snapshot, no request
    Deleted      \* the row of a deleted article

VARIABLES
    row,    \* row[a]: the article's columns
    chunks, \* chunks[a]: what the retrieval index holds of the article
    snap,   \* snap[a][v]: the text in the snapshot of version v
    req     \* req[r]: a request, the copy it loaded and what it made of it

vars == <<row, chunks, snap, req>>

Statuses == {"draft", "in_review", "approved", "published", "archived"}
Versions == 1..MaxVersion

\* tagged: the article has the tags that publication requires.
Row == [status : Statuses, version : Versions, published : BOOLEAN, approved : BOOLEAN,
        content : Contents, tagged : BOOLEAN, embedding : {"not_indexed", "pending", "indexed"}]
Chunks == [content : Contents, vectors : BOOLEAN]

ASSUME KnowledgeAssumption ==
    /\ MaxVersion \in Nat \ {0}
    /\ {None, Deleted} \cap (Row \cup Chunks \cup Contents) = {}
    /\ None # Deleted

-----------------------------------------------------------------------------
(* The lifecycle table                                                      *)

Moves == {"submit_for_review", "approve", "request_changes", "reject",
          "publish", "archive", "restore", "create_revision"}

From(move) ==
    CASE move = "submit_for_review" -> {"draft"}
      [] move = "approve" -> {"in_review"}
      [] move = "request_changes" -> {"in_review"}
      [] move = "reject" -> {"in_review", "approved"}
      [] move = "publish" -> {"approved"}
      [] move = "archive" -> {"draft", "in_review", "approved", "published"}
      [] move = "restore" -> {"archived"}
      [] move = "create_revision" -> {"published"}

To(move) ==
    CASE move = "submit_for_review" -> "in_review"
      [] move = "approve" -> "approved"
      [] move = "publish" -> "published"
      [] move = "archive" -> "archived"
      [] OTHER -> "draft"

\* The copy after a move that leaves the index alone.
Moved(move, c) ==
    [c EXCEPT !.status = To(move),
              !.approved = CASE move = "approve" -> TRUE
                             [] move \in {"request_changes", "reject"} -> FALSE
                             [] OTHER -> @]

Published(c) == [c EXCEPT !.status = "published", !.published = TRUE, !.approved = TRUE]

Archived(c) == [c EXCEPT !.status = "archived", !.published = FALSE, !.embedding = "not_indexed"]

Revised(c) ==
    [c EXCEPT !.status = "draft", !.published = FALSE, !.approved = FALSE, !.version = @ + 1]

-----------------------------------------------------------------------------
(* Articles and requests                                                    *)

Ops == Moves \cup {"update", "reindex"}
Req == [op : Ops, article : Articles, copy : Row, to : Row]

TypeOK ==
    /\ row \in [Articles -> Row \cup {None, Deleted}]
    /\ chunks \in [Articles -> Chunks \cup {None}]
    /\ snap \in [Articles -> [Versions -> Contents \cup {None}]]
    /\ req \in [Requests -> Req \cup {None}]

Exists(a) == row[a] \notin {None, Deleted}

Draft(c, tagged) ==
    [status |-> "draft", version |-> 1, published |-> FALSE, approved |-> FALSE,
     content |-> c, tagged |-> tagged, embedding |-> "pending"]

\* The seed installs published articles and takes no snapshot of them.
Seeded(c, vectors) ==
    [status |-> "published", version |-> 1, published |-> TRUE, approved |-> TRUE, content |-> c,
     tagged |-> TRUE, embedding |-> IF vectors THEN "indexed" ELSE "pending"]

Init ==
    /\ row \in [Articles -> {None} \cup {Seeded(c, v) : c \in Contents, v \in BOOLEAN}]
    /\ chunks = [a \in Articles |->
                   IF row[a] = None THEN None
                   ELSE [content |-> row[a].content, vectors |-> row[a].embedding = "indexed"]]
    /\ snap = [a \in Articles |-> [v \in Versions |-> None]]
    /\ req = [r \in Requests |-> None]

Create(a, c, tagged) ==
    /\ row[a] = None
    /\ row' = [row EXCEPT ![a] = Draft(c, tagged)]
    /\ chunks' = [chunks EXCEPT ![a] = [content |-> c, vectors |-> FALSE]]
    /\ UNCHANGED <<snap, req>>

\* The cascade takes whatever chunks and snapshots there are.
Delete(a) ==
    /\ Exists(a)
    /\ row' = [row EXCEPT ![a] = Deleted]
    /\ chunks' = [chunks EXCEPT ![a] = None]
    /\ snap' = [snap EXCEPT ![a] = [v \in Versions |-> None]]
    /\ UNCHANGED req

-----------------------------------------------------------------------------
(* Loads: the checks that a request makes on its copy                       *)

Load(r, op, a, to) ==
    /\ req[r] = None /\ Exists(a)
    /\ req' = [req EXCEPT ![r] = [op |-> op, article |-> a, copy |-> row[a], to |-> to]]
    /\ UNCHANGED <<row, chunks, snap>>

Allowed(move, a) == Exists(a) /\ row[a].status \in From(move)

MoveLoad(r, a, move) ==
    /\ move \notin {"publish", "archive", "create_revision"} /\ Allowed(move, a)
    /\ Load(r, move, a, Moved(move, row[a]))

\* validate_for_publish; its other required fields are taken to be there.
PublishLoad(r, a) ==
    /\ Allowed("publish", a) /\ row[a].tagged
    /\ Load(r, "publish", a, Published(row[a]))

ArchiveLoad(r, a) ==
    /\ Allowed("archive", a)
    /\ Load(r, "archive", a, Archived(row[a]))

ReviseLoad(r, a) ==
    /\ Allowed("create_revision", a) /\ row[a].version < MaxVersion
    /\ Load(r, "create_revision", a, Revised(row[a]))

\* Mutant: the update of an article in any status.
UpdateLoadUngoverned(r, a, c, tagged) ==
    /\ Exists(a)
    /\ Load(r, "update", a, [row[a] EXCEPT !.content = c, !.tagged = tagged, !.embedding = "pending"])

UpdateLoad(r, a, c, tagged) ==
    /\ Exists(a) /\ row[a].status \notin {"published", "archived"}
    /\ Load(r, "update", a, [row[a] EXCEPT !.content = c, !.tagged = tagged, !.embedding = "pending"])

ReindexLoad(r, a) ==
    /\ Exists(a) /\ row[a].status = "published"
    /\ Load(r, "reindex", a, row[a])

-----------------------------------------------------------------------------
(* Commits                                                                  *)

\* The UPDATE has the columns in which the request's object differs from the copy.
Flush(now, copy, to) ==
    [status    |-> IF to.status = copy.status THEN now.status ELSE to.status,
     version   |-> IF to.version = copy.version THEN now.version ELSE to.version,
     published |-> IF to.published = copy.published THEN now.published ELSE to.published,
     approved  |-> IF to.approved = copy.approved THEN now.approved ELSE to.approved,
     content   |-> IF to.content = copy.content THEN now.content ELSE to.content,
     tagged    |-> IF to.tagged = copy.tagged THEN now.tagged ELSE to.tagged,
     embedding |-> IF to.embedding = copy.embedding THEN now.embedding ELSE to.embedding]

Written(r) == Flush(row[req[r].article], req[r].copy, req[r].to)

\* The article is still there: an UPDATE that finds no row is an error.
Serves(r, op) == req[r] # None /\ req[r].op = op /\ Exists(req[r].article)
Finished(r) == req' = [req EXCEPT ![r] = None]

\* The unique index uq_article_version admits one snapshot of a version.
UniqueIndexAdmits(r) == snap[req[r].article][req[r].copy.version] = None

SnapshotUnindexed(r) ==
    snap' = [snap EXCEPT ![req[r].article][req[r].copy.version] = req[r].copy.content]
Snapshot(r) ==
    /\ UniqueIndexAdmits(r)
    /\ snap' = [snap EXCEPT ![req[r].article][req[r].copy.version] = req[r].copy.content]

\* prepare_article: chunks of the request's object, which have no vectors.
Prepare(r, vectors) ==
    chunks' = [chunks EXCEPT ![req[r].article] =
                 [content |-> req[r].to.content, vectors |-> vectors]]

\* index_article writes "pending" first, when it prepares, and then what came of
\* the embedder, so that "indexed" is always a change and "pending" is one only
\* if the copy said otherwise.
Indexed(r, vectors) ==
    [Written(r) EXCEPT !.embedding = IF vectors THEN "indexed"
                                     ELSE IF req[r].copy.embedding = "pending" THEN @
                                     ELSE "pending"]

MoveCommit(r) ==
    /\ \E move \in Moves \ {"publish", "archive", "create_revision"} : Serves(r, move)
    /\ row' = [row EXCEPT ![req[r].article] = Written(r)]
    /\ Finished(r)
    /\ UNCHANGED <<chunks, snap>>

\* The embedder may have no provider, or fail: the chunks stay without vectors.
PublishCommit(r) ==
    /\ Serves(r, "publish") /\ Snapshot(r)
    /\ \E vectors \in BOOLEAN :
          /\ row' = [row EXCEPT ![req[r].article] = Indexed(r, vectors)]
          /\ Prepare(r, vectors)
    /\ Finished(r)

ArchiveCommitUnsnapshotted(r) ==
    /\ Serves(r, "archive")
    /\ row' = [row EXCEPT ![req[r].article] = Written(r)]
    /\ chunks' = [chunks EXCEPT ![req[r].article] = None]
    /\ Finished(r)
    /\ UNCHANGED snap

ArchiveCommit(r) ==
    /\ Serves(r, "archive") /\ Snapshot(r)
    /\ row' = [row EXCEPT ![req[r].article] = Written(r)]
    /\ chunks' = [chunks EXCEPT ![req[r].article] = None]
    /\ Finished(r)

ReviseCommit(r) ==
    /\ Serves(r, "create_revision") /\ Snapshot(r)
    /\ row' = [row EXCEPT ![req[r].article] = Written(r)]
    /\ Finished(r)
    /\ UNCHANGED chunks

UpdateCommitUnprepared(r) ==
    /\ Serves(r, "update")
    /\ row' = [row EXCEPT ![req[r].article] = Written(r)]
    /\ Finished(r)
    /\ UNCHANGED <<chunks, snap>>

UpdateCommit(r) ==
    /\ Serves(r, "update")
    /\ row' = [row EXCEPT ![req[r].article] = Written(r)]
    /\ Prepare(r, FALSE)
    /\ Finished(r)
    /\ UNCHANGED snap

ReindexCommit(r) ==
    /\ Serves(r, "reindex")
    /\ \E vectors \in BOOLEAN :
          /\ row' = [row EXCEPT ![req[r].article] = Indexed(r, vectors)]
          /\ Prepare(r, vectors)
    /\ Finished(r)
    /\ UNCHANGED snap

\* A request that the index or the database refuses, or that dies.
Fails(r) == req[r] # None /\ Finished(r) /\ UNCHANGED <<row, chunks, snap>>

Next ==
    \/ \E a \in Articles :
          \/ \E c \in Contents, tagged \in BOOLEAN : Create(a, c, tagged)
          \/ Delete(a)
    \/ \E r \in Requests, a \in Articles :
          \/ \E move \in Moves : MoveLoad(r, a, move)
          \/ PublishLoad(r, a) \/ ArchiveLoad(r, a) \/ ReviseLoad(r, a) \/ ReindexLoad(r, a)
          \/ \E c \in Contents, tagged \in BOOLEAN : UpdateLoad(r, a, c, tagged)
    \/ \E r \in Requests :
          \/ MoveCommit(r) \/ PublishCommit(r) \/ ArchiveCommit(r) \/ ReviseCommit(r)
          \/ UpdateCommit(r) \/ ReindexCommit(r) \/ Fails(r)

Spec == Init /\ [][Next]_vars

-----------------------------------------------------------------------------
(* Properties                                                               *)

\* A snapshot is never rewritten, and the version goes up by one with the
\* snapshot of the version it leaves: no revision is lost, however requests
\* overlap (transition and the index uq_article_version; "immutable snapshot").
HistoryIsKept ==
    [][\A a \in Articles : row'[a] # Deleted =>
          /\ \A v \in Versions : snap[a][v] # None => snap'[a][v] = snap[a][v]
          /\ Exists(a) /\ row'[a].version # row[a].version =>
                /\ row'[a].version = row[a].version + 1
                /\ snap'[a][row[a].version] # None]_vars

\* No request makes an archived article published, not even one that loaded it
\* approved: there is no lock, but both would take the snapshot of the version.
ArchivedIsNotPublished ==
    [][\A a \in Articles :
          Exists(a) /\ row[a].status = "archived" /\ row'[a] # Deleted
          => row'[a].status # "published"]_vars

\* What the row, its flags, its snapshot and the index say of one another.
Consistent(a) ==
    Exists(a) =>
       /\ row[a].published <=> row[a].status = "published"
       /\ row[a].status = "published" =>
             row[a].tagged /\ snap[a][row[a].version] \in {None, row[a].content}
       /\ chunks[a] = None <=> row[a].embedding = "not_indexed"
       /\ chunks[a] # None =>
             /\ chunks[a].content = row[a].content
             /\ chunks[a].vectors <=> row[a].embedding = "indexed"

\* Row, flags, snapshot and index fall out of step only in the commit of a
\* request whose article another one changed after it was loaded (transition,
\* update_article and reindex, which take no lock).
DriftNeedsOverlap ==
    [][\A a \in Articles :
          Consistent(a) /\ ~Consistent(a)' =>
             \E r \in Requests : /\ req[r] # None /\ req'[r] = None
                                 /\ req[r].article = a /\ req[r].copy # row[a]]_vars

\* A text that was published is not lost: when a published article changes its
\* text or leaves publication, the text stays in the snapshot of its version,
\* also when the request that takes it away loaded the article before it was
\* published (transition and update_article; "a new immutable version snapshot
\* is captured on publish, archive, and revision").
PublishedTextIsKept ==
    [][\A a \in Articles :
          /\ Exists(a) /\ row[a].status = "published"
          /\ snap[a][row[a].version] \in {None, row[a].content}
          /\ row'[a] # Deleted
          /\ row'[a].status # "published" \/ row'[a].content # row[a].content
          => snap'[a][row[a].version] = row[a].content]_vars
=============================================================================
