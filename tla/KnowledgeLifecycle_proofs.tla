---------------------- MODULE KnowledgeLifecycle_proofs ----------------------
(***************************************************************************)
(* Safety of KnowledgeLifecycle for any number of articles, texts and      *)
(* requests.                                                               *)
(*                                                                         *)
(* No request holds a lock, so what it loaded may be out of date.  What    *)
(* survives is the version: a version is left only with its snapshot       *)
(* taken, so a request that still finds room for a snapshot of the version *)
(* it loaded has the current version, and nobody has archived it.          *)
(***************************************************************************)
EXTENDS KnowledgeLifecycle, TLAPS

\* What the checks of the load say of a request.
Checked(q) ==
    /\ q.op \in Moves => q.copy.status \in From(q.op)
    /\ q.op \in Moves \ {"publish", "archive", "create_revision"} => q.to = Moved(q.op, q.copy)
    /\ q.op = "publish" => q.copy.tagged /\ q.to = Published(q.copy)
    /\ q.op = "archive" => q.to = Archived(q.copy)
    /\ q.op = "create_revision" => q.to = Revised(q.copy)
    /\ q.op = "update" =>
          /\ q.copy.status \notin {"published", "archived"}
          /\ q.to = [q.copy EXCEPT !.content = q.to.content, !.tagged = q.to.tagged,
                                   !.embedding = "pending"]
    /\ q.op = "reindex" => q.copy.status = "published" /\ q.to = q.copy

\* The version a request loaded is the current one, or is left with its snapshot.
VersionOK(q) ==
    Exists(q.article) =>
       \/ q.copy.version = row[q.article].version
       \/ /\ q.copy.version < row[q.article].version
          /\ snap[q.article][q.copy.version] # None

RequestsOK ==
    \A r \in Requests : req[r] # None =>
       row[req[r].article] # None /\ Checked(req[r]) /\ VersionOK(req[r])

\* An archived article has a snapshot of its version.
ArchiveOK(a) ==
    Exists(a) /\ row[a].status = "archived" => snap[a][row[a].version] # None
ArchivesOK == \A a \in Articles : ArchiveOK(a)

IInv == TypeOK /\ RequestsOK /\ ArchivesOK

-----------------------------------------------------------------------------
LEMMA FlushType ==
    ASSUME NEW now \in Row, NEW copy \in Row, NEW to \in Row
    PROVE  Flush(now, copy, to) \in Row
BY DEF Flush, Row

LEMMA FlushFresh ==
    ASSUME NEW copy \in Row, NEW to \in Row
    PROVE  Flush(copy, copy, to) = to
BY DEF Flush, Row

LEMMA MovedType ==
    ASSUME NEW c \in Row, NEW move \in Moves PROVE Moved(move, c) \in Row
<1>1. To(move) \in Statuses
      BY DEF To, Statuses, Moves
<1>2. Moved(move, c) =
        [c EXCEPT !.status = To(move),
                  !.approved = IF move = "approve" THEN TRUE
                               ELSE IF move \in {"request_changes", "reject"} THEN FALSE
                               ELSE c.approved]
      BY DEF Moved
<1> QED
    BY <1>1, <1>2 DEF Row

LEMMA InitIInv == Init => IInv
<1> SUFFICES ASSUME Init PROVE IInv
    OBVIOUS
<1> USE KnowledgeAssumption
<1>1. 1 \in Versions
      BY DEF Versions
<1>2. \A c \in Contents, v \in BOOLEAN : Seeded(c, v) \in Row
      BY <1>1 DEF Seeded, Row, Statuses
<1>3. row \in [Articles -> Row \cup {None, Deleted}]
      BY <1>2 DEF Init
<1>4. chunks \in [Articles -> Chunks \cup {None}]
  <2>1. \A a \in Articles : row[a] # None => row[a] \in Row
        BY <1>2 DEF Init
  <2> QED
      BY <2>1 DEF Init, Chunks, Row
<1>5. TypeOK
      BY <1>3, <1>4 DEF Init, TypeOK
<1>6. RequestsOK
      BY DEF Init, RequestsOK
<1>7. ArchivesOK
  <2> SUFFICES ASSUME NEW a \in Articles, Exists(a) PROVE row[a].status # "archived"
      BY DEF ArchivesOK, ArchiveOK
  <2>1. PICK c \in Contents, v \in BOOLEAN : row[a] = Seeded(c, v)
        BY DEF Init, Exists
  <2> QED
      BY <2>1 DEF Seeded
<1> QED
    BY <1>5, <1>6, <1>7 DEF IInv

-----------------------------------------------------------------------------
(* Facts that every commit uses                                             *)

\* A request that is served, and what its commit writes.
LEMMA ServesFacts ==
    ASSUME IInv, NEW r \in Requests, NEW op \in Ops, Serves(r, op)
    PROVE  /\ req[r] \in Req /\ req[r].article \in Articles /\ req[r].op = op
           /\ req[r].copy \in Row /\ req[r].to \in Row
           /\ row[req[r].article] \in Row
           /\ Written(r) \in Row
           /\ Checked(req[r])
           /\ VersionOK(req[r])
<1>1. /\ req[r] \in Req /\ req[r].article \in Articles /\ req[r].op = op
      /\ req[r].copy \in Row /\ req[r].to \in Row
      BY DEF IInv, TypeOK, Serves, Req
<1>2. row[req[r].article] \in Row
      BY <1>1 DEF IInv, TypeOK, Serves, Exists
<1> QED
    BY <1>1, <1>2, FlushType DEF Written, IInv, RequestsOK, Serves

\* A request that finds room for its snapshot has the current version.
LEMMA SnapshotIsCurrent ==
    ASSUME IInv, NEW r \in Requests, NEW op \in Ops, Serves(r, op), UniqueIndexAdmits(r)
    PROVE  req[r].copy.version = row[req[r].article].version
BY ServesFacts DEF VersionOK, UniqueIndexAdmits, Serves

\* A step that ends a request, keeps the snapshots taken and the versions, or
\* raises one whose snapshot is taken, leaves the requests as they were.
LEMMA RequestsKept ==
    ASSUME IInv, NEW r \in Requests, NEW a \in Articles, NEW new \in Row,
           Exists(a), row' = [row EXCEPT ![a] = new], Finished(r),
           snap' \in [Articles -> [Versions -> Contents \cup {None}]],
           \A b \in Articles, v \in Versions : snap[b][v] # None => snap'[b][v] # None,
           \/ new.version = row[a].version
           \/ new.version = row[a].version + 1 /\ snap'[a][row[a].version] # None
    PROVE  RequestsOK'
<1> SUFFICES ASSUME NEW s \in Requests, req'[s] # None
             PROVE  row'[req'[s].article] # None /\ Checked(req'[s]) /\ VersionOK(req[s])'
    BY DEF RequestsOK
<1>1. req'[s] = req[s] /\ req[s] # None
      BY DEF Finished, IInv, TypeOK
<1>2. req[s] \in Req /\ req[s].article \in Articles /\ req[s].copy \in Row
      BY <1>1 DEF IInv, TypeOK, Req
<1>3. row[req[s].article] # None /\ Checked(req[s]) /\ VersionOK(req[s])
      BY <1>1 DEF IInv, RequestsOK
<1>4. new # None /\ new # Deleted
      BY KnowledgeAssumption
<1>5. row'[req[s].article] # None
      BY <1>2, <1>3, <1>4 DEF IInv, TypeOK
<1>6. VersionOK(req[s])'
  <2> SUFFICES ASSUME Exists(req[s].article)'
               PROVE  \/ req[s].copy.version = row'[req[s].article].version
                      \/ /\ req[s].copy.version < row'[req[s].article].version
                         /\ snap'[req[s].article][req[s].copy.version] # None
      BY <1>1 DEF VersionOK
  <2>1. Exists(req[s].article)
        BY <1>1, <1>2 DEF Exists, IInv, TypeOK
  <2>2. /\ req[s].copy.version \in Versions /\ row[a].version \in Nat
        /\ req[s].copy.version \in Nat
        BY <1>2, KnowledgeAssumption DEF Row, Versions, IInv, TypeOK, Exists
  <2>3. \/ req[s].copy.version = row[req[s].article].version
        \/ /\ req[s].copy.version < row[req[s].article].version
           /\ snap[req[s].article][req[s].copy.version] # None
        BY <1>3, <2>1 DEF VersionOK
  <2>4. CASE req[s].article # a
    <3>1. row'[req[s].article] = row[req[s].article]
          BY <2>4, <1>2 DEF IInv, TypeOK
    <3> QED
        BY <3>1, <2>2, <2>3, <1>2
  <2>5. CASE req[s].article = a
    <3>1. row'[a] = new
          BY DEF IInv, TypeOK
    <3> QED
        BY <3>1, <2>2, <2>3, <2>5
  <2> QED
      BY <2>4, <2>5
<1> QED
    BY <1>1, <1>3, <1>5, <1>6

LEMMA ArchivesKept ==
    ASSUME IInv, NEW a \in Articles, NEW new \in Row \cup {Deleted},
           row' = [row EXCEPT ![a] = new],
           \A b \in Articles \ {a} : snap'[b] = snap[b],
           new # Deleted /\ new.status = "archived" => snap'[a][new.version] # None
    PROVE  ArchivesOK'
<1> SUFFICES ASSUME NEW b \in Articles, Exists(b)', row'[b].status = "archived"
             PROVE  snap'[b][row'[b].version] # None
    BY DEF ArchivesOK, ArchiveOK
<1>1. CASE b = a
      BY <1>1 DEF IInv, TypeOK, Exists
<1>2. CASE b # a
  <2>1. row'[b] = row[b]
        BY <1>2 DEF IInv, TypeOK
  <2> QED
      BY <1>2, <2>1 DEF IInv, ArchivesOK, ArchiveOK, Exists
<1> QED
    BY <1>1, <1>2

-----------------------------------------------------------------------------
(* Steps that are not commits                                               *)

LEMMA CreateStep ==
    ASSUME IInv, NEW a \in Articles, NEW c \in Contents, NEW tagged \in BOOLEAN,
           Create(a, c, tagged)
    PROVE  IInv'
<1>1. Draft(c, tagged) \in Row
      BY KnowledgeAssumption DEF Draft, Row, Statuses, Versions
<1>2. TypeOK'
      BY <1>1 DEF Create, IInv, TypeOK, Chunks
<1>3. RequestsOK'
  <2> SUFFICES ASSUME NEW r \in Requests, req'[r] # None
               PROVE  row'[req[r].article] # None /\ Checked(req[r]) /\ VersionOK(req[r])'
      BY DEF RequestsOK, Create
  <2>1. req[r] \in Req /\ row[req[r].article] # None
        BY DEF Create, IInv, TypeOK, RequestsOK
  <2>2. row'[req[r].article] = row[req[r].article]
        BY <2>1 DEF Create, IInv, TypeOK
  <2> QED
      BY <2>1, <2>2 DEF Create, IInv, RequestsOK, VersionOK, Exists
<1>4. ArchivesOK'
      BY <1>1, ArchivesKept DEF Create, Draft
<1> QED
    BY <1>2, <1>3, <1>4 DEF IInv

LEMMA DeleteStep ==
    ASSUME IInv, NEW a \in Articles, Delete(a) PROVE IInv'
<1>1. TypeOK'
      BY DEF Delete, IInv, TypeOK
<1>2. RequestsOK'
  <2> SUFFICES ASSUME NEW r \in Requests, req'[r] # None
               PROVE  row'[req[r].article] # None /\ Checked(req[r]) /\ VersionOK(req[r])'
      BY DEF RequestsOK, Delete
  <2>1. /\ req[r] \in Req /\ row[req[r].article] # None
        /\ Checked(req[r]) /\ VersionOK(req[r])
        BY DEF Delete, IInv, TypeOK, RequestsOK
  <2>2. CASE req[r].article = a
        BY <2>1, <2>2, KnowledgeAssumption DEF Delete, IInv, TypeOK, VersionOK, Exists
  <2>3. CASE req[r].article # a
    <3>1. req[r].article \in Articles
          BY <2>1 DEF Req
    <3>2. row'[req[r].article] = row[req[r].article] /\ snap'[req[r].article] = snap[req[r].article]
          BY <2>3, <3>1 DEF Delete, IInv, TypeOK
    <3> QED
        BY <2>1, <3>2 DEF VersionOK, Exists, Delete
  <2> QED
      BY <2>2, <2>3
<1>3. ArchivesOK'
      BY ArchivesKept DEF Delete, IInv, TypeOK
<1> QED
    BY <1>1, <1>2, <1>3 DEF IInv

\* A load whose check is recorded in Checked.
LEMMA LoadStep ==
    ASSUME IInv, NEW r \in Requests, NEW op \in Ops, NEW a \in Articles, NEW to \in Row,
           Load(r, op, a, to),
           Checked([op |-> op, article |-> a, copy |-> row[a], to |-> to])
    PROVE  IInv'
<1> DEFINE q == [op |-> op, article |-> a, copy |-> row[a], to |-> to]
<1>1. q \in Req /\ row[a] \in Row /\ row[a] # None
      BY DEF Load, Exists, IInv, TypeOK, Req
<1>2. TypeOK'
      BY <1>1 DEF Load, IInv, TypeOK
<1>3. VersionOK(q)
      BY DEF VersionOK
<1>4. ASSUME NEW s \in Requests, req'[s] # None
      PROVE  row'[req'[s].article] # None /\ Checked(req'[s]) /\ VersionOK(req[s])'
  <2>1. CASE s = r
    <3>1. req'[s] = q
          BY <2>1 DEF Load, IInv, TypeOK
    <3>2. VersionOK(req[s])'
          BY <3>1 DEF VersionOK, Load, Exists
    <3> QED
        BY <3>1, <3>2, <1>1 DEF Load
  <2>2. CASE s # r
    <3>1. req'[s] = req[s]
          BY <2>2 DEF Load, IInv, TypeOK
    <3> QED
        BY <3>1, <1>4 DEF Load, IInv, RequestsOK, VersionOK, Exists
  <2> QED
      BY <2>1, <2>2
<1>5. RequestsOK'
      BY <1>4 DEF RequestsOK
<1>6. ArchivesOK'
      BY DEF Load, IInv, ArchivesOK, ArchiveOK, Exists
<1> QED
    BY <1>2, <1>5, <1>6 DEF IInv

LEMMA LoadsStep ==
    ASSUME IInv, NEW r \in Requests, NEW a \in Articles,
           \/ \E move \in Moves : MoveLoad(r, a, move)
           \/ PublishLoad(r, a) \/ ArchiveLoad(r, a) \/ ReviseLoad(r, a) \/ ReindexLoad(r, a)
           \/ \E c \in Contents, tagged \in BOOLEAN : UpdateLoad(r, a, c, tagged)
    PROVE  IInv'
<1>0. row[a] \in Row
      BY DEF MoveLoad, PublishLoad, ArchiveLoad, ReviseLoad, ReindexLoad, UpdateLoad, Load,
             Exists, IInv, TypeOK
<1>1. ASSUME NEW move \in Moves, MoveLoad(r, a, move) PROVE IInv'
  <2>1. Moved(move, row[a]) \in Row /\ move \in Ops
        BY <1>0, MovedType DEF Ops
  <2>2. Checked([op |-> move, article |-> a, copy |-> row[a], to |-> Moved(move, row[a])])
        BY <1>1 DEF Checked, MoveLoad, Allowed, Moves
  <2> QED
      BY <1>1, <2>1, <2>2, LoadStep DEF MoveLoad
<1>2. CASE PublishLoad(r, a)
  <2>1. Published(row[a]) \in Row
        BY <1>0 DEF Published, Row, Statuses
  <2>2. Checked([op |-> "publish", article |-> a, copy |-> row[a], to |-> Published(row[a])])
        BY <1>2 DEF Checked, PublishLoad, Allowed, Moves
  <2> QED
      BY <1>2, <2>1, <2>2, LoadStep DEF PublishLoad, Ops, Moves
<1>3. CASE ArchiveLoad(r, a)
  <2>1. Archived(row[a]) \in Row
        BY <1>0 DEF Archived, Row, Statuses
  <2>2. Checked([op |-> "archive", article |-> a, copy |-> row[a], to |-> Archived(row[a])])
        BY <1>3 DEF Checked, ArchiveLoad, Allowed, Moves
  <2> QED
      BY <1>3, <2>1, <2>2, LoadStep DEF ArchiveLoad, Ops, Moves
<1>4. CASE ReviseLoad(r, a)
  <2>1. row[a].version + 1 \in Versions
        BY <1>0, <1>4, KnowledgeAssumption DEF ReviseLoad, Versions, Row
  <2>2. Revised(row[a]) \in Row
        BY <1>0, <2>1 DEF Revised, Row, Statuses
  <2>3. Checked([op |-> "create_revision", article |-> a, copy |-> row[a], to |-> Revised(row[a])])
        BY <1>4 DEF Checked, ReviseLoad, Allowed, Moves
  <2> QED
      BY <1>4, <2>2, <2>3, LoadStep DEF ReviseLoad, Ops, Moves
<1>5. CASE ReindexLoad(r, a)
  <2>1. Checked([op |-> "reindex", article |-> a, copy |-> row[a], to |-> row[a]])
        BY <1>5 DEF Checked, ReindexLoad, Moves
  <2> QED
      BY <1>0, <1>5, <2>1, LoadStep DEF ReindexLoad, Ops
<1>6. ASSUME NEW c \in Contents, NEW tagged \in BOOLEAN, UpdateLoad(r, a, c, tagged)
      PROVE  IInv'
  <2> DEFINE to == [row[a] EXCEPT !.content = c, !.tagged = tagged, !.embedding = "pending"]
  <2>1. to \in Row
        BY <1>0 DEF Row
  <2>2. to = [row[a] EXCEPT !.content = to.content, !.tagged = to.tagged, !.embedding = "pending"]
        BY <1>0 DEF Row
  <2>3. Checked([op |-> "update", article |-> a, copy |-> row[a], to |-> to])
    <3> HIDE DEF to
    <3> QED
        BY <1>6, <2>2 DEF Checked, UpdateLoad, Moves
  <2> QED
      BY <1>6, <2>1, <2>3, LoadStep DEF UpdateLoad, Ops
<1> QED
    BY <1>1, <1>2, <1>3, <1>4, <1>5, <1>6

LEMMA FailsStep ==
    ASSUME IInv, NEW r \in Requests, Fails(r) PROVE IInv'
<1>1. TypeOK'
      BY DEF Fails, Finished, IInv, TypeOK
<1>2. \A s \in Requests : req'[s] # None => req'[s] = req[s]
      BY DEF Fails, Finished, IInv, TypeOK
<1>3. RequestsOK'
  <2> SUFFICES ASSUME NEW s \in Requests, req'[s] # None
               PROVE  row'[req'[s].article] # None /\ Checked(req'[s]) /\ VersionOK(req[s])'
      BY DEF RequestsOK
  <2> QED
      BY <1>2 DEF Fails, IInv, RequestsOK, VersionOK, Exists
<1>4. ArchivesOK'
      BY DEF Fails, IInv, ArchivesOK, ArchiveOK, Exists
<1> QED
    BY <1>1, <1>3, <1>4 DEF IInv

-----------------------------------------------------------------------------
(* Commits                                                                  *)

\* What a commit makes of version, status, and content, by operation.
LEMMA WrittenColumns ==
    ASSUME IInv, NEW r \in Requests, NEW op \in Ops, Serves(r, op)
    PROVE  LET now == row[req[r].article]
           IN  /\ op # "create_revision" => Written(r).version = now.version
               /\ op = "create_revision" =>
                     Written(r).version = req[r].copy.version + 1 /\ Written(r).status = "draft"
               /\ op = "publish" => Written(r).status = "published"
               /\ op \in Ops \ {"archive"} =>
                     (Written(r).status = "archived" => now.status = "archived")
               /\ op \in {"update", "reindex"} => Written(r).status = now.status
               /\ op \in Moves => Written(r).status = To(op)
<1> DEFINE q == req[r]
<1>1. q.copy \in Row /\ q.to \in Row /\ Checked(q) /\ q.op = op
      BY ServesFacts
<1>2. q.copy.version \in Nat
      BY <1>1, KnowledgeAssumption DEF Row, Versions
<1>3. op \in Moves => q.to.status = To(op) /\ q.copy.status # To(op)
  <2>1. CASE op \in Moves \ {"publish", "archive", "create_revision"}
    <3>1. q.to = Moved(op, q.copy) /\ q.copy.status \in From(op)
          BY <1>1, <2>1 DEF Checked
    <3>2. q.to.status = To(op)
          BY <3>1, <1>1 DEF Moved, Row
    <3> QED
        BY <3>1, <3>2, <2>1 DEF From, To, Moves
  <2>2. CASE op \in {"publish", "archive", "create_revision"}
        BY <1>1, <2>2 DEF Checked, From, To, Moves, Published, Archived, Revised, Row
  <2> QED
      BY <2>1, <2>2
<1>4. op # "create_revision" => q.to.version = q.copy.version
  <2>1. CASE op \in Moves \ {"publish", "archive", "create_revision"}
        BY <1>1, <2>1 DEF Checked, Moved, Row
  <2>2. CASE op \notin Moves \ {"publish", "archive", "create_revision"}
        BY <1>1, <2>2 DEF Checked, Ops, Moves, Published, Archived, Row
  <2> QED
      BY <2>1, <2>2
<1>5. op = "create_revision" => q.to.version = q.copy.version + 1
      BY <1>1 DEF Checked, Revised, Row
<1>6. op \in {"update", "reindex"} => q.to.status = q.copy.status
      BY <1>1 DEF Checked, Row
<1>7. \A m \in Moves \ {"archive"} : To(m) # "archived"
      BY DEF To, Moves
<1>8. op \in Moves \/ op \in {"update", "reindex"}
      BY DEF Ops
<1>9. /\ Written(r).status = IF q.to.status = q.copy.status THEN row[q.article].status
                             ELSE q.to.status
      /\ Written(r).version = IF q.to.version = q.copy.version THEN row[q.article].version
                              ELSE q.to.version
      BY DEF Written, Flush
<1>10. To("create_revision") = "draft" /\ To("publish") = "published"
      BY DEF To
<1>11. {"publish", "create_revision", "archive"} \subseteq Moves
      BY DEF Moves
<1> HIDE DEF q
<1> QED
    BY <1>2, <1>3, <1>4, <1>5, <1>6, <1>7, <1>8, <1>9, <1>10, <1>11 DEF q

LEMMA IndexedFacts ==
    ASSUME IInv, NEW r \in Requests, NEW op \in Ops, Serves(r, op), NEW vectors \in BOOLEAN
    PROVE  /\ Indexed(r, vectors) \in Row
           /\ Indexed(r, vectors).status = Written(r).status
           /\ Indexed(r, vectors).version = Written(r).version
BY ServesFacts DEF Indexed, Row

\* A commit that takes no snapshot and does not archive.
LEMMA PlainCommit ==
    ASSUME IInv, NEW r \in Requests, NEW op \in Ops \ {"archive", "create_revision"}, Serves(r, op),
           NEW new \in Row, new.status = Written(r).status, new.version = Written(r).version,
           row' = [row EXCEPT ![req[r].article] = new], Finished(r),
           chunks' \in [Articles -> Chunks \cup {None}], UNCHANGED snap
    PROVE  IInv'
<1> DEFINE a == req[r].article
<1>1. a \in Articles /\ row[a] \in Row /\ Exists(a)
      BY ServesFacts DEF Serves
<1>2. new.version = row[a].version /\ (new.status = "archived" => row[a].status = "archived")
      BY WrittenColumns
<1>3. TypeOK'
      BY <1>1 DEF Finished, IInv, TypeOK
<1>4. RequestsOK'
  <2>1. snap' \in [Articles -> [Versions -> Contents \cup {None}]]
        BY DEF IInv, TypeOK
  <2> QED
      BY <1>1, <1>2, <2>1, RequestsKept
<1>5. ArchivesOK'
      BY <1>1, <1>2, ArchivesKept DEF IInv, ArchivesOK, ArchiveOK
<1> QED
    BY <1>3, <1>4, <1>5 DEF IInv

\* A commit that takes the snapshot of its version.
LEMMA SnapshotCommit ==
    ASSUME IInv, NEW r \in Requests, NEW op \in Ops, Serves(r, op), Snapshot(r),
           NEW new \in Row, new.status = Written(r).status, new.version = Written(r).version,
           row' = [row EXCEPT ![req[r].article] = new], Finished(r),
           chunks' \in [Articles -> Chunks \cup {None}]
    PROVE  IInv'
<1> DEFINE a == req[r].article
           v == req[r].copy.version
<1>1. a \in Articles /\ row[a] \in Row /\ Exists(a) /\ req[r].copy \in Row /\ v \in Versions
      BY ServesFacts DEF Serves, Row
<1>2. v = row[a].version
      BY SnapshotIsCurrent DEF Snapshot
<1>3. /\ snap' \in [Articles -> [Versions -> Contents \cup {None}]]
      /\ snap'[a][v] # None
      /\ \A b \in Articles, n \in Versions : snap[b][n] # None => snap'[b][n] # None
      /\ \A b \in Articles \ {a} : snap'[b] = snap[b]
  <2>1. req[r].copy.content \in Contents /\ req[r].copy.content # None
        BY <1>1, KnowledgeAssumption DEF Row
  <2> QED
      BY <1>1, <2>1 DEF Snapshot, IInv, TypeOK
<1>4. \/ new.version = row[a].version
      \/ new.version = row[a].version + 1 /\ new.status = "draft"
      BY <1>2, WrittenColumns
<1>5. TypeOK'
      BY <1>1, <1>3 DEF Finished, IInv, TypeOK
<1>6. RequestsOK'
      BY <1>1, <1>2, <1>3, <1>4, RequestsKept
<1>7. ArchivesOK'
      BY <1>1, <1>2, <1>3, <1>4, ArchivesKept
<1> QED
    BY <1>5, <1>6, <1>7 DEF IInv

LEMMA PrepareType ==
    ASSUME IInv, NEW r \in Requests, NEW op \in Ops, Serves(r, op), NEW vectors \in BOOLEAN,
           Prepare(r, vectors)
    PROVE  chunks' \in [Articles -> Chunks \cup {None}]
BY ServesFacts DEF Prepare, IInv, TypeOK, Chunks, Row

LEMMA CommitsStep ==
    ASSUME IInv, NEW r \in Requests,
           \/ MoveCommit(r) \/ PublishCommit(r) \/ ArchiveCommit(r) \/ ReviseCommit(r)
           \/ UpdateCommit(r) \/ ReindexCommit(r)
    PROVE  IInv'
<1>1. CASE MoveCommit(r)
  <2>1. PICK move \in Moves \ {"publish", "archive", "create_revision"} : Serves(r, move)
        BY <1>1 DEF MoveCommit
  <2> QED
      BY <1>1, <2>1, ServesFacts, PlainCommit DEF MoveCommit, Ops, IInv, TypeOK
<1>2. CASE PublishCommit(r)
  <2>1. PICK vectors \in BOOLEAN :
           row' = [row EXCEPT ![req[r].article] = Indexed(r, vectors)] /\ Prepare(r, vectors)
        BY <1>2 DEF PublishCommit
  <2>2. Serves(r, "publish") /\ "publish" \in Ops /\ Snapshot(r) /\ Finished(r)
        BY <1>2 DEF PublishCommit, Ops, Moves
  <2> QED
      BY <2>1, <2>2, IndexedFacts, PrepareType, SnapshotCommit
<1>3. CASE ArchiveCommit(r)
  <2>1. Serves(r, "archive") /\ "archive" \in Ops
        BY <1>3 DEF ArchiveCommit, Ops, Moves
  <2>2. chunks' \in [Articles -> Chunks \cup {None}]
        BY <1>3 DEF ArchiveCommit, IInv, TypeOK
  <2> QED
      BY <1>3, <2>1, <2>2, ServesFacts, SnapshotCommit DEF ArchiveCommit
<1>4. CASE ReviseCommit(r)
  <2>1. Serves(r, "create_revision") /\ "create_revision" \in Ops
        BY <1>4 DEF ReviseCommit, Ops, Moves
  <2>2. chunks' \in [Articles -> Chunks \cup {None}]
        BY <1>4 DEF ReviseCommit, IInv, TypeOK
  <2> QED
      BY <1>4, <2>1, <2>2, ServesFacts, SnapshotCommit DEF ReviseCommit
<1>5. CASE UpdateCommit(r)
  <2>1. Serves(r, "update") /\ "update" \in Ops \ {"archive", "create_revision"}
        BY <1>5 DEF UpdateCommit, Ops
  <2> QED
      BY <1>5, <2>1, ServesFacts, PrepareType, PlainCommit DEF UpdateCommit
<1>6. CASE ReindexCommit(r)
  <2>1. PICK vectors \in BOOLEAN :
           row' = [row EXCEPT ![req[r].article] = Indexed(r, vectors)] /\ Prepare(r, vectors)
        BY <1>6 DEF ReindexCommit
  <2>2. /\ Serves(r, "reindex") /\ "reindex" \in Ops \ {"archive", "create_revision"}
        /\ Finished(r) /\ UNCHANGED snap
        BY <1>6 DEF ReindexCommit, Ops
  <2> QED
      BY <2>1, <2>2, IndexedFacts, PrepareType, PlainCommit
<1> QED
    BY <1>1, <1>2, <1>3, <1>4, <1>5, <1>6

LEMMA StepIInv == IInv /\ [Next]_vars => IInv'
<1> SUFFICES ASSUME IInv, [Next]_vars PROVE IInv'
    OBVIOUS
<1>1. CASE UNCHANGED vars
      BY <1>1 DEF vars, IInv, TypeOK, RequestsOK, VersionOK, Exists, ArchivesOK, ArchiveOK
<1>2. CASE Next
      BY <1>2, CreateStep, DeleteStep, LoadsStep, FailsStep, CommitsStep DEF Next
<1> QED
    BY <1>1, <1>2

LEMMA Invariance == Spec => []IInv
BY InitIInv, StepIInv, PTL DEF Spec

-----------------------------------------------------------------------------
\* Rows, chunks, snapshots and requests stay within their columns, for any
\* number of articles, texts and requests.
THEOREM TypeCorrect == Spec => []TypeOK
<1>1. IInv => TypeOK
      BY DEF IInv
<1> QED
    BY <1>1, Invariance, PTL

-----------------------------------------------------------------------------
(* History and the archive                                                  *)

\* HistoryIsKept and ArchivedIsNotPublished for one article and one step.
HistoryKept(a) ==
    row'[a] # Deleted =>
       /\ \A v \in Versions : snap[a][v] # None => snap'[a][v] = snap[a][v]
       /\ Exists(a) /\ row'[a].version # row[a].version =>
             /\ row'[a].version = row[a].version + 1
             /\ snap'[a][row[a].version] # None
NotFromArchive(a) ==
    Exists(a) /\ row[a].status = "archived" /\ row'[a] # Deleted => row'[a].status # "published"

LEMMA PlainKeeps ==
    ASSUME IInv, NEW r \in Requests, NEW op \in Ops \ {"publish", "archive", "create_revision"},
           Serves(r, op), NEW new \in Row, new.status = Written(r).status,
           new.version = Written(r).version,
           row' = [row EXCEPT ![req[r].article] = new], UNCHANGED snap, NEW a \in Articles
    PROVE  HistoryKept(a) /\ NotFromArchive(a)
<1>1. req[r].article \in Articles /\ row[req[r].article] \in Row
      BY ServesFacts
<1>2. CASE a # req[r].article
      BY <1>1, <1>2 DEF HistoryKept, NotFromArchive, IInv, TypeOK
<1>3. CASE a = req[r].article
  <2>1. row'[a] = new
        BY <1>3, <1>1 DEF IInv, TypeOK
  <2>2. new.version = row[a].version
        BY <1>3, WrittenColumns
  <2>3. new.status = "published" => row[a].status = "published"
    <3>1. \A m \in Moves \ {"publish"} : To(m) # "published"
          BY DEF To, Moves
    <3> QED
        BY <1>3, <3>1, WrittenColumns DEF Ops
  <2> QED
      BY <2>1, <2>2, <2>3 DEF HistoryKept, NotFromArchive
<1> QED
    BY <1>2, <1>3

LEMMA SnapshotKeeps ==
    ASSUME IInv, NEW r \in Requests, NEW op \in Ops, Serves(r, op), Snapshot(r),
           NEW new \in Row, new.status = Written(r).status, new.version = Written(r).version,
           row' = [row EXCEPT ![req[r].article] = new], NEW a \in Articles
    PROVE  HistoryKept(a) /\ NotFromArchive(a)
<1>1. /\ req[r].article \in Articles /\ row[req[r].article] \in Row
      /\ req[r].copy.version \in Versions /\ req[r].copy.content \in Contents
      BY ServesFacts DEF Row
<1>2. CASE a # req[r].article
      BY <1>1, <1>2 DEF HistoryKept, NotFromArchive, Snapshot, IInv, TypeOK
<1>3. CASE a = req[r].article
  <2>1. row'[a] = new
        BY <1>3, <1>1 DEF IInv, TypeOK
  <2>2. req[r].copy.version = row[a].version /\ snap[a][row[a].version] = None
        BY <1>3, SnapshotIsCurrent DEF Snapshot, UniqueIndexAdmits
  <2>3. /\ snap'[a] = [snap[a] EXCEPT ![row[a].version] = req[r].copy.content]
        /\ req[r].copy.content # None
        BY <1>1, <1>3, <2>2, KnowledgeAssumption DEF Snapshot, IInv, TypeOK
  <2>4. new.version = row[a].version \/ new.version = row[a].version + 1
        BY <1>3, <2>2, WrittenColumns
  <2>5. row[a].status # "archived"
    <3>1. Exists(a)
          BY <1>3 DEF Serves
    <3> QED
        BY <3>1, <2>2 DEF IInv, ArchivesOK, ArchiveOK
  <2>6. row[a].version \in Versions /\ snap[a] \in [Versions -> Contents \cup {None}]
        BY <1>1, <1>3 DEF Row, IInv, TypeOK
  <2> QED
      BY <2>1, <2>2, <2>3, <2>4, <2>5, <2>6 DEF HistoryKept, NotFromArchive
<1> QED
    BY <1>2, <1>3

LEMMA NextKeeps ==
    ASSUME IInv, Next, NEW a \in Articles
    PROVE  HistoryKept(a) /\ NotFromArchive(a)
<1>1. ASSUME NEW b \in Articles, NEW c \in Contents, NEW tagged \in BOOLEAN, Create(b, c, tagged)
      PROVE  HistoryKept(a) /\ NotFromArchive(a)
  <2>1. CASE a = b
        BY <1>1, <2>1 DEF Create, HistoryKept, NotFromArchive, Exists
  <2>2. CASE a # b
        BY <1>1, <2>2 DEF Create, HistoryKept, NotFromArchive, IInv, TypeOK
  <2> QED
      BY <2>1, <2>2
<1>2. ASSUME NEW b \in Articles, Delete(b)
      PROVE  HistoryKept(a) /\ NotFromArchive(a)
      BY <1>2 DEF Delete, HistoryKept, NotFromArchive, IInv, TypeOK
<1>3. ASSUME UNCHANGED <<row, snap>>
      PROVE  HistoryKept(a) /\ NotFromArchive(a)
      BY <1>3 DEF HistoryKept, NotFromArchive
<1>4. ASSUME NEW r \in Requests, MoveCommit(r)
      PROVE  HistoryKept(a) /\ NotFromArchive(a)
  <2>1. PICK move \in Moves \ {"publish", "archive", "create_revision"} : Serves(r, move)
        BY <1>4 DEF MoveCommit
  <2> QED
      BY <1>4, <2>1, ServesFacts, PlainKeeps DEF MoveCommit, Ops
<1>5. ASSUME NEW r \in Requests, UpdateCommit(r)
      PROVE  HistoryKept(a) /\ NotFromArchive(a)
  <2>1. Serves(r, "update") /\ "update" \in Ops \ {"publish", "archive", "create_revision"}
        BY <1>5 DEF UpdateCommit, Ops
  <2> QED
      BY <1>5, <2>1, ServesFacts, PlainKeeps DEF UpdateCommit
<1>6. ASSUME NEW r \in Requests, ReindexCommit(r)
      PROVE  HistoryKept(a) /\ NotFromArchive(a)
  <2>1. PICK vectors \in BOOLEAN : row' = [row EXCEPT ![req[r].article] = Indexed(r, vectors)]
        BY <1>6 DEF ReindexCommit
  <2>2. /\ Serves(r, "reindex") /\ "reindex" \in Ops \ {"publish", "archive", "create_revision"}
        /\ UNCHANGED snap
        BY <1>6 DEF ReindexCommit, Ops
  <2> QED
      BY <2>1, <2>2, IndexedFacts, PlainKeeps
<1>7. ASSUME NEW r \in Requests, PublishCommit(r)
      PROVE  HistoryKept(a) /\ NotFromArchive(a)
  <2>1. PICK vectors \in BOOLEAN : row' = [row EXCEPT ![req[r].article] = Indexed(r, vectors)]
        BY <1>7 DEF PublishCommit
  <2>2. Serves(r, "publish") /\ "publish" \in Ops /\ Snapshot(r)
        BY <1>7 DEF PublishCommit, Ops, Moves
  <2> QED
      BY <2>1, <2>2, IndexedFacts, SnapshotKeeps
<1>8. ASSUME NEW r \in Requests, ArchiveCommit(r) \/ ReviseCommit(r)
      PROVE  HistoryKept(a) /\ NotFromArchive(a)
  <2>1. PICK op \in {"archive", "create_revision"} : Serves(r, op)
        BY <1>8 DEF ArchiveCommit, ReviseCommit
  <2> QED
      BY <1>8, <2>1, ServesFacts, SnapshotKeeps DEF ArchiveCommit, ReviseCommit, Ops, Moves
<1>9. ASSUME NEW r \in Requests, NEW b \in Articles,
             \/ \E move \in Moves : MoveLoad(r, b, move)
             \/ PublishLoad(r, b) \/ ArchiveLoad(r, b) \/ ReviseLoad(r, b) \/ ReindexLoad(r, b)
             \/ \E c \in Contents, tagged \in BOOLEAN : UpdateLoad(r, b, c, tagged)
      PROVE  UNCHANGED <<row, snap>>
      BY <1>9 DEF MoveLoad, PublishLoad, ArchiveLoad, ReviseLoad, ReindexLoad, UpdateLoad, Load
<1>10. ASSUME NEW r \in Requests, Fails(r) PROVE UNCHANGED <<row, snap>>
       BY <1>10 DEF Fails
<1> QED
    BY <1>1, <1>2, <1>3, <1>4, <1>5, <1>6, <1>7, <1>8, <1>9, <1>10 DEF Next

\* No revision is lost and no snapshot rewritten, however many requests overlap:
\* the unique index on (article, version) stands in for a lock.
THEOREM RevisionsAreKept == Spec => HistoryIsKept
<1>1. IInv /\ [Next]_vars => \A a \in Articles : HistoryKept(a)
  <2> SUFFICES ASSUME IInv, [Next]_vars, NEW a \in Articles PROVE HistoryKept(a)
      OBVIOUS
  <2>1. CASE UNCHANGED vars
        BY <2>1 DEF vars, HistoryKept
  <2> QED
      BY <2>1, NextKeeps
<1>2. (\A a \in Articles : HistoryKept(a)) =>
         \A a \in Articles : row'[a] # Deleted =>
            /\ \A v \in Versions : snap[a][v] # None => snap'[a][v] = snap[a][v]
            /\ Exists(a) /\ row'[a].version # row[a].version =>
                  /\ row'[a].version = row[a].version + 1
                  /\ snap'[a][row[a].version] # None
      BY DEF HistoryKept
<1> QED
    BY <1>1, <1>2, Invariance, PTL DEF Spec, HistoryIsKept

\* An archived article is never published by a request that loaded it before.
THEOREM ArchiveIsNotUndone == Spec => ArchivedIsNotPublished
<1>1. IInv /\ [Next]_vars => \A a \in Articles : NotFromArchive(a)
  <2> SUFFICES ASSUME IInv, [Next]_vars, NEW a \in Articles PROVE NotFromArchive(a)
      OBVIOUS
  <2>1. CASE UNCHANGED vars
        BY <2>1 DEF vars, NotFromArchive
  <2> QED
      BY <2>1, NextKeeps
<1>2. (\A a \in Articles : NotFromArchive(a)) =>
         \A a \in Articles :
            Exists(a) /\ row[a].status = "archived" /\ row'[a] # Deleted
            => row'[a].status # "published"
      BY DEF NotFromArchive
<1> QED
    BY <1>1, <1>2, Invariance, PTL DEF Spec, ArchivedIsNotPublished

-----------------------------------------------------------------------------
(* Drift                                                                    *)

LEMMA UnchangedStaysConsistent ==
    ASSUME NEW a \in Articles, Consistent(a), row'[a] = row[a], chunks'[a] = chunks[a],
           snap'[a] = snap[a]
    PROVE  Consistent(a)'
BY DEF Consistent, Exists

\* A commit whose copy is still the row writes its object as it is.
LEMMA FreshWrite ==
    ASSUME IInv, NEW r \in Requests, NEW op \in Ops, Serves(r, op),
           req[r].copy = row[req[r].article], NEW vectors \in BOOLEAN
    PROVE  /\ Written(r) = req[r].to
           /\ Indexed(r, vectors) =
                 [req[r].to EXCEPT !.embedding = IF vectors THEN "indexed"
                                                 ELSE IF req[r].copy.embedding = "pending" THEN @
                                                 ELSE "pending"]
BY ServesFacts, FlushFresh DEF Written, Indexed

LEMMA FreshCommitIsConsistent ==
    ASSUME IInv, NEW r \in Requests, NEW a \in Articles, Consistent(a),
           req[r] # None, req[r].article = a, req[r].copy = row[a],
           \/ MoveCommit(r) \/ PublishCommit(r) \/ ArchiveCommit(r) \/ ReviseCommit(r)
           \/ UpdateCommit(r) \/ ReindexCommit(r)
    PROVE  Consistent(a)'
<1> DEFINE q == req[r]
           c == row[a]
<1>0. /\ c \in Row /\ q.copy = c /\ q.to \in Row /\ Checked(q) /\ Exists(a)
      /\ chunks \in [Articles -> Chunks \cup {None}]
      /\ snap \in [Articles -> [Versions -> Contents \cup {None}]]
      /\ row \in [Articles -> Row \cup {None, Deleted}]
  <2>1. PICK op \in Ops : Serves(r, op)
        BY DEF MoveCommit, PublishCommit, ArchiveCommit, ReviseCommit, UpdateCommit,
               ReindexCommit, Ops, Moves
  <2> QED
      BY <2>1, ServesFacts DEF Serves, IInv, TypeOK
<1>1. CASE MoveCommit(r)
  <2>1. PICK move \in Moves \ {"publish", "archive", "create_revision"} : Serves(r, move)
        BY <1>1 DEF MoveCommit
  <2>2. q.op = move /\ q.to = Moved(move, c) /\ c.status \in From(move)
        BY <1>0, <2>1 DEF Checked, Serves
  <2>3. row'[a] = q.to /\ chunks'[a] = chunks[a] /\ snap'[a] = snap[a]
        BY <1>0, <1>1, <2>1, FreshWrite DEF MoveCommit, Ops
  <2>4. c.status # "published" /\ To(move) # "published"
        BY <2>2, <2>1 DEF From, To, Moves
  <2>5. /\ q.to.status = To(move) /\ q.to.published = c.published
        /\ q.to.content = c.content /\ q.to.embedding = c.embedding
        BY <1>0, <2>2 DEF Moved, Row
  <2> QED
      BY <1>0, <2>3, <2>4, <2>5 DEF Consistent, Exists, Row
<1>2. CASE PublishCommit(r)
  <2>1. PICK vectors \in BOOLEAN :
           row' = [row EXCEPT ![req[r].article] = Indexed(r, vectors)] /\ Prepare(r, vectors)
        BY <1>2 DEF PublishCommit
  <2>2. Serves(r, "publish") /\ "publish" \in Ops /\ Snapshot(r)
        BY <1>2 DEF PublishCommit, Ops, Moves
  <2>3. c.tagged /\ q.to = Published(c)
        BY <1>0, <2>2 DEF Checked, Serves
  <2>4. row'[a] = Indexed(r, vectors) /\ chunks'[a] = [content |-> c.content, vectors |-> vectors]
        BY <1>0, <2>1, <2>3 DEF Prepare, Published, Row
  <2>5. /\ row'[a].status = "published" /\ row'[a].published /\ row'[a].tagged
        /\ row'[a].content = c.content /\ row'[a].version = c.version
        /\ row'[a].embedding = IF vectors THEN "indexed" ELSE "pending"
    <3>1. /\ q.to.status = "published" /\ q.to.published = TRUE /\ q.to.tagged = c.tagged
          /\ q.to.content = c.content /\ q.to.version = c.version /\ q.to.embedding = c.embedding
          BY <1>0, <2>3 DEF Published, Row
    <3>2. row'[a] = [q.to EXCEPT !.embedding = IF vectors THEN "indexed"
                                               ELSE IF c.embedding = "pending" THEN @
                                               ELSE "pending"]
          BY <1>0, <2>2, <2>4, FreshWrite
    <3> HIDE DEF q
    <3> QED
        BY <1>0, <2>3, <3>1, <3>2 DEF Row
  <2>6. c.version \in Versions /\ snap'[a][c.version] = c.content
        BY <1>0, <2>2 DEF Snapshot, Row
  <2>7. chunks'[a] # None
        BY <1>0, <2>4, KnowledgeAssumption DEF Row, Chunks
  <2> QED
      BY <2>4, <2>5, <2>6, <2>7 DEF Consistent, Exists
<1>3. CASE ArchiveCommit(r)
  <2>1. Serves(r, "archive") /\ "archive" \in Ops
        BY <1>3 DEF ArchiveCommit, Ops, Moves
  <2>2. row'[a] = Archived(c) /\ chunks'[a] = None
        BY <1>0, <1>3, <2>1, FreshWrite DEF ArchiveCommit, Checked, Serves
  <2>3. row'[a].status = "archived" /\ row'[a].published = FALSE /\ row'[a].embedding = "not_indexed"
        BY <1>0, <2>2 DEF Archived, Row
  <2> QED
      BY <2>2, <2>3 DEF Consistent
<1>4. CASE ReviseCommit(r)
  <2>1. Serves(r, "create_revision") /\ "create_revision" \in Ops
        BY <1>4 DEF ReviseCommit, Ops, Moves
  <2>2. row'[a] = Revised(c) /\ chunks'[a] = chunks[a]
        BY <1>0, <1>4, <2>1, FreshWrite DEF ReviseCommit, Checked, Serves
  <2>3. /\ row'[a].status = "draft" /\ row'[a].published = FALSE
        /\ row'[a].content = c.content /\ row'[a].embedding = c.embedding
        BY <1>0, <2>2 DEF Revised, Row
  <2> QED
      BY <1>0, <2>2, <2>3 DEF Consistent
<1>5. CASE UpdateCommit(r)
  <2>1. Serves(r, "update") /\ "update" \in Ops
        BY <1>5 DEF UpdateCommit, Ops
  <2>2. row'[a] = q.to /\ chunks'[a] = [content |-> q.to.content, vectors |-> FALSE]
        BY <1>0, <1>5, <2>1, FreshWrite DEF UpdateCommit, Prepare
  <2>3. /\ c.status \notin {"published", "archived"}
        /\ q.to = [c EXCEPT !.content = q.to.content, !.tagged = q.to.tagged,
                            !.embedding = "pending"]
        BY <1>0, <2>1 DEF Checked, Serves
  <2>4. /\ row'[a].status = c.status /\ row'[a].published = c.published
        /\ row'[a].content = q.to.content /\ row'[a].embedding = "pending"
        BY <1>0, <2>2, <2>3 DEF Row
  <2>5. chunks'[a] # None
        BY <1>0, <2>2, KnowledgeAssumption DEF Row, Chunks
  <2> QED
      BY <1>0, <2>2, <2>3, <2>4, <2>5 DEF Consistent, Row
<1>6. CASE ReindexCommit(r)
  <2>1. PICK vectors \in BOOLEAN :
           row' = [row EXCEPT ![req[r].article] = Indexed(r, vectors)] /\ Prepare(r, vectors)
        BY <1>6 DEF ReindexCommit
  <2>2. Serves(r, "reindex") /\ "reindex" \in Ops /\ snap' = snap
        BY <1>6 DEF ReindexCommit, Ops
  <2>3. q.to = c /\ c.status = "published"
        BY <1>0, <2>2 DEF Checked, Serves
  <2>4. row'[a] = Indexed(r, vectors) /\ chunks'[a] = [content |-> c.content, vectors |-> vectors]
        BY <1>0, <2>1, <2>3 DEF Prepare
  <2>5. /\ row'[a].status = c.status /\ row'[a].published = c.published /\ row'[a].tagged = c.tagged
        /\ row'[a].content = c.content /\ row'[a].version = c.version
        /\ row'[a].embedding = IF vectors THEN "indexed" ELSE "pending"
        BY <1>0, <2>2, <2>3, <2>4, FreshWrite DEF Row
  <2>7. chunks'[a] # None
        BY <1>0, <2>4, KnowledgeAssumption DEF Row, Chunks
  <2> HIDE DEF q
  <2> QED
      BY <1>0, <2>2, <2>3, <2>4, <2>5, <2>7 DEF Consistent, Exists, Row
<1> QED
    BY <1>1, <1>2, <1>3, <1>4, <1>5, <1>6

\* DriftNeedsOverlap for one article and one step.
DriftIsByOverlap(a) ==
    Consistent(a) /\ ~Consistent(a)' =>
       \E r \in Requests : /\ req[r] # None /\ req'[r] = None
                           /\ req[r].article = a /\ req[r].copy # row[a]

LEMMA CommitDrift ==
    ASSUME IInv, NEW r \in Requests, NEW a \in Articles, Consistent(a), ~Consistent(a)',
           \/ MoveCommit(r) \/ PublishCommit(r) \/ ArchiveCommit(r) \/ ReviseCommit(r)
           \/ UpdateCommit(r) \/ ReindexCommit(r)
    PROVE  /\ req[r] # None /\ req'[r] = None
           /\ req[r].article = a /\ req[r].copy # row[a]
<1>1. req[r] # None /\ Finished(r)
      BY DEF MoveCommit, PublishCommit, ArchiveCommit, ReviseCommit, UpdateCommit,
             ReindexCommit, Serves
<1>2. req'[r] = None
      BY <1>1 DEF Finished, IInv, TypeOK
<1>3. req[r].article = a
  <2> SUFFICES ASSUME req[r].article # a PROVE FALSE
      OBVIOUS
  <2>1. row'[a] = row[a] /\ chunks'[a] = chunks[a] /\ snap'[a] = snap[a]
        BY DEF MoveCommit, PublishCommit, ArchiveCommit, ReviseCommit, UpdateCommit,
               ReindexCommit, Prepare, Snapshot, IInv, TypeOK
  <2> QED
      BY <2>1, UnchangedStaysConsistent
<1>4. req[r].copy # row[a]
      BY <1>1, <1>3, FreshCommitIsConsistent
<1> QED
    BY <1>1, <1>2, <1>3, <1>4

LEMMA NextDrift ==
    ASSUME IInv, Next, NEW a \in Articles PROVE DriftIsByOverlap(a)
<1> SUFFICES ASSUME Consistent(a), ~Consistent(a)'
             PROVE  \E r \in Requests : /\ req[r] # None /\ req'[r] = None
                                        /\ req[r].article = a /\ req[r].copy # row[a]
    BY DEF DriftIsByOverlap
<1>1. ASSUME NEW b \in Articles, NEW c \in Contents, NEW tagged \in BOOLEAN, Create(b, c, tagged)
      PROVE  FALSE
  <2>1. CASE a # b
        BY <1>1, <2>1, UnchangedStaysConsistent DEF Create, IInv, TypeOK
  <2>2. CASE a = b
    <3>1. row'[a] = Draft(c, tagged) /\ chunks'[a] = [content |-> c, vectors |-> FALSE]
          BY <1>1, <2>2 DEF Create, IInv, TypeOK
    <3>2. chunks'[a] # None
          BY <3>1, KnowledgeAssumption DEF Chunks
    <3> QED
        BY <3>1, <3>2 DEF Consistent, Draft
  <2> QED
      BY <2>1, <2>2
<1>2. ASSUME NEW b \in Articles, Delete(b) PROVE FALSE
  <2>1. CASE a # b
        BY <1>2, <2>1, UnchangedStaysConsistent DEF Delete, IInv, TypeOK
  <2>2. CASE a = b
        BY <1>2, <2>2 DEF Delete, Consistent, Exists, IInv, TypeOK
  <2> QED
      BY <2>1, <2>2
<1>3. ASSUME UNCHANGED <<row, chunks, snap>> PROVE FALSE
      BY <1>3, UnchangedStaysConsistent
<1>4. ASSUME NEW r \in Requests, NEW b \in Articles,
             \/ \E move \in Moves : MoveLoad(r, b, move)
             \/ PublishLoad(r, b) \/ ArchiveLoad(r, b) \/ ReviseLoad(r, b) \/ ReindexLoad(r, b)
             \/ \E c \in Contents, tagged \in BOOLEAN : UpdateLoad(r, b, c, tagged)
      PROVE  FALSE
      BY <1>3, <1>4 DEF MoveLoad, PublishLoad, ArchiveLoad, ReviseLoad, ReindexLoad, UpdateLoad,
                        Load
<1>5. ASSUME NEW r \in Requests, Fails(r) PROVE FALSE
      BY <1>3, <1>5 DEF Fails
<1>6. PICK r \in Requests :
         \/ MoveCommit(r) \/ PublishCommit(r) \/ ArchiveCommit(r) \/ ReviseCommit(r)
         \/ UpdateCommit(r) \/ ReindexCommit(r)
      BY <1>1, <1>2, <1>4, <1>5 DEF Next
<1> QED
    BY <1>6, CommitDrift

\* Row, flags, snapshot and index fall out of step only by the commit of a
\* request that another one overtook, for any number of articles and requests.
THEOREM DriftTakesTwo == Spec => DriftNeedsOverlap
<1>1. IInv /\ [Next]_vars => \A a \in Articles : DriftIsByOverlap(a)
  <2> SUFFICES ASSUME IInv, [Next]_vars, NEW a \in Articles PROVE DriftIsByOverlap(a)
      OBVIOUS
  <2>1. CASE UNCHANGED vars
        BY <2>1, UnchangedStaysConsistent DEF vars, DriftIsByOverlap
  <2> QED
      BY <2>1, NextDrift
<1>2. (\A a \in Articles : DriftIsByOverlap(a)) =>
         \A a \in Articles :
            Consistent(a) /\ ~Consistent(a)' =>
               \E r \in Requests : /\ req[r] # None /\ req'[r] = None
                                   /\ req[r].article = a /\ req[r].copy # row[a]
      BY DEF DriftIsByOverlap
<1> QED
    BY <1>1, <1>2, Invariance, PTL DEF Spec, DriftNeedsOverlap

-----------------------------------------------------------------------------
(* A published text stays on record                                         *)

\* The transition never publishes without a snapshot.  Of a published article
\* that has none, a seeded one, every request in flight has a copy with its text.
SeedOK(a) ==
    Exists(a) /\ row[a].status = "published" /\ snap[a][row[a].version] = None =>
       \A r \in Requests : req[r] # None /\ req[r].article = a =>
          req[r].copy.status = "published" /\ req[r].copy.content = row[a].content
SeedsOK == \A a \in Articles : SeedOK(a)

\* PublishedTextIsKept for one article and one step.
TextKept(a) ==
    /\ Exists(a) /\ row[a].status = "published"
    /\ snap[a][row[a].version] \in {None, row[a].content}
    /\ row'[a] # Deleted
    /\ row'[a].status # "published" \/ row'[a].content # row[a].content
    => snap'[a][row[a].version] = row[a].content

\* What a copy of a published article lets a request do.
LEMMA PublishedCopy ==
    ASSUME IInv, NEW r \in Requests, NEW op \in Ops, Serves(r, op),
           req[r].copy.status = "published"
    PROVE  /\ op \in {"archive", "create_revision", "reindex"}
           /\ Written(r).content = row[req[r].article].content
           /\ op = "reindex" => Written(r).status = row[req[r].article].status
<1> DEFINE q == req[r]
<1>1. /\ Checked(q) /\ q.op = op /\ q.copy \in Row /\ q.to \in Row
      /\ row[q.article] \in Row
      BY ServesFacts
<1>2. \A move \in Moves \ {"archive", "create_revision"} : "published" \notin From(move)
      BY DEF From, Moves
<1>3. op \in {"archive", "create_revision", "reindex"}
      BY <1>1, <1>2 DEF Checked, Ops
<1>4. q.to.content = q.copy.content
      BY <1>1, <1>3 DEF Checked, Archived, Revised, Row, Moves
<1>5. op = "reindex" => q.to.status = q.copy.status
      BY <1>1 DEF Checked
<1>6. /\ Written(r).content = IF q.to.content = q.copy.content THEN row[q.article].content
                              ELSE q.to.content
      /\ Written(r).status = IF q.to.status = q.copy.status THEN row[q.article].status
                             ELSE q.to.status
      BY DEF Written, Flush
<1> QED
    BY <1>3, <1>4, <1>5, <1>6

LEMMA InitSeeds == Init => SeedsOK
BY DEF Init, SeedsOK, SeedOK

\* A step that leaves the articles alone and loads nothing but what is there.
LEMMA LoadKeepsSeeds ==
    ASSUME IInv, SeedsOK, UNCHANGED <<row, snap>>,
           \A s \in Requests : \/ req'[s] \in {req[s], None}
                               \/ req'[s].copy = row[req'[s].article]
    PROVE  SeedsOK'
<1> SUFFICES ASSUME NEW a \in Articles, SeedOK(a) PROVE SeedOK(a)'
    BY DEF SeedsOK
<1> QED
    BY DEF SeedOK, Exists

\* A commit without a snapshot neither publishes nor takes a text away.
LEMMA PlainSeeds ==
    ASSUME IInv, SeedsOK, NEW r \in Requests,
           NEW op \in Ops \ {"publish", "archive", "create_revision"}, Serves(r, op),
           NEW new \in Row, new.status = Written(r).status, new.version = Written(r).version,
           new.content = Written(r).content,
           row' = [row EXCEPT ![req[r].article] = new], Finished(r), UNCHANGED snap,
           NEW a \in Articles
    PROVE  SeedOK(a)' /\ TextKept(a)
<1>1. /\ req[r].article \in Articles /\ row[req[r].article] \in Row /\ SeedOK(a)
      /\ req[r] # None /\ Exists(req[r].article)
      BY ServesFacts DEF SeedsOK, Serves
<1>2. \A s \in Requests : req'[s] # None => req'[s] = req[s]
      BY DEF Finished, IInv, TypeOK
<1>3. CASE a # req[r].article
  <2>1. row'[a] = row[a]
        BY <1>1, <1>3 DEF IInv, TypeOK
  <2> QED
      BY <1>1, <1>2, <2>1 DEF SeedOK, TextKept, Exists
<1>4. CASE a = req[r].article
  <2>1. row'[a] = new /\ new.version = row[a].version
        BY <1>1, <1>4, WrittenColumns DEF IInv, TypeOK
  <2>2. new.status = "published" => row[a].status = "published"
    <3>1. \A m \in Moves \ {"publish"} : To(m) # "published"
          BY DEF To, Moves
    <3>2. op \in Moves => Written(r).status = To(op)
          BY WrittenColumns
    <3>3. op \in {"update", "reindex"} => Written(r).status = row[a].status
          BY <1>4, WrittenColumns
    <3>4. op \in Moves \ {"publish"} \/ op \in {"update", "reindex"}
          BY DEF Ops
    <3> QED
        BY <3>1, <3>2, <3>3, <3>4
  <2>3. ASSUME row[a].status = "published", snap[a][row[a].version] = None
        PROVE  new.status = row[a].status /\ new.content = row[a].content
    <3>1. req[r].copy.status = "published"
          BY <1>1, <1>4, <2>3 DEF SeedOK
    <3> QED
        BY <1>4, <3>1, PublishedCopy
  <2>4. SeedOK(a)'
        BY <1>1, <1>2, <2>1, <2>2, <2>3 DEF SeedOK, Exists
  <2>5. TextKept(a)
        BY <2>1, <2>3 DEF TextKept
  <2> QED
      BY <2>4, <2>5
<1> QED
    BY <1>3, <1>4

\* A commit with a snapshot takes it of the current version, and of the current
\* text when the article is a published one that had none.
LEMMA SnapshotSeeds ==
    ASSUME IInv, SeedsOK, NEW r \in Requests, NEW op \in Ops, Serves(r, op), Snapshot(r),
           NEW new \in Row, new.status = Written(r).status, new.version = Written(r).version,
           row' = [row EXCEPT ![req[r].article] = new], Finished(r), NEW a \in Articles
    PROVE  SeedOK(a)' /\ TextKept(a)
<1>1. /\ req[r].article \in Articles /\ row[req[r].article] \in Row /\ SeedOK(a)
      /\ req[r].copy.version \in Versions /\ req[r].copy.content \in Contents
      /\ req[r] # None /\ Exists(req[r].article)
      BY ServesFacts DEF SeedsOK, Row, Serves
<1>2. \A s \in Requests : req'[s] # None => req'[s] = req[s]
      BY DEF Finished, IInv, TypeOK
<1>3. CASE a # req[r].article
  <2>1. row'[a] = row[a] /\ snap'[a] = snap[a]
        BY <1>1, <1>3 DEF IInv, TypeOK, Snapshot
  <2> QED
      BY <1>1, <1>2, <2>1 DEF SeedOK, TextKept, Exists
<1>4. CASE a = req[r].article
  <2>1. row'[a] = new
        BY <1>1, <1>4 DEF IInv, TypeOK
  <2>2. /\ req[r].copy.version = row[a].version /\ snap[a][row[a].version] = None
        /\ row[a].version \in Versions
        BY <1>1, <1>4, SnapshotIsCurrent DEF Snapshot, UniqueIndexAdmits, Row
  <2>3. /\ snap'[a][row[a].version] = req[r].copy.content
        /\ req[r].copy.content # None
        BY <1>1, <1>4, <2>2, KnowledgeAssumption DEF Snapshot, IInv, TypeOK
  <2>4. new.status = "published" => new.version = row[a].version
        BY <1>4, WrittenColumns
  <2>5. SeedOK(a)'
        BY <2>1, <2>3, <2>4 DEF SeedOK
  <2>6. TextKept(a)
        BY <1>1, <1>4, <2>2, <2>3 DEF TextKept, SeedOK
  <2> QED
      BY <2>5, <2>6
<1> QED
    BY <1>3, <1>4

LEMMA NextSeeds ==
    ASSUME IInv, SeedsOK, Next PROVE SeedsOK' /\ \A a \in Articles : TextKept(a)
<1>1. ASSUME NEW b \in Articles, NEW c \in Contents, NEW tagged \in BOOLEAN, Create(b, c, tagged)
      PROVE  SeedsOK' /\ \A a \in Articles : TextKept(a)
  <2> SUFFICES ASSUME NEW a \in Articles PROVE SeedOK(a)' /\ TextKept(a)
      BY DEF SeedsOK
  <2>1. SeedOK(a) /\ UNCHANGED <<snap, req>> /\ row \in [Articles -> Row \cup {None, Deleted}]
        BY <1>1 DEF Create, SeedsOK, IInv, TypeOK
  <2>2. CASE a = b
    <3>1. row[a] = None /\ row'[a] = Draft(c, tagged)
          BY <1>1, <2>1, <2>2 DEF Create
    <3> QED
        BY <3>1 DEF SeedOK, TextKept, Exists, Draft
  <2>3. CASE a # b
    <3>1. row'[a] = row[a]
          BY <1>1, <2>1, <2>3 DEF Create
    <3> QED
        BY <2>1, <3>1 DEF SeedOK, TextKept, Exists
  <2> QED
      BY <2>2, <2>3
<1>2. ASSUME NEW b \in Articles, Delete(b)
      PROVE  SeedsOK' /\ \A a \in Articles : TextKept(a)
  <2> SUFFICES ASSUME NEW a \in Articles PROVE SeedOK(a)' /\ TextKept(a)
      BY DEF SeedsOK
  <2>1. SeedOK(a) /\ UNCHANGED req
        BY <1>2 DEF Delete, SeedsOK
  <2>2. CASE a = b
    <3>1. row'[a] = Deleted
          BY <1>2, <2>2 DEF Delete, IInv, TypeOK
    <3> QED
        BY <3>1 DEF SeedOK, TextKept, Exists
  <2>3. CASE a # b
    <3>1. row'[a] = row[a] /\ snap'[a] = snap[a]
          BY <1>2, <2>3 DEF Delete, IInv, TypeOK
    <3> QED
        BY <2>1, <3>1 DEF SeedOK, TextKept, Exists
  <2> QED
      BY <2>2, <2>3
<1>3. ASSUME UNCHANGED <<row, snap>>,
             \A s \in Requests : \/ req'[s] \in {req[s], None}
                                 \/ req'[s].copy = row[req'[s].article]
      PROVE  SeedsOK' /\ \A a \in Articles : TextKept(a)
      BY <1>3, LoadKeepsSeeds DEF TextKept
<1>4. ASSUME NEW r \in Requests, MoveCommit(r)
      PROVE  SeedsOK' /\ \A a \in Articles : TextKept(a)
  <2>1. PICK move \in Moves \ {"publish", "archive", "create_revision"} : Serves(r, move)
        BY <1>4 DEF MoveCommit
  <2> QED
      BY <1>4, <2>1, ServesFacts, PlainSeeds DEF MoveCommit, Ops, SeedsOK
<1>5. ASSUME NEW r \in Requests, UpdateCommit(r)
      PROVE  SeedsOK' /\ \A a \in Articles : TextKept(a)
  <2>1. Serves(r, "update") /\ "update" \in Ops \ {"publish", "archive", "create_revision"}
        BY <1>5 DEF UpdateCommit, Ops
  <2> QED
      BY <1>5, <2>1, ServesFacts, PlainSeeds DEF UpdateCommit, SeedsOK
<1>6. ASSUME NEW r \in Requests, ReindexCommit(r)
      PROVE  SeedsOK' /\ \A a \in Articles : TextKept(a)
  <2>1. PICK vectors \in BOOLEAN : row' = [row EXCEPT ![req[r].article] = Indexed(r, vectors)]
        BY <1>6 DEF ReindexCommit
  <2>2. /\ Serves(r, "reindex") /\ "reindex" \in Ops \ {"publish", "archive", "create_revision"}
        /\ Finished(r) /\ UNCHANGED snap
        BY <1>6 DEF ReindexCommit, Ops
  <2>3. Indexed(r, vectors).content = Written(r).content
        BY <2>2, ServesFacts DEF Indexed, Row
  <2> QED
      BY <2>1, <2>2, <2>3, IndexedFacts, PlainSeeds DEF SeedsOK
<1>7. ASSUME NEW r \in Requests, PublishCommit(r)
      PROVE  SeedsOK' /\ \A a \in Articles : TextKept(a)
  <2>1. PICK vectors \in BOOLEAN : row' = [row EXCEPT ![req[r].article] = Indexed(r, vectors)]
        BY <1>7 DEF PublishCommit
  <2>2. Serves(r, "publish") /\ "publish" \in Ops /\ Snapshot(r) /\ Finished(r)
        BY <1>7 DEF PublishCommit, Ops, Moves
  <2> QED
      BY <2>1, <2>2, IndexedFacts, SnapshotSeeds DEF SeedsOK
<1>8. ASSUME NEW r \in Requests, ArchiveCommit(r) \/ ReviseCommit(r)
      PROVE  SeedsOK' /\ \A a \in Articles : TextKept(a)
  <2>1. PICK op \in {"archive", "create_revision"} : Serves(r, op)
        BY <1>8 DEF ArchiveCommit, ReviseCommit
  <2> QED
      BY <1>8, <2>1, ServesFacts, SnapshotSeeds
      DEF ArchiveCommit, ReviseCommit, Ops, Moves, SeedsOK
<1>9. ASSUME NEW r \in Requests, NEW b \in Articles,
             \/ \E move \in Moves : MoveLoad(r, b, move)
             \/ PublishLoad(r, b) \/ ArchiveLoad(r, b) \/ ReviseLoad(r, b) \/ ReindexLoad(r, b)
             \/ \E c \in Contents, tagged \in BOOLEAN : UpdateLoad(r, b, c, tagged)
      PROVE  SeedsOK' /\ \A a \in Articles : TextKept(a)
  <2>1. ASSUME NEW op, NEW to, Load(r, op, b, to)
        PROVE  SeedsOK' /\ \A a \in Articles : TextKept(a)
    <3>1. \A s \in Requests : req'[s] = req[s] \/ req'[s].copy = row[req'[s].article]
          BY <2>1 DEF Load, IInv, TypeOK
    <3> QED
        BY <2>1, <3>1, <1>3 DEF Load
  <2>2. CASE \E move \in Moves : MoveLoad(r, b, move)
        BY <2>1, <2>2 DEF MoveLoad
  <2>3. CASE PublishLoad(r, b)
        BY <2>1, <2>3 DEF PublishLoad
  <2>4. CASE ArchiveLoad(r, b)
        BY <2>1, <2>4 DEF ArchiveLoad
  <2>5. CASE ReviseLoad(r, b)
        BY <2>1, <2>5 DEF ReviseLoad
  <2>6. CASE ReindexLoad(r, b)
        BY <2>1, <2>6 DEF ReindexLoad
  <2>7. CASE \E c \in Contents, tagged \in BOOLEAN : UpdateLoad(r, b, c, tagged)
        BY <2>1, <2>7 DEF UpdateLoad
  <2> QED
      BY <1>9, <2>2, <2>3, <2>4, <2>5, <2>6, <2>7
<1>10. ASSUME NEW r \in Requests, Fails(r)
       PROVE  SeedsOK' /\ \A a \in Articles : TextKept(a)
       BY <1>3, <1>10 DEF Fails, Finished, IInv, TypeOK
<1> QED
    BY <1>1, <1>2, <1>4, <1>5, <1>6, <1>7, <1>8, <1>9, <1>10 DEF Next

\* A published text that is replaced or taken back is in the snapshot of its
\* version, however many requests overlap and however old their copies are.
THEOREM PublishedTextStaysOnRecord == Spec => PublishedTextIsKept
<1>1. Init => SeedsOK
      BY InitSeeds
<1>2. IInv /\ SeedsOK /\ [Next]_vars => SeedsOK' /\ \A a \in Articles : TextKept(a)
  <2> SUFFICES ASSUME IInv, SeedsOK, [Next]_vars
               PROVE  SeedsOK' /\ \A a \in Articles : TextKept(a)
      OBVIOUS
  <2>1. CASE UNCHANGED vars
        BY <2>1 DEF vars, SeedsOK, SeedOK, TextKept, Exists
  <2> QED
      BY <2>1, NextSeeds
<1>3. (\A a \in Articles : TextKept(a)) =>
         \A a \in Articles :
            /\ Exists(a) /\ row[a].status = "published"
            /\ snap[a][row[a].version] \in {None, row[a].content}
            /\ row'[a] # Deleted
            /\ row'[a].status # "published" \/ row'[a].content # row[a].content
            => snap'[a][row[a].version] = row[a].content
      BY DEF TextKept
<1> QED
    BY <1>1, <1>2, <1>3, Invariance, PTL DEF Spec, PublishedTextIsKept
=============================================================================
