------------------------------ MODULE ApiProofs ------------------------------
(***************************************************************************)
(* What holds of References and of Api for any database, any number of     *)
(* requests and any of their interleavings: no request leaves a reference  *)
(* to a row that is not there, and what a successful request added is      *)
(* kept; a caller finds nothing of other owners; and a client that pages   *)
(* misses nothing.                                                         *)
(***************************************************************************)
EXTENDS Api, FiniteSetTheorems, TLAPS

-----------------------------------------------------------------------------
\* The inductive invariant.

\* Ends of a transaction, and where one that creates a row has not yet tried to.
Ends == {"done", "notFound", "client", "internal", "refused"}
Early == {"begin", "cells", "profiles", "references"}

\* The requests are those of a scenario.
RequestsOK == DOMAIN trx = DOMAIN req /\ \E s \in Scenarios : req = s.requests

\* Every row is one of its table.
RowsOK ==
  /\ IsFiniteSet(DOMAIN db)
  /\ \A r \in DOMAIN db : IsRow(db[r], TableOf[r]) /\ (TableOf[r] = "odef" => r \in ODefs)

\* A transaction has these parts.
IsTrx(t) ==
  /\ DOMAIN t = {"pc", "share", "excl", "read", "stale", "value", "lock", "stored"}
  /\ t.stale \in BOOLEAN

\* Rows that are locked are there, and an exclusive lock is the only one on its row.
LocksOK ==
  /\ \A q \in DOMAIN trx : IsTrx(trx[q]) /\ trx[q].share \union trx[q].excl \subseteq DOMAIN db
  /\ \A q \in DOMAIN trx : \A p \in DOMAIN trx \ {q} :
       trx[q].excl \intersect (trx[p].excl \union trx[p].share) = {}

\* No update of a row changes what it refers to.
SameReferences(v, w) ==
  v.tenant = w.tenant /\ v.owner = w.owner /\ v.cell = w.cell /\ v.dprofiles = w.dprofiles

\* What a participant's deployment refers to is locked, or is about to be.
DeployOK(q, t) ==
  req[q].op = "deployParticipant" =>
    /\ t.pc \in {"cells", "profiles", "references"} => req[q].tenant \in t.share
    /\ t.pc = "profiles" => \A c \in DOMAIN t.value : TableOf[c] = "cell"
    /\ t.pc = "references" =>
         /\ IsParticipant(t.value)
         /\ t.value.tenant = req[q].tenant /\ t.value.owner = db[req[q].tenant].owner
         /\ t.value.state = "pending" /\ t.value.pending = q
         /\ t.lock \in Seq(Range(t.lock))
         /\ {t.value.cell} \union t.value.dprofiles \subseteq t.share \union Range(t.lock)

\* The row that a disposal writes back is the one it read, but for the state; a row that
\* waits for it is being disposed.
DisposeOK(q, t) ==
  req[q].op = "dispose" =>
    LET p == req[q].id
    IN  /\ t.pc = "write" =>
             /\ p \in t.read
             /\ IsParticipant(t.value) /\ t.value.state = "disposing" /\ t.value.pending = q
             /\ p \in DOMAIN db => SameReferences(t.value, db[p])
             /\ ~t.stale => p \in DOMAIN db /\ db[p].state = "active"
        /\ t.pc = "send" /\ p \in DOMAIN db /\ db[p].pending = q => db[p].state = "disposing"

PatchOK(q, t) ==
  req[q].op = "patchTenant" /\ t.pc = "write" =>
    LET p == req[q].id
    IN  /\ p \in t.read
        /\ IsTenant(t.value)
        /\ req[q].add \ req[q].remove \subseteq t.value.properties
        /\ p \in DOMAIN db => t.value.owner = db[p].owner
        /\ ~t.stale =>
             /\ p \in DOMAIN db
             /\ t.value.properties = (db[p].properties \union req[q].add) \ req[q].remove

DeployProfileOK(q, t) ==
  req[q].op = "deployProfile" /\ t.pc \in {"cell", "write"} =>
    LET d == req[q].id
    IN  /\ d \in t.read
        /\ IsProfile(t.value) /\ req[q].cell \in t.value.deployments
        /\ ~t.stale => d \in DOMAIN db /\ t.value.deployments = db[d].deployments \union {req[q].cell}
        /\ t.pc = "write" => req[q].cell \in t.share

\* Rows written from an unlocked read that was out of date are exempt.
Unused(r) ==
  CASE TableOf[r] = "tenant" -> \A p \in Rows("participant") : db[p].tenant # r
    [] TableOf[r] = "cell" ->
         /\ \A p \in Rows("participant") \ tainted : db[p].cell = r => db[p].state = "disposed"
         /\ \A d \in Rows("dprofile") \ tainted : r \notin db[d].deployments
    [] TableOf[r] = "dprofile" ->
         \A p \in Rows("participant") \ tainted : r \in db[p].dprofiles => db[p].state = "disposed"
    [] OTHER -> TRUE

\* A row that was found unused stays unused until it is deleted: it is locked, or its
\* request learns that it is out of date.
DeleteOK(q, t) ==
  t.pc \in {"check", "delete"} =>
    /\ req[q].op \in {"deleteTenant", "deleteCell", "deleteProfile", "deleteADef"}
    /\ req[q].op = "deleteADef" =>
         /\ t.pc = "delete" /\ {req[q].id} \union ODefs \subseteq t.read
         /\ ~t.stale => ActivityDefinitionReferences(req[q].id) = {}
    /\ req[q].op # "deleteADef" =>
         req[q].id \in t.excl /\ (t.pc = "delete" => Unused(req[q].id))

\* A deletion of a template locks and deletes orchestration definitions only.
DefinitionOK(q, t) ==
  /\ req[q].op \in {"createODef", "createADef"} /\ t.pc \in {"update", "insert"} =>
       /\ t.value.def \in DOMAIN req[q].defs
       /\ req[q].op = "createODef" =>
            LET types == req[q].defs[t.value.def].types
            IN  types \subseteq t.read /\ (~t.stale => types \subseteq DOMAIN db)
  /\ req[q].op = "deleteODef" /\ t.pc = "begin" => t.excl = {}
  /\ t.pc \in {"lookUp", "deleteNext"} =>
       /\ t.lock \in Seq(Range(t.lock)) /\ (t.pc = "deleteNext" => t.lock # <<>>)
       /\ \A o \in t.excl \union Range(t.lock) : TableOf[o] = "odef"

TrxOK(q, t) ==
  DeployOK(q, t) /\ DisposeOK(q, t) /\ PatchOK(q, t) /\ DeployProfileOK(q, t)
    /\ DeleteOK(q, t) /\ DefinitionOK(q, t)

\* The id of a row that is still to be created is new.
Fresh ==
  \A p \in DOMAIN trx : Creates(req[p]) /\ trx[p].pc \in Early =>
    /\ req[p].id \notin DOMAIN db
    /\ \A q \in DOMAIN trx :
         req[q].op \in {"dispose", "patchTenant"} /\ trx[q].pc = "write" => req[q].id # req[p].id

KeptOK ==
  \A k \in kept :
    /\ k = <<k[1], k[2]>> /\ k[1] \in DOMAIN db
    /\ \/ TableOf[k[1]] = "tenant" /\ k[2] \in db[k[1]].properties
       \/ TableOf[k[1]] = "dprofile" /\ k[2] \in db[k[1]].deployments

RInv ==
  /\ RequestsOK /\ RowsOK /\ LocksOK /\ Fresh /\ NoDangling /\ KeptOK
  /\ \A q \in DOMAIN trx : TrxOK(q, trx[q])

-----------------------------------------------------------------------------
\* Facts about rows and requests.

\* A row's kind is its table.
LEMMA KindIsTable ==
  ASSUME NEW row, NEW t, IsRow(row, t)
  PROVE  row.kind = t
  BY DEF IsRow, IsTenant, IsProfile, IsParticipant, IsODef

\* Rows of a kind are the rows of its table.
LEMMA RowsByTable ==
  ASSUME RowsOK, NEW kind
  PROVE  Rows(kind) = {r \in DOMAIN db : TableOf[r] = kind}
  BY KindIsTable DEF Rows, RowsOK

\* Rows that are a tenant, a dataspace profile, a participant, an orchestration definition.
LEMMA RowTypes ==
  ASSUME NEW row
  PROVE  /\ IsRow(row, "tenant") <=> IsTenant(row)
         /\ IsRow(row, "dprofile") <=> IsProfile(row)
         /\ IsRow(row, "participant") <=> IsParticipant(row)
         /\ IsRow(row, "odef") <=> IsODef(row)
         /\ IsRow(row, "cell") <=> row.kind = "cell"
         /\ IsRow(row, "adef") <=> row.kind = "adef"
  BY DEF IsRow

\* What the assumption says of the requests of a state.
LEMMA RequestFacts ==
  ASSUME RequestsOK, NEW q \in DOMAIN trx
  PROVE  /\ q # 0
         /\ IsRequest(req[q])
         /\ Creates(req[q]) => req[q].id \in DOMAIN TableOf
         /\ \A p \in DOMAIN trx \ {q} : Creates(req[q]) /\ Creates(req[p]) => req[p].id # req[q].id
  BY ReferencesAssumption DEF RequestsOK

-----------------------------------------------------------------------------
\* Initial states.

\* The invariant holds initially.
LEMMA InitRInv == Init => RInv
<1> SUFFICES ASSUME Init PROVE RInv
  OBVIOUS
<1>1. PICK s \in Scenarios : db = s.rows /\ req = s.requests
  BY DEF Init
<1> USE DEF Init
<1>a. \A q \in DOMAIN trx : trx[q] = New
  OBVIOUS
<1>b. IsTrx(New) /\ New.pc = "begin" /\ New.share = {} /\ New.excl = {}
  BY DEF IsTrx, New
<1>2. RequestsOK
  BY <1>1 DEF RequestsOK
<1>3. RowsOK
  BY <1>1, ReferencesAssumption DEF RowsOK, ODefs
<1>4. LocksOK
  BY <1>a, <1>b DEF LocksOK
<1>5. Fresh
  BY <1>1, <1>a, <1>b, ReferencesAssumption DEF Fresh
<1>6. NoDangling
  <2> SUFFICES ASSUME NEW r \in DOMAIN db, Refers(db, db[r])
               PROVE  /\ r \in Rows("participant") =>
                           /\ db[r].tenant \in Rows("tenant")
                           /\ db[r].owner = db[db[r].tenant].owner
                           /\ db[r].state = "disposed" \/ {db[r].cell} \union db[r].dprofiles \subseteq DOMAIN db
                      /\ r \in Rows("dprofile") => db[r].deployments \subseteq DOMAIN db
                      /\ r \in Rows("odef") => db[r].types \subseteq DOMAIN db
    <3>1. \A r \in DOMAIN db : Refers(db, db[r])
      BY <1>1, ReferencesAssumption
    <3> QED
      BY <3>1 DEF NoDangling, Rows
  <2>1. r \in Rows("participant") => db[r].tenant \in Rows("tenant")
    <3>1. r \in Rows("participant") => IsParticipant(db[r])
      BY <1>3, RowsByTable, RowTypes DEF RowsOK
    <3> QED
      BY <1>3, <3>1, RowsByTable DEF Refers, Rows, IsParticipant
  <2> QED
    BY <2>1 DEF Refers, Rows
<1>7. KeptOK
  BY DEF KeptOK
<1>8. \A q \in DOMAIN trx : TrxOK(q, trx[q])
  BY <1>a, <1>b DEF TrxOK, DeployOK, DisposeOK, PatchOK, DeployProfileOK, DeleteOK, DefinitionOK
<1> QED
  BY <1>2, <1>3, <1>4, <1>5, <1>6, <1>7, <1>8 DEF RInv

-----------------------------------------------------------------------------
\* Steps that write nothing.

\* What holds of a transaction depends on the database only.
LEMMA TrxUnchanged ==
  ASSUME NEW q, NEW t, TrxOK(q, t), UNCHANGED <<req, db, tainted>>
  PROVE  TrxOK(q, t)'
  BY DEF TrxOK, DeployOK, DisposeOK, PatchOK, DeployProfileOK, DeleteOK, DefinitionOK, Unused, Rows,
         ActivityDefinitionReferences

\* A transaction goes on, with the locks that it may take.
LEMMA ContinueKeeps ==
  ASSUME RInv, NEW q \in DOMAIN trx, NEW t, Continue(q, t), IsTrx(t), TrxOK(q, t),
         t.share \union t.excl \subseteq DOMAIN db,
         \A r \in t.share \ trx[q].share : CanShare(q, r),
         \A r \in t.excl \ trx[q].excl : CanExclude(q, r),
         Creates(req[q]) /\ t.pc \in Early => trx[q].pc \in Early,
         req[q].op \in {"dispose", "patchTenant"} /\ t.pc = "write" => req[q].id \in DOMAIN db
  PROVE  RInv'
<1> USE DEF Continue
<1>a. /\ DOMAIN trx' = DOMAIN trx
      /\ \A p \in DOMAIN trx : trx'[p] = IF p = q THEN t ELSE trx[p]
  OBVIOUS
<1>1. RequestsOK' /\ RowsOK' /\ NoDangling' /\ KeptOK'
  BY <1>a DEF RInv, RequestsOK, RowsOK, NoDangling, Rows, KeptOK
<1>2. LocksOK'
  BY <1>a DEF RInv, LocksOK, CanShare, CanExclude
<1>3. Fresh'
  BY <1>a DEF RInv, Fresh, Creates
<1>4. ASSUME NEW p \in DOMAIN trx
      PROVE  TrxOK(p, trx[p])'
  <2>1. TrxOK(p, IF p = q THEN t ELSE trx[p])
    BY DEF RInv
  <2> QED
    BY <1>a, <2>1, TrxUnchanged DEF TrxOK
<1> QED
  BY <1>1, <1>2, <1>3, <1>4, <1>a DEF RInv

\* A request that is over has no locks.
LEMMA OverIs ==
  ASSUME NEW how
  PROVE  /\ IsTrx(Over(how)) /\ Over(how).pc = how
         /\ Over(how).share = {} /\ Over(how).excl = {}
<1>1. IsTrx(New) /\ New.share = {} /\ New.excl = {}
  BY DEF New, IsTrx
<1> QED
  BY <1>1 DEF Over, IsTrx

\* An error ends a transaction.
LEMMA RollbackKeeps ==
  ASSUME RInv, NEW q \in DOMAIN trx, NEW error \in Ends, Rollback(q, error)
  PROVE  RInv'
<1>1. TrxOK(q, Over(error))
  BY OverIs DEF Ends, TrxOK, DeployOK, DisposeOK, PatchOK, DeployProfileOK, DeleteOK, DefinitionOK
<1> QED
  BY <1>1, OverIs, ContinueKeeps DEF Rollback, Continue, Ends, Early

-----------------------------------------------------------------------------
\* Steps that write.

\* What a commit may do: it writes and deletes rows that no other transaction has locked,
\* creates the rows of its own id, refers to rows that it has locked, deletes rows that are
\* not in use, and, unless what it read is out of date, adds to what a row holds.
Sound(q, d) ==
  /\ IsFiniteSet(DOMAIN d) /\ \A r \in DOMAIN d : IsRow(d[r], TableOf[r])
  /\ \A r \in DOMAIN db : (r \in DOMAIN d /\ d[r] = db[r]) \/ CanExclude(q, r)
  /\ \A r \in DOMAIN d \ DOMAIN db :
       /\ \/ TableOf[r] \in {"adef", "odef"}
          \/ Creates(req[q]) /\ trx[q].pc \in Early /\ r = req[q].id
       /\ TableOf[r] = "participant" =>
            /\ {d[r].tenant, d[r].cell} \union d[r].dprofiles \subseteq trx[q].share \intersect DOMAIN d
            /\ d[r].owner = db[d[r].tenant].owner /\ d[r].pending = q
       /\ TableOf[r] = "dprofile" => d[r].deployments = {}
       /\ TableOf[r] = "odef" => r \in ODefs /\ (~trx[q].stale => d[r].types \subseteq DOMAIN d)
  /\ \A r \in DOMAIN d \intersect DOMAIN db : d[r] # db[r] =>
       /\ TableOf[r] = "tenant" =>
            /\ d[r].owner = db[r].owner
            /\ trx[q].stale \/ \A x \in db[r].properties : x \in d[r].properties \/ <<r, x>> \in Removed(q)
       /\ TableOf[r] = "participant" =>
            /\ SameReferences(d[r], db[r])
            /\ d[r].pending \in {0, q}
            /\ trx[q].stale \/ db[r].state # "disposed"
       /\ TableOf[r] = "dprofile" /\ ~trx[q].stale =>
            /\ db[r].deployments \subseteq d[r].deployments
            /\ d[r].deployments \subseteq db[r].deployments \union (trx[q].share \intersect DOMAIN d)
       /\ TableOf[r] = "odef" /\ ~trx[q].stale => d[r].types \subseteq DOMAIN d
  /\ \A r \in DOMAIN db \ DOMAIN d :
       /\ Unused(r)
       /\ TableOf[r] = "adef" => trx[q].stale \/ ActivityDefinitionReferences(r) = {}

\* What a commit leaves of the other transactions.
LEMMA Others ==
  ASSUME RInv, NEW q \in DOMAIN trx, NEW d, NEW t, NEW added, CommitTo(q, d, t, added),
         NEW p \in DOMAIN trx \ {q}
  PROVE  /\ IsTrx(trx'[p])
         /\ trx'[p].pc = trx[p].pc /\ trx'[p].share = trx[p].share /\ trx'[p].excl = trx[p].excl
         /\ trx'[p].read = trx[p].read /\ trx'[p].value = trx[p].value /\ trx'[p].lock = trx[p].lock
         /\ ~trx'[p].stale => ~trx[p].stale
         /\ ~trx'[p].stale => \A r \in trx[p].read :
              /\ r \in DOMAIN db <=> r \in DOMAIN d
              /\ r \in DOMAIN db => d[r] = db[r]
<1> DEFINE rows == {r \in DOMAIN d \union DOMAIN db : ~(r \in DOMAIN d /\ r \in DOMAIN db /\ d[r] = db[r])}
<1>1. trx'[p] = Outdated(trx[p], rows)
  BY DEF CommitTo
<1>2. IsTrx(trx[p])
  BY DEF RInv, LocksOK
<1>3. CASE trx[p].read \intersect rows # {}
  <2>1. trx'[p] = [trx[p] EXCEPT !.stale = TRUE]
    BY <1>1, <1>3 DEF Outdated
  <2> HIDE DEF rows
  <2> QED
    BY <2>1, <1>2 DEF IsTrx
<1>4. CASE trx[p].read \intersect rows = {}
  BY <1>1, <1>2, <1>4 DEF Outdated
<1> QED
  BY <1>3, <1>4

\* A row that is locked stays as it is.
LEMMA LockedStays ==
  ASSUME RInv, NEW q \in DOMAIN trx, NEW d, Sound(q, d),
         NEW p \in DOMAIN trx \ {q}, NEW r \in trx[p].share \union trx[p].excl
  PROVE  r \in DOMAIN db /\ r \in DOMAIN d /\ d[r] = db[r]
  BY DEF RInv, LocksOK, Sound, CanExclude

\* Rows that are changed, created or deleted by a commit that read what is out of date are
\* exempt from then on; the others stay exempt unless they are created or deleted.
LEMMA Tainted ==
  ASSUME NEW q, NEW d, NEW t, NEW added, CommitTo(q, d, t, added), NEW r \in DOMAIN d, r \notin tainted'
  PROVE  /\ r \in DOMAIN db => r \notin tainted
         /\ (r \in DOMAIN db /\ d[r] = db[r]) \/ ~trx[q].stale
  BY DEF CommitTo

\* A row that another transaction found unused stays unused.
LEMMA UnusedStays ==
  ASSUME RInv, NEW q \in DOMAIN trx, NEW d, NEW t, NEW added, CommitTo(q, d, t, added), Sound(q, d),
         NEW p \in DOMAIN trx \ {q}, NEW r \in trx[p].excl, Unused(r)
  PROVE  Unused(r)'
<1>a. db' = d /\ RowsOK /\ RowsOK'
  BY DEF CommitTo, RInv, RowsOK, Sound
<1>b. \A k : /\ Rows(k) = {x \in DOMAIN db : TableOf[x] = k}
             /\ Rows(k)' = {x \in DOMAIN d : TableOf[x] = k}
  <2>1. \A k : Rows(k) = {x \in DOMAIN db : TableOf[x] = k}
    BY <1>a, RowsByTable
  <2>2. \A k : Rows(k)' = {x \in DOMAIN db : TableOf[x] = k}'
    BY <1>a, KindIsTable DEF Rows, RowsOK
  <2> QED
    BY <2>1, <2>2, <1>a
<1>c. r \notin trx[q].share
  BY DEF RInv, LocksOK
<1>1. ASSUME NEW x \in DOMAIN d, TableOf[x] = "participant"
      PROVE  /\ TableOf[r] = "tenant" => d[x].tenant # r
             /\ x \notin tainted' =>
                  \/ r # d[x].cell /\ r \notin d[x].dprofiles
                  \/ x \in DOMAIN db \ tainted /\ SameReferences(d[x], db[x])
                      /\ (db[x].state = "disposed" => d[x].state = "disposed")
  <2>1. CASE x \in DOMAIN db
    <3>1. d[x] = db[x] \/ SameReferences(d[x], db[x])
      BY <1>1, <2>1 DEF Sound
    <3> QED
      BY <1>1, <2>1, <3>1, <1>b, Tainted DEF Unused, SameReferences, Sound
  <2>2. CASE x \notin DOMAIN db
    BY <1>1, <2>2, <1>c DEF Sound
  <2> QED
    BY <2>1, <2>2
<1>2. ASSUME NEW x \in DOMAIN d, TableOf[x] = "dprofile", x \notin tainted'
      PROVE  r \in d[x].deployments => x \in DOMAIN db \ tainted /\ r \in db[x].deployments
  BY <1>2, <1>c, Tainted DEF Sound
<1> QED
  BY <1>a, <1>b, <1>1, <1>2 DEF Unused, SameReferences

\* What the other transactions know stays true.
LEMMA OthersKeep ==
  ASSUME RInv, NEW q \in DOMAIN trx, NEW d, NEW t, NEW added, CommitTo(q, d, t, added), Sound(q, d),
         NEW p \in DOMAIN trx \ {q}
  PROVE  TrxOK(p, trx[p])'
<1>a. db' = d /\ req' = req
  BY DEF CommitTo
<1>b. TrxOK(p, trx[p]) /\ RequestsOK /\ RowsOK /\ IsRequest(req[p]) /\ p # 0
  BY RequestFacts DEF RInv
<1>c. \A r \in DOMAIN d : r \notin DOMAIN db =>
        TableOf[r] \in {"adef", "odef"} \/ r # req[p].id \/ ~Creates(req[p])
  BY <1>b, RequestFacts DEF Sound
<1>1. DeployOK(p, trx[p])'
  BY <1>a, <1>b, Others, LockedStays DEF TrxOK, DeployOK, IsParticipant
<1>2. DisposeOK(p, trx[p])'
  <2> SUFFICES ASSUME req[p].op = "dispose"
               PROVE  DisposeOK(p, trx[p])'
    BY <1>a DEF DisposeOK
  <2>1. TableOf[req[p].id] = "participant"
    BY <1>b DEF IsRequest
  <2>2. trx[p].pc = "write" /\ req[p].id \in DOMAIN d => req[p].id \in DOMAIN db
    BY <2>1 DEF Sound, RInv, Fresh
  <2>3. req[p].id \in DOMAIN d /\ req[p].id \in DOMAIN db => SameReferences(d[req[p].id], db[req[p].id])
    BY <2>1 DEF Sound, SameReferences
  <2>4. req[p].id \in DOMAIN d /\ d[req[p].id].pending = p =>
          req[p].id \in DOMAIN db /\ d[req[p].id] = db[req[p].id]
    BY <2>1, <1>b DEF Sound
  <2> QED
    BY <1>a, <1>b, <2>2, <2>3, <2>4, Others DEF TrxOK, DisposeOK, SameReferences
<1>3. PatchOK(p, trx[p])'
  <2> SUFFICES ASSUME req[p].op = "patchTenant"
               PROVE  PatchOK(p, trx[p])'
    BY <1>a DEF PatchOK
  <2>1. TableOf[req[p].id] = "tenant"
    BY <1>b DEF IsRequest
  <2>2. trx[p].pc = "write" /\ req[p].id \in DOMAIN d => req[p].id \in DOMAIN db
    BY <2>1 DEF Sound, RInv, Fresh
  <2>3. req[p].id \in DOMAIN d /\ req[p].id \in DOMAIN db => d[req[p].id].owner = db[req[p].id].owner
    BY <2>1 DEF Sound
  <2> QED
    BY <1>a, <1>b, <2>2, <2>3, Others DEF TrxOK, PatchOK
<1>4. DeployProfileOK(p, trx[p])'
  BY <1>a, <1>b, Others DEF TrxOK, DeployProfileOK
<1>5. DeleteOK(p, trx[p])'
  <2>1. req[p].op = "deleteADef" /\ trx[p].pc = "delete" /\ ~trx'[p].stale =>
          ActivityDefinitionReferences(req[p].id)' = {}
    <3> SUFFICES ASSUME req[p].op = "deleteADef", trx[p].pc = "delete", ~trx'[p].stale,
                        NEW o \in ActivityDefinitionReferences(req[p].id)'
                 PROVE  FALSE
      OBVIOUS
    <3>1. o \in DOMAIN d /\ d[o].kind = "odef" /\ req[p].id \in d[o].types
      BY <1>a DEF ActivityDefinitionReferences, Rows
    <3>2. o \in ODefs
      <4>1. TableOf[o] = "odef"
        BY <3>1, KindIsTable DEF Sound
      <4> QED
        BY <1>b, <3>1, <4>1 DEF Sound, RowsOK
    <3>3. o \in DOMAIN db /\ d[o] = db[o]
      <4>1. ODefs \subseteq trx[p].read
        BY <1>b DEF TrxOK, DeleteOK
      <4> QED
        BY <3>1, <3>2, <4>1, Others
    <3> QED
      BY <1>b, <3>1, <3>3, Others DEF TrxOK, DeleteOK, ActivityDefinitionReferences, Rows
  <2>2. req[p].op # "deleteADef" /\ trx[p].pc = "delete" => Unused(req[p].id)'
    <3>1. \A r \in trx[p].excl : Unused(r) => Unused(r)'
      BY UnusedStays
    <3>2. req[p].op # "deleteADef" /\ trx[p].pc = "delete" => req[p].id \in trx[p].excl /\ Unused(req[p].id)
      BY <1>b DEF TrxOK, DeleteOK
    <3> QED
      BY <1>a, <3>1, <3>2 DEF Unused
  <2> QED
    <3>1. DeleteOK(p, trx[p])
      BY <1>b DEF TrxOK
    <3> QED
      BY <1>a, <2>1, <2>2, <3>1, Others DEF DeleteOK
<1>6. DefinitionOK(p, trx[p])'
  BY <1>a, <1>b, Others DEF TrxOK, DefinitionOK
<1> QED
  BY <1>1, <1>2, <1>3, <1>4, <1>5, <1>6 DEF TrxOK

\* A commit leaves no reference to a row that is not there.
LEMMA CommitNoDangling ==
  ASSUME RInv, NEW q \in DOMAIN trx, NEW d, NEW t, NEW added, CommitTo(q, d, t, added), Sound(q, d)
  PROVE  NoDangling'
<1>a. db' = d /\ RowsOK /\ NoDangling
  BY DEF CommitTo, RInv
<1>b. \A k : /\ Rows(k) = {x \in DOMAIN db : TableOf[x] = k}
             /\ Rows(k)' = {x \in DOMAIN d : TableOf[x] = k}
  <2>1. \A k : Rows(k) = {x \in DOMAIN db : TableOf[x] = k}
    BY <1>a, RowsByTable
  <2>2. \A k : Rows(k)' = {x \in DOMAIN d : TableOf[x] = k}
    BY <1>a, KindIsTable DEF Rows, Sound
  <2> QED
    BY <2>1, <2>2
<1>c. \A x \in DOMAIN db \ DOMAIN d : Unused(x)
  BY DEF Sound
<1>1. ASSUME NEW x \in DOMAIN d, TableOf[x] = "participant"
      PROVE  /\ d[x].tenant \in DOMAIN d /\ TableOf[d[x].tenant] = "tenant"
             /\ d[x].owner = d[d[x].tenant].owner
             /\ d[x].state = "disposed" \/ x \in tainted'
                  \/ {d[x].cell} \union d[x].dprofiles \subseteq DOMAIN d
  <2>a. IsParticipant(d[x])
    BY <1>1, RowTypes DEF Sound
  <2>b. TableOf[d[x].tenant] = "tenant" /\ TableOf[d[x].cell] = "cell"
          /\ \A y \in d[x].dprofiles : TableOf[y] = "dprofile"
    BY <2>a DEF IsParticipant
  <2>c. \A y \in DOMAIN d \intersect DOMAIN db : TableOf[y] = "tenant" => d[y].owner = db[y].owner
    BY DEF Sound
  <2>1. CASE x \in DOMAIN db
    <3>1. SameReferences(d[x], db[x])
      BY <1>1, <2>1 DEF Sound, SameReferences
    <3>2. db[x].tenant \in DOMAIN db /\ db[x].owner = db[db[x].tenant].owner
      BY <1>1, <2>1, <1>a, <1>b DEF NoDangling
    <3>3. d[x].tenant \in DOMAIN d
      BY <1>1, <2>1, <2>b, <1>b, <1>c, <3>1, <3>2 DEF SameReferences, Unused
    <3>4. CASE d[x].state # "disposed" /\ x \notin tainted'
      <4>1. x \notin tainted /\ db[x].state # "disposed"
        BY <1>1, <2>1, <3>4, Tainted DEF Sound
      <4>2. {db[x].cell} \union db[x].dprofiles \subseteq DOMAIN db
        BY <1>1, <2>1, <1>a, <1>b, <4>1 DEF NoDangling
      <4> QED
        BY <1>1, <2>1, <2>b, <3>1, <3>2, <3>3, <4>1, <4>2, <2>c, <1>b, <1>c DEF SameReferences, Unused
    <3> QED
      BY <2>b, <2>c, <3>1, <3>2, <3>3, <3>4 DEF SameReferences
  <2>2. CASE x \notin DOMAIN db
    <3>1. d[x].tenant \in DOMAIN db
      BY <1>1, <2>2 DEF Sound, RInv, LocksOK
    <3> QED
      BY <1>1, <2>2, <2>b, <2>c, <3>1 DEF Sound
  <2> QED
    BY <2>1, <2>2
<1>2. ASSUME NEW x \in DOMAIN d, TableOf[x] = "dprofile", x \notin tainted'
      PROVE  d[x].deployments \subseteq DOMAIN d
  <2>a. \A y \in d[x].deployments : TableOf[y] = "cell"
    BY <1>2, RowTypes DEF Sound, IsProfile
  <2>1. CASE x \in DOMAIN db
    <3>1. x \notin tainted /\ db[x].deployments \subseteq DOMAIN db
      BY <1>2, <2>1, <1>a, <1>b, Tainted DEF NoDangling
    <3>2. \A y \in d[x].deployments : y \in db[x].deployments \/ y \in DOMAIN d
      BY <1>2, <2>1, Tainted DEF Sound
    <3> QED
      BY <1>2, <2>1, <2>a, <3>1, <3>2, <1>b, <1>c DEF Unused
  <2>2. CASE x \notin DOMAIN db
    BY <1>2, <2>2 DEF Sound
  <2> QED
    BY <2>1, <2>2
<1>3. ASSUME NEW x \in DOMAIN d, TableOf[x] = "odef", x \notin tainted'
      PROVE  d[x].types \subseteq DOMAIN d \union tainted'
  <2>a. \A y \in d[x].types : TableOf[y] = "adef"
    BY <1>3, RowTypes DEF Sound, IsODef
  <2>1. CASE x \in DOMAIN db /\ d[x] = db[x]
    <3>1. d[x].types \subseteq DOMAIN db \union tainted
      BY <1>3, <2>1, <1>a, <1>b, Tainted DEF NoDangling
    <3>2. ASSUME NEW y \in d[x].types, y \in DOMAIN db, y \notin DOMAIN d
          PROVE  y \in tainted'
      <4>1. trx[q].stale
        BY <1>3, <2>1, <2>a, <3>2, <1>b DEF Sound, ActivityDefinitionReferences
      <4> QED
        BY <3>2, <4>1 DEF CommitTo
    <3>3. \A y \in tainted : y \notin DOMAIN db /\ y \notin DOMAIN d => y \in tainted'
      BY DEF CommitTo
    <3> QED
      BY <3>1, <3>2, <3>3
  <2>2. CASE ~(x \in DOMAIN db /\ d[x] = db[x])
    BY <1>3, <2>2, Tainted DEF Sound
  <2> QED
    BY <2>1, <2>2
<1> QED
  BY <1>a, <1>b, <1>1, <1>2, <1>3 DEF NoDangling

\* A commit keeps what earlier ones added.
LEMMA CommitKept ==
  ASSUME RInv, NEW q \in DOMAIN trx, NEW d, NEW t, NEW added, CommitTo(q, d, t, added), Sound(q, d),
         \A k \in added :
           /\ k = <<k[1], k[2]>> /\ k[1] \in DOMAIN d
           /\ \/ TableOf[k[1]] = "tenant" /\ k[2] \in d[k[1]].properties
              \/ TableOf[k[1]] = "dprofile" /\ k[2] \in d[k[1]].deployments
  PROVE  KeptOK'
<1>a. db' = d /\ KeptOK
  BY DEF CommitTo, RInv
<1>1. ASSUME NEW k \in kept', k \notin added
      PROVE  /\ k \in kept /\ k \notin Removed(q) /\ k[1] \in DOMAIN db => k[1] \in DOMAIN d
             /\ k[1] \in DOMAIN d /\ k[1] \in DOMAIN db => d[k[1]] = db[k[1]] \/ ~trx[q].stale
  BY <1>1 DEF CommitTo
<1>2. ASSUME NEW k \in kept', k \notin added
      PROVE  /\ k = <<k[1], k[2]>> /\ k[1] \in DOMAIN d
             /\ \/ TableOf[k[1]] = "tenant" /\ k[2] \in d[k[1]].properties
                \/ TableOf[k[1]] = "dprofile" /\ k[2] \in d[k[1]].deployments
  <2>1. k \in kept /\ k \notin Removed(q)
    BY <1>2 DEF CommitTo
  <2>2. k = <<k[1], k[2]>> /\ k[1] \in DOMAIN db
    BY <2>1, <1>a DEF KeptOK
  <2>3. k[1] \in DOMAIN d /\ (d[k[1]] = db[k[1]] \/ ~trx[q].stale)
    BY <1>1, <1>2, <2>1, <2>2
  <2>4. CASE d[k[1]] = db[k[1]]
    BY <1>a, <2>1, <2>2, <2>3, <2>4 DEF KeptOK
  <2>5. CASE d[k[1]] # db[k[1]] /\ TableOf[k[1]] = "tenant"
    <3>1. k[2] \in db[k[1]].properties
      BY <1>a, <2>1, <2>5 DEF KeptOK
    <3>2. k[2] \in d[k[1]].properties \/ <<k[1], k[2]>> \in Removed(q)
      BY <2>2, <2>3, <2>5, <3>1 DEF Sound
    <3> QED
      BY <2>1, <2>2, <2>3, <2>5, <3>2
  <2>6. CASE d[k[1]] # db[k[1]] /\ TableOf[k[1]] = "dprofile"
    BY <1>a, <2>1, <2>2, <2>3, <2>6 DEF KeptOK, Sound
  <2> QED
    BY <1>a, <2>1, <2>4, <2>5, <2>6 DEF KeptOK
<1> QED
  BY <1>a, <1>2 DEF KeptOK

\* A commit keeps the invariant.
LEMMA CommitKeeps ==
  ASSUME RInv, NEW q \in DOMAIN trx, NEW d, NEW t, NEW added, CommitTo(q, d, t, added), Sound(q, d),
         IsTrx(t), t.share = {}, t.excl = {}, t.pc \in Ends \union {"begin", "send"},
         Creates(req[q]) => t.pc # "begin",
         req[q].op = "dispose" /\ t.pc = "send" /\ req[q].id \in DOMAIN d /\ d[req[q].id].pending = q
           => d[req[q].id].state = "disposing",
         \A k \in added :
           /\ k = <<k[1], k[2]>> /\ k[1] \in DOMAIN d
           /\ \/ TableOf[k[1]] = "tenant" /\ k[2] \in d[k[1]].properties
              \/ TableOf[k[1]] = "dprofile" /\ k[2] \in d[k[1]].deployments
  PROVE  RInv'
<1>a. db' = d /\ req' = req /\ DOMAIN trx' = DOMAIN trx /\ trx'[q] = t
  BY DEF CommitTo
<1>1. RequestsOK' /\ RowsOK'
  <2>1. \A r \in DOMAIN d : TableOf[r] = "odef" => r \in ODefs
    BY DEF RInv, RowsOK, Sound
  <2> QED
    BY <1>a, <2>1 DEF RInv, RequestsOK, RowsOK, Sound
<1>2. LocksOK'
  <2>1. \A p \in DOMAIN trx \ {q} :
          /\ IsTrx(trx'[p]) /\ trx'[p].share = trx[p].share /\ trx'[p].excl = trx[p].excl
          /\ trx[p].share \union trx[p].excl \subseteq DOMAIN d
    BY Others, LockedStays
  <2> QED
    BY <1>a, <2>1 DEF RInv, LocksOK
<1>3. Fresh'
  <2>1. \A p \in DOMAIN trx \ {q} : trx'[p].pc = trx[p].pc
    BY Others
  <2>2. ASSUME NEW p \in DOMAIN trx \ {q}, Creates(req[p]), req[p].id \in DOMAIN d \ DOMAIN db
        PROVE  FALSE
    <3>1. TableOf[req[p].id] \notin {"adef", "odef"}
      BY <2>2, RequestFacts DEF RInv, IsRequest, Creates
    <3> QED
      BY <2>2, <3>1, RequestFacts DEF RInv, Sound
  <2>3. Creates(req[q]) => t.pc \notin Early
    BY DEF Ends, Early
  <2>4. t.pc # "write"
    BY DEF Ends
  <2> QED
    BY <1>a, <2>1, <2>2, <2>3, <2>4 DEF RInv, Fresh, Creates
<1>4. NoDangling' /\ KeptOK'
  BY CommitNoDangling, CommitKept
<1>5. ASSUME NEW p \in DOMAIN trx
      PROVE  TrxOK(p, trx[p])'
  <2>1. CASE p = q
    <3>1. DeployOK(q, trx[q])' /\ PatchOK(q, trx[q])' /\ DeployProfileOK(q, trx[q])' /\ DeleteOK(q, trx[q])'
            /\ DefinitionOK(q, trx[q])'
      BY <1>a DEF Ends, DeployOK, PatchOK, DeployProfileOK, DeleteOK, DefinitionOK
    <3>2. DisposeOK(q, trx[q])'
      BY <1>a DEF Ends, DisposeOK
    <3> QED
      BY <2>1, <3>1, <3>2 DEF TrxOK
  <2>2. CASE p # q
    BY <2>2, OthersKeep
  <2> QED
    BY <2>1, <2>2
<1> QED
  BY <1>1, <1>2, <1>3, <1>4, <1>5, <1>a DEF RInv

\* What a transaction goes on as after a commit.
IsNext(q, t) ==
  /\ IsTrx(t) /\ t.share = {} /\ t.excl = {}
  /\ t.pc \in Ends \union {"begin", "send"}
  /\ Creates(req[q]) => t.pc # "begin"

\* An INSERT keeps the invariant.
LEMMA CreateKeeps ==
  ASSUME RInv, NEW q \in DOMAIN trx, NEW r, NEW value, NEW t, Create(q, r, value, t),
         IsNext(q, t), req[q].op # "dispose", IsRow(value, TableOf[r]),
         \/ TableOf[r] \in {"adef", "odef"}
         \/ Creates(req[q]) /\ trx[q].pc \in Early /\ r = req[q].id,
         TableOf[r] = "participant" =>
           /\ {value.tenant, value.cell} \union value.dprofiles \subseteq trx[q].share
           /\ value.owner = db[value.tenant].owner /\ value.pending = q,
         TableOf[r] = "dprofile" => value.deployments = {},
         TableOf[r] = "odef" => r \in ODefs /\ (~trx[q].stale => value.types \subseteq DOMAIN db)
  PROVE  RInv'
<1>1. CASE r \in DOMAIN db
  BY <1>1, RollbackKeeps DEF Create, Ends
<1>2. CASE r \notin DOMAIN db
  <2> DEFINE d == [x \in DOMAIN db \union {r} |-> IF x = r THEN value ELSE db[x]]
  <2>1. CommitTo(q, d, t, {})
    BY <1>2 DEF Create
  <2>2. /\ DOMAIN d = DOMAIN db \union {r} /\ d[r] = value
        /\ \A x \in DOMAIN db : d[x] = db[x]
    BY <1>2
  <2>3. IsFiniteSet(DOMAIN d)
    BY <2>2, FS_AddElement DEF RInv, RowsOK
  <2>4. trx[q].share \subseteq DOMAIN db
    BY DEF RInv, LocksOK
  <2> HIDE DEF d
  <2>5. Sound(q, d)
    BY <1>2, <2>2, <2>3, <2>4 DEF RInv, RowsOK, Sound
  <2> QED
    BY <2>1, <2>5, CommitKeeps DEF IsNext
<1> QED
  BY <1>1, <1>2

\* An UPDATE keeps the invariant.
LEMMA UpdateKeeps ==
  ASSUME RInv, NEW q \in DOMAIN trx, NEW r, NEW value, NEW t, NEW added, Update(q, r, value, t, added),
         IsNext(q, t), IsRow(value, TableOf[r]),
         req[q].op = "dispose" /\ t.pc = "send" => value.state = "disposing" /\ r = req[q].id,
         r \in DOMAIN db /\ TableOf[r] = "tenant" =>
           /\ value.owner = db[r].owner
           /\ trx[q].stale
                \/ \A x \in db[r].properties : x \in value.properties \/ <<r, x>> \in Removed(q),
         r \in DOMAIN db /\ TableOf[r] = "participant" =>
           /\ SameReferences(value, db[r])
           /\ value.pending \in {0, q}
           /\ trx[q].stale \/ db[r].state # "disposed",
         r \in DOMAIN db /\ TableOf[r] = "dprofile" /\ ~trx[q].stale =>
           /\ db[r].deployments \subseteq value.deployments
           /\ value.deployments \subseteq db[r].deployments \union trx[q].share,
         r \in DOMAIN db /\ TableOf[r] = "odef" /\ ~trx[q].stale => value.types \subseteq DOMAIN db,
         \A k \in added :
           /\ k = <<k[1], k[2]>> /\ k[1] = r
           /\ \/ TableOf[r] = "tenant" /\ k[2] \in value.properties
              \/ TableOf[r] = "dprofile" /\ k[2] \in value.deployments
  PROVE  RInv'
<1>1. CASE r \notin DOMAIN db
  BY <1>1, RollbackKeeps DEF Update, Ends
<1>2. CASE r \in DOMAIN db
  <2> DEFINE d == [db EXCEPT ![r] = value]
  <2>1. CommitTo(q, d, t, added) /\ CanExclude(q, r)
    BY <1>2 DEF Update
  <2>2. /\ DOMAIN d = DOMAIN db /\ d[r] = value
        /\ \A x \in DOMAIN db \ {r} : d[x] = db[x]
    BY <1>2
  <2>3. trx[q].share \subseteq DOMAIN db
    BY DEF RInv, LocksOK
  <2> HIDE DEF d
  <2>4. Sound(q, d)
    BY <1>2, <2>1, <2>2, <2>3 DEF RInv, RowsOK, Sound
  <2> QED
    BY <1>2, <2>1, <2>2, <2>4, CommitKeeps DEF IsNext
<1> QED
  BY <1>1, <1>2

\* A DELETE keeps the invariant.
LEMMA DeleteKeeps ==
  ASSUME RInv, NEW q \in DOMAIN trx, NEW rows, NEW how \in Ends, NEW error \in Ends,
         Delete(q, rows, how, error),
         \A r \in rows : /\ Unused(r)
                         /\ TableOf[r] = "adef" => trx[q].stale \/ ActivityDefinitionReferences(r) = {}
  PROVE  RInv'
<1>1. CASE ~(rows \subseteq DOMAIN db)
  BY <1>1, RollbackKeeps DEF Delete
<1>2. CASE rows \subseteq DOMAIN db
  <2> DEFINE d == [x \in DOMAIN db \ rows |-> db[x]]
  <2>1. CommitTo(q, d, Over(how), {}) /\ \A r \in rows : CanExclude(q, r)
    BY <1>2 DEF Delete
  <2>2. DOMAIN d = DOMAIN db \ rows /\ \A x \in DOMAIN d : d[x] = db[x]
    OBVIOUS
  <2>3. IsFiniteSet(DOMAIN d)
    BY <2>2, FS_Subset DEF RInv, RowsOK
  <2> HIDE DEF d
  <2>4. Sound(q, d)
    BY <1>2, <2>1, <2>2, <2>3 DEF RInv, RowsOK, Sound
  <2> QED
    BY <2>1, <2>4, CommitKeeps, OverIs DEF Ends
<1> QED
  BY <1>1, <1>2

-----------------------------------------------------------------------------
\* Locks.

\* Sequences of a finite set hold all of it.
LEMMA SequenceOfSet ==
  ASSUME NEW S, IsFiniteSet(S), NEW s \in SetToSeqs(S)
  PROVE  s \in Seq(S) /\ Range(s) = S
<1> DEFINE n == Cardinality(S)
<1>1. n \in Nat /\ s \in [1..n -> S] /\ \A i, j \in 1..n : i # j => s[i] # s[j]
  BY FS_CardinalityType DEF SetToSeqs
<1>2. s \in Injection(1..n, S)
  BY <1>1 DEF Injection, IsInjective
<1>3. IsFiniteSet(1..n) /\ Cardinality(1..n) = n
  BY <1>1, FS_Interval
<1>4. s \in Surjection(1..n, S)
  BY <1>2, <1>3, FS_Injection
<1> QED
  BY <1>1, <1>4 DEF Surjection, Range

\* A sequence is one of its elements.
LEMMA SequenceOfRange ==
  ASSUME NEW S, NEW s \in Seq(S)
  PROVE  s \in Seq(Range(s))
<1>1. Len(s) \in Nat /\ s \in [1..Len(s) -> Range(s)]
  BY DEF Range
<1> QED
  BY <1>1

\* A sequence's elements are its head and those of its tail.
LEMMA RangeOfTail ==
  ASSUME NEW S, NEW s \in Seq(S), s # <<>>
  PROVE  /\ Tail(s) \in Seq(Range(Tail(s)))
         /\ Range(s) \subseteq {Head(s)} \union Range(Tail(s))
<1>1. Tail(s) \in Seq(S) /\ Len(s) \in Nat \ {0} /\ Len(Tail(s)) = Len(s) - 1
        /\ DOMAIN s = 1..Len(s) /\ DOMAIN Tail(s) = 1..Len(Tail(s))
        /\ \A i \in 1..Len(Tail(s)) : Tail(s)[i] = s[i + 1]
  OBVIOUS
<1>2. ASSUME NEW i \in 1..Len(s)
      PROVE  s[i] \in {Head(s)} \union Range(Tail(s))
  <2>1. CASE i = 1
    BY <2>1
  <2>2. CASE i # 1
    <3>1. i - 1 \in 1..Len(Tail(s)) /\ Tail(s)[i - 1] = s[i]
      BY <1>1, <2>2
    <3> QED
      BY <1>1, <3>1 DEF Range
  <2> QED
    BY <2>1, <2>2
<1>3. Range(s) \subseteq {Head(s)} \union Range(Tail(s))
  BY <1>1, <1>2 DEF Range
<1> QED
  BY <1>1, <1>3, SequenceOfRange

\* A transaction goes on with one more lock.
LEMMA ShareKeeps ==
  ASSUME RInv, NEW q \in DOMAIN trx, NEW r, NEW ok, NEW t, NEW error \in Ends,
         FindAndShare(q, r, ok, t, error),
         IsTrx(t), t.share = trx[q].share, t.excl = trx[q].excl,
         req[q].op \notin {"dispose", "patchTenant"},
         Creates(req[q]) => trx[q].pc \in Early,
         ok /\ r \in DOMAIN db => TrxOK(q, [t EXCEPT !.share = @ \union {r}])
  PROVE  RInv'
<1>1. CASE ~(r \in DOMAIN db /\ ok)
  BY <1>1, RollbackKeeps DEF FindAndShare
<1>2. CASE r \in DOMAIN db /\ ok
  <2> DEFINE u == [t EXCEPT !.share = @ \union {r}]
  <2>1. IsTrx(u) /\ u.pc = t.pc /\ u.share = t.share \union {r} /\ u.excl = t.excl
    BY DEF IsTrx
  <2>2. Continue(q, u) /\ CanShare(q, r) /\ TrxOK(q, u)
    BY <1>2 DEF FindAndShare
  <2>3. trx[q].share \union trx[q].excl \subseteq DOMAIN db
    BY DEF RInv, LocksOK
  <2> HIDE DEF u
  <2> QED
    BY <1>2, <2>1, <2>2, <2>3, ContinueKeeps
<1> QED
  BY <1>1, <1>2

-----------------------------------------------------------------------------
\* The steps of each request.

\* A transaction that waits for nothing that TrxOK speaks of.
LEMMA Elsewhere ==
  ASSUME NEW q, NEW t, t.pc \notin {"begin", "write", "check", "delete", "update", "insert", "lookUp", "deleteNext", "cell"}
  PROVE  /\ req[q].op = "deployParticipant" => (TrxOK(q, t) <=> DeployOK(q, t))
         /\ req[q].op # "deployParticipant" /\ t.pc # "send" => TrxOK(q, t)
  BY DEF TrxOK, DeployOK, DisposeOK, PatchOK, DeployProfileOK, DeleteOK, DefinitionOK

\* LockTenant.
LEMMA LockTenantKeeps ==
  ASSUME RInv, NEW q \in DOMAIN trx, LockTenant(q)
  PROVE  RInv'
<1> DEFINE r == req[q].tenant
           t == [trx[q] EXCEPT !.pc = "cells"]
           u == [t EXCEPT !.share = @ \union {r}]
<1>1. IsTrx(t) /\ t.pc = "cells" /\ t.share = trx[q].share /\ t.excl = trx[q].excl
  BY DEF RInv, LocksOK, IsTrx
<1>2. FindAndShare(q, r, Accessible(q, r), t, "notFound") /\ trx[q].pc = "begin"
        /\ req[q].op = "deployParticipant"
  BY DEF LockTenant, At
<1> HIDE DEF t
<1>3. u.pc = "cells" /\ r \in u.share
  BY <1>1 DEF IsTrx
<1> HIDE DEF u
<1>4. TrxOK(q, u)
  BY <1>2, <1>3, Elsewhere DEF DeployOK
<1> QED
  BY <1>1, <1>2, <1>4, ShareKeeps DEF Ends, Early, u

\* ReadCells.
LEMMA ReadCellsKeeps ==
  ASSUME RInv, NEW q \in DOMAIN trx, ReadCells(q)
  PROVE  RInv'
<1> DEFINE cells == [x \in Rows("cell") |-> db[x]]
           u == [trx[q] EXCEPT !.pc = "profiles", !.value = cells]
<1>1. Continue(q, u) /\ trx[q].pc = "cells" /\ req[q].op = "deployParticipant"
  BY DEF ReadCells, At
<1>2. \A c \in DOMAIN cells : TableOf[c] = "cell"
  BY RowsByTable DEF RInv
<1> HIDE DEF cells
<1>3. IsTrx(u) /\ u.pc = "profiles" /\ u.share = trx[q].share /\ u.excl = trx[q].excl /\ u.value = cells
  BY DEF RInv, LocksOK, IsTrx
<1> HIDE DEF u
<1>4. TrxOK(q, trx[q]) /\ trx[q].share \union trx[q].excl \subseteq DOMAIN db
  BY DEF RInv, LocksOK
<1>5. TrxOK(q, u)
  BY <1>1, <1>2, <1>3, <1>4, Elsewhere DEF DeployOK
<1> QED
  BY <1>1, <1>3, <1>4, <1>5, ContinueKeeps DEF Early

\* ReadProfiles.
LEMMA ReadProfilesKeeps ==
  ASSUME RInv, NEW q \in DOMAIN trx, ReadProfiles(q)
  PROVE  RInv'
<1> DEFINE profiles == getFilteredProfiles(req[q].wanted)
<1>a. trx[q].pc = "profiles" /\ req[q].op = "deployParticipant"
  BY DEF ReadProfiles, At
<1>b. TrxOK(q, trx[q]) /\ trx[q].share \union trx[q].excl \subseteq DOMAIN db /\ IsTrx(trx[q])
  BY DEF RInv, LocksOK
<1>c. IsFiniteSet(profiles) /\ \A d \in profiles : TableOf[d] = "dprofile"
  <2>1. profiles \subseteq DOMAIN db /\ IsFiniteSet(DOMAIN db)
    BY DEF getFilteredProfiles, Rows, RInv, RowsOK
  <2> QED
    BY <2>1, RowsByTable, FS_Subset DEF getFilteredProfiles, RInv
<1>1. CASE Rollback(q, "internal")
  BY <1>1, RollbackKeeps DEF Ends
<1>2. ASSUME NEW c \in defaultCellSelector(trx[q].value, profiles), NEW ds \in SetToSeqs(profiles),
             Continue(q, [trx[q] EXCEPT !.pc = "references", !.lock = <<c>> \o ds,
                                        !.value = Generate(q, c, profiles)])
      PROVE  RInv'
  <2> DEFINE row == Generate(q, c, profiles)
             lock == <<c>> \o ds
             u == [trx[q] EXCEPT !.pc = "references", !.lock = lock, !.value = row]
  <2>1. TableOf[c] = "cell" /\ TableOf[req[q].tenant] = "tenant" /\ req[q].tenant \in trx[q].share
    BY <1>a, <1>b, Elsewhere, RequestFacts DEF defaultCellSelector, DeployOK, RInv, IsRequest
  <2>2. /\ IsParticipant(row) /\ row.tenant = req[q].tenant /\ row.owner = db[req[q].tenant].owner
        /\ row.state = "pending" /\ row.pending = q /\ row.cell = c /\ row.dprofiles = profiles
    BY <1>c, <2>1 DEF Generate, IsParticipant
  <2>3. lock \in Seq(Range(lock)) /\ {c} \union profiles \subseteq Range(lock)
    <3>1. ds \in Seq(profiles) /\ Range(ds) = profiles
      BY <1>c, SequenceOfSet
    <3>2. lock \in Seq({c} \union profiles) /\ Len(lock) = Len(ds) + 1 /\ lock[1] = c
            /\ \A i \in 1..Len(ds) : lock[i + 1] = ds[i]
      BY <3>1
    <3>3. ASSUME NEW d \in profiles
          PROVE  d \in Range(lock)
      <4>1. PICK i \in 1..Len(ds) : ds[i] = d
        BY <3>1 DEF Range
      <4>2. i + 1 \in DOMAIN lock /\ lock[i + 1] = d
        BY <3>1, <3>2, <4>1
      <4> QED
        BY <4>2 DEF Range
    <3>4. c \in Range(lock)
      BY <3>1, <3>2 DEF Range
    <3> QED
      BY <3>2, <3>3, <3>4, SequenceOfRange
  <2> HIDE DEF row, lock
  <2>4. IsTrx(u) /\ u.pc = "references" /\ u.share = trx[q].share /\ u.excl = trx[q].excl /\ u.value = row
          /\ u.lock = lock
    BY <1>b DEF IsTrx
  <2>5. Continue(q, u)
    BY <1>2 DEF row, lock
  <2> HIDE DEF u
  <2>6. TrxOK(q, u)
    BY <1>a, <2>1, <2>2, <2>3, <2>4, Elsewhere DEF DeployOK
  <2> QED
    BY <1>a, <1>b, <2>4, <2>5, <2>6, ContinueKeeps DEF Early
<1> QED
  BY <1>1, <1>2 DEF ReadProfiles

\* lockReferences.
LEMMA LockReferencesKeeps ==
  ASSUME RInv, NEW q \in DOMAIN trx, lockReferences(q)
  PROVE  RInv'
<1> DEFINE r == Head(trx[q].lock)
           t == [trx[q] EXCEPT !.lock = Tail(@)]
           u == [t EXCEPT !.share = @ \union {r}]
<1>1. trx[q].pc = "references" /\ req[q].op = "deployParticipant" /\ trx[q].lock # <<>>
        /\ FindAndShare(q, r, TRUE, t, "client")
  BY DEF lockReferences, At
<1>2. IsTrx(t) /\ t.pc = "references" /\ t.share = trx[q].share /\ t.excl = trx[q].excl
        /\ t.value = trx[q].value /\ t.lock = Tail(trx[q].lock)
  BY <1>1 DEF RInv, LocksOK, IsTrx
<1> HIDE DEF t
<1>3. u.pc = "references" /\ u.share = trx[q].share \union {r} /\ u.value = trx[q].value
        /\ u.lock = Tail(trx[q].lock)
  BY <1>2 DEF IsTrx
<1> HIDE DEF u
<1>4. DeployOK(q, trx[q])
  BY DEF RInv, TrxOK
<1>5. trx[q].lock \in Seq(Range(trx[q].lock))
  BY <1>1, <1>4 DEF DeployOK
<1>6. Tail(trx[q].lock) \in Seq(Range(Tail(trx[q].lock)))
        /\ Range(trx[q].lock) \subseteq {r} \union Range(Tail(trx[q].lock))
  BY <1>1, <1>5, RangeOfTail
<1>7. TrxOK(q, u)
  BY <1>1, <1>3, <1>4, <1>6, Elsewhere DEF DeployOK
<1> QED
  BY <1>1, <1>2, <1>7, ShareKeeps DEF Ends, Early, u

\* A request that is over goes on as nothing.
LEMMA OverIsNext ==
  ASSUME NEW q, NEW how \in Ends \union {"send"}
  PROVE  IsNext(q, Over(how)) /\ Over(how).pc = how
  BY OverIs DEF IsNext, Ends

\* StoreParticipant.
LEMMA StoreParticipantKeeps ==
  ASSUME RInv, NEW q \in DOMAIN trx, StoreParticipant(q)
  PROVE  RInv'
<1>1. trx[q].pc = "references" /\ req[q].op = "deployParticipant" /\ trx[q].lock = <<>>
        /\ Create(q, req[q].id, trx[q].value, Over("send"))
  BY DEF StoreParticipant, At
<1>2. DeployOK(q, trx[q]) /\ Range(trx[q].lock) = {}
  BY <1>1 DEF RInv, TrxOK, Range
<1>3. TableOf[req[q].id] = "participant"
  BY <1>1, RequestFacts DEF RInv, IsRequest
<1>4. IsRow(trx[q].value, TableOf[req[q].id])
  BY <1>1, <1>2, <1>3, RowTypes DEF DeployOK
<1> QED
  BY <1>1, <1>2, <1>3, <1>4, OverIsNext, CreateKeeps DEF DeployOK, Creates, Early

\* Send.
LEMMA SendKeeps ==
  ASSUME RInv, NEW q \in DOMAIN trx, Send(q)
  PROVE  RInv'
<1>1. req[q].op = "deployParticipant" /\ TableOf[req[q].id] = "participant"
  BY RequestFacts DEF Send, At, RInv, IsRequest
<1>2. CASE Continue(q, Over("done"))
  <2>1. Rollback(q, "done")
    BY <1>2 DEF Continue, Rollback
  <2> QED
    BY <2>1, RollbackKeeps DEF Ends
<1>3. CASE Delete(q, {req[q].id}, "internal", "internal")
  BY <1>1, <1>3, DeleteKeeps DEF Ends, Unused
<1> QED
  BY <1>2, <1>3 DEF Send

\* ReadParticipant.
LEMMA ReadParticipantKeeps ==
  ASSUME RInv, NEW q \in DOMAIN trx, ReadParticipant(q)
  PROVE  RInv'
<1> DEFINE p == req[q].id
           row == [db[p] EXCEPT !.state = "disposing", !.pending = q]
           u == [trx[q] EXCEPT !.pc = "write", !.read = {p}, !.value = row]
<1>1. CASE \E error \in Ends : Rollback(q, error)
  BY <1>1, RollbackKeeps
<1>2. CASE Continue(q, u) /\ p \in DOMAIN db /\ db[p].state = "active"
  <2>1. req[q].op = "dispose" /\ trx[q].pc = "begin" /\ TableOf[p] = "participant"
    BY RequestFacts DEF ReadParticipant, At, RInv, IsRequest
  <2>2. IsParticipant(db[p])
    BY <1>2, <2>1, RowTypes DEF RInv, RowsOK
  <2>3. IsParticipant(row) /\ row.state = "disposing" /\ row.pending = q /\ SameReferences(row, db[p])
    BY <2>2 DEF IsParticipant, SameReferences
  <2> HIDE DEF row
  <2>4. IsTrx(u) /\ u.pc = "write" /\ u.share = trx[q].share /\ u.excl = trx[q].excl /\ u.value = row
          /\ u.read = {p}
    BY DEF RInv, LocksOK, IsTrx
  <2>5. Continue(q, u)
    BY <1>2
  <2> HIDE DEF u
  <2>6. TrxOK(q, u)
    BY <1>2, <2>1, <2>3, <2>4
       DEF TrxOK, DeployOK, DisposeOK, PatchOK, DeployProfileOK, DeleteOK, DefinitionOK
  <2>7. trx[q].share \union trx[q].excl \subseteq DOMAIN db
    BY DEF RInv, LocksOK
  <2> QED
    BY <1>2, <2>1, <2>4, <2>5, <2>6, <2>7, ContinueKeeps DEF Creates
<1> QED
  BY <1>1, <1>2 DEF ReadParticipant, Accessible, Ends

\* WriteParticipant.
LEMMA WriteParticipantKeeps ==
  ASSUME RInv, NEW q \in DOMAIN trx, WriteParticipant(q)
  PROVE  RInv'
<1>1. req[q].op = "dispose" /\ TableOf[req[q].id] = "participant" /\ trx[q].pc = "write"
        /\ Update(q, req[q].id, trx[q].value, Over("send"), {})
  BY RequestFacts DEF WriteParticipant, At, RInv, IsRequest
<1>2. DisposeOK(q, trx[q])
  BY DEF RInv, TrxOK
<1>3. IsRow(trx[q].value, TableOf[req[q].id])
  BY <1>1, <1>2, RowTypes DEF DisposeOK
<1> QED
  BY <1>1, <1>2, <1>3, OverIsNext, UpdateKeeps DEF DisposeOK

\* revertDispose.
LEMMA RevertDisposeKeeps ==
  ASSUME RInv, NEW q \in DOMAIN trx, revertDispose(q)
  PROVE  RInv'
<1> DEFINE p == req[q].id
           row == [db[p] EXCEPT !.state = "active", !.pending = 0]
<1>1. req[q].op = "dispose" /\ TableOf[p] = "participant" /\ trx[q].pc = "send"
  BY RequestFacts DEF revertDispose, At, RInv, IsRequest
<1>2. CASE Continue(q, Over("done")) \/ Rollback(q, "internal")
  <2>1. Rollback(q, "done") \/ Rollback(q, "internal")
    BY <1>2 DEF Continue, Rollback
  <2> QED
    BY <2>1, RollbackKeeps DEF Ends
<1>3. CASE p \in DOMAIN db /\ db[p].pending = q /\ Update(q, p, row, Over("internal"), {})
  <2>1. IsParticipant(db[p]) /\ db[p].state = "disposing"
    BY <1>1, <1>3, RowTypes DEF RInv, RowsOK, TrxOK, DisposeOK
  <2>2. IsParticipant(row) /\ SameReferences(row, db[p]) /\ row.pending = 0
    BY <2>1 DEF IsParticipant, SameReferences
  <2> HIDE DEF row
  <2>3. IsRow(row, TableOf[p])
    BY <1>1, <2>2, RowTypes
  <2> QED
    BY <1>1, <1>3, <2>1, <2>2, <2>3, OverIsNext, UpdateKeeps DEF Ends
<1> QED
  BY <1>2, <1>3 DEF revertDispose

\* CreateTenant, RecordExternalDeployment and CreateProfile.
LEMMA CreationsKeep ==
  ASSUME RInv, NEW q \in DOMAIN trx,
         CreateTenant(q) \/ RecordExternalDeployment(q) \/ CreateProfile(q)
  PROVE  RInv'
<1> DEFINE tenant == [kind |-> "tenant", owner |-> req[q].by.subject, properties |-> {}]
           cell == [kind |-> "cell", active |-> req[q].active]
           profile == [kind |-> "dprofile", deployments |-> {}]
<1>a. IsRequest(req[q])
  BY RequestFacts DEF RInv
<1>b. IsRow(tenant, "tenant") /\ IsRow(cell, "cell") /\ IsRow(profile, "dprofile") /\ profile.deployments = {}
  BY RowTypes DEF IsTenant, IsProfile
<1>1. CASE CreateTenant(q)
  <2>1. req[q].op = "createTenant" /\ trx[q].pc = "begin" /\ Create(q, req[q].id, tenant, Over("done"))
    BY <1>1 DEF CreateTenant, At
  <2> HIDE DEF tenant
  <2> QED
    BY <1>a, <1>b, <2>1, OverIsNext, CreateKeeps DEF IsRequest, Creates, Early, Ends
<1>2. CASE RecordExternalDeployment(q)
  <2>1. CASE Rollback(q, "internal")
    BY <2>1, RollbackKeeps DEF Ends
  <2>2. CASE Create(q, req[q].id, cell, Over("done"))
    <3>1. req[q].op = "createCell" /\ trx[q].pc = "begin"
      BY <1>2 DEF RecordExternalDeployment, At
    <3> HIDE DEF cell
    <3> QED
      BY <1>a, <1>b, <2>2, <3>1, OverIsNext, CreateKeeps DEF IsRequest, Creates, Early, Ends
  <2> QED
    BY <1>2, <2>1, <2>2 DEF RecordExternalDeployment
<1>3. CASE CreateProfile(q)
  <2>1. req[q].op = "createProfile" /\ trx[q].pc = "begin" /\ Create(q, req[q].id, profile, Over("done"))
    BY <1>3 DEF CreateProfile, At
  <2> HIDE DEF profile
  <2> QED
    BY <1>a, <1>b, <2>1, OverIsNext, CreateKeeps DEF IsRequest, Creates, Early, Ends
<1> QED
  BY <1>1, <1>2, <1>3

\* ReadTenant.
LEMMA ReadTenantKeeps ==
  ASSUME RInv, NEW q \in DOMAIN trx, ReadTenant(q)
  PROVE  RInv'
<1> DEFINE p == req[q].id
           row == [db[p] EXCEPT !.properties = (@ \union req[q].add) \ req[q].remove]
           u == [trx[q] EXCEPT !.pc = "write", !.read = {p}, !.value = row]
<1>1. CASE Rollback(q, "notFound")
  BY <1>1, RollbackKeeps DEF Ends
<1>2. CASE Continue(q, u) /\ p \in DOMAIN db
  <2>1. req[q].op = "patchTenant" /\ trx[q].pc = "begin" /\ TableOf[p] = "tenant"
    BY RequestFacts DEF ReadTenant, At, RInv, IsRequest
  <2>2. IsTenant(db[p])
    BY <1>2, <2>1, RowTypes DEF RInv, RowsOK
  <2>3. IsTenant(row) /\ row.owner = db[p].owner
          /\ row.properties = (db[p].properties \union req[q].add) \ req[q].remove
    BY <2>2 DEF IsTenant
  <2> HIDE DEF row
  <2>4. IsTrx(u) /\ u.pc = "write" /\ u.share = trx[q].share /\ u.excl = trx[q].excl /\ u.value = row
          /\ u.read = {p}
    BY DEF RInv, LocksOK, IsTrx
  <2>5. Continue(q, u)
    BY <1>2
  <2> HIDE DEF u
  <2>6. TrxOK(q, u)
    BY <1>2, <2>1, <2>3, <2>4
       DEF TrxOK, DeployOK, DisposeOK, PatchOK, DeployProfileOK, DeleteOK, DefinitionOK
  <2>7. trx[q].share \union trx[q].excl \subseteq DOMAIN db
    BY DEF RInv, LocksOK
  <2> QED
    BY <1>2, <2>1, <2>4, <2>5, <2>6, <2>7, ContinueKeeps DEF Creates
<1> QED
  BY <1>1, <1>2 DEF ReadTenant, Accessible

\* PatchTenant.
LEMMA PatchTenantKeeps ==
  ASSUME RInv, NEW q \in DOMAIN trx, PatchTenant(q)
  PROVE  RInv'
<1> DEFINE added == {req[q].id} \X (req[q].add \ req[q].remove)
<1>1. req[q].op = "patchTenant" /\ TableOf[req[q].id] = "tenant" /\ trx[q].pc = "write"
        /\ Update(q, req[q].id, trx[q].value, Over("done"), added)
  BY RequestFacts DEF PatchTenant, At, RInv, IsRequest
<1>2. PatchOK(q, trx[q])
  BY DEF RInv, TrxOK
<1>3. IsRow(trx[q].value, TableOf[req[q].id])
  BY <1>1, <1>2, RowTypes DEF PatchOK
<1>4. \A k \in added : k = <<k[1], k[2]>> /\ k[1] = req[q].id /\ k[2] \in trx[q].value.properties
  BY <1>1, <1>2 DEF PatchOK
<1> HIDE DEF added
<1>5. req[q].id \in DOMAIN db =>
        /\ trx[q].value.owner = db[req[q].id].owner
        /\ trx[q].stale \/ \A x \in db[req[q].id].properties :
             x \in trx[q].value.properties \/ <<req[q].id, x>> \in Removed(q)
  BY <1>1, <1>2 DEF PatchOK, Removed
<1> QED
  BY <1>1, <1>3, <1>4, <1>5, OverIsNext, UpdateKeeps DEF Ends

\* ReadProfile.
LEMMA ReadProfileKeeps ==
  ASSUME RInv, NEW q \in DOMAIN trx, ReadProfile(q)
  PROVE  RInv'
<1> DEFINE p == req[q].id
           row == [db[p] EXCEPT !.deployments = @ \union {req[q].cell}]
           u == [trx[q] EXCEPT !.pc = "cell", !.read = {p}, !.value = row]
<1>1. CASE Rollback(q, "notFound")
  BY <1>1, RollbackKeeps DEF Ends
<1>2. CASE Continue(q, u) /\ p \in DOMAIN db
  <2>1. req[q].op = "deployProfile" /\ trx[q].pc = "begin" /\ TableOf[p] = "dprofile"
          /\ TableOf[req[q].cell] = "cell"
    BY RequestFacts DEF ReadProfile, At, RInv, IsRequest
  <2>2. IsProfile(db[p])
    BY <1>2, <2>1, RowTypes DEF RInv, RowsOK
  <2>3. IsProfile(row) /\ row.deployments = db[p].deployments \union {req[q].cell}
    BY <2>1, <2>2 DEF IsProfile
  <2> HIDE DEF row
  <2>4. IsTrx(u) /\ u.pc = "cell" /\ u.share = trx[q].share /\ u.excl = trx[q].excl /\ u.value = row
          /\ u.read = {p}
    BY DEF RInv, LocksOK, IsTrx
  <2>5. Continue(q, u)
    BY <1>2
  <2> HIDE DEF u
  <2>6. TrxOK(q, u)
    BY <1>2, <2>1, <2>3, <2>4
       DEF TrxOK, DeployOK, DisposeOK, PatchOK, DeployProfileOK, DeleteOK, DefinitionOK
  <2>7. trx[q].share \union trx[q].excl \subseteq DOMAIN db
    BY DEF RInv, LocksOK
  <2> QED
    BY <1>2, <2>1, <2>4, <2>5, <2>6, <2>7, ContinueKeeps DEF Creates
<1> QED
  BY <1>1, <1>2 DEF ReadProfile

\* LockCell.
LEMMA LockCellKeeps ==
  ASSUME RInv, NEW q \in DOMAIN trx, LockCell(q)
  PROVE  RInv'
<1> DEFINE r == req[q].cell
           t == [trx[q] EXCEPT !.pc = "write"]
           u == [t EXCEPT !.share = @ \union {r}]
<1>1. req[q].op = "deployProfile" /\ trx[q].pc = "cell" /\ FindAndShare(q, r, TRUE, t, "notFound")
  BY DEF LockCell, At
<1>2. IsTrx(t) /\ t.pc = "write" /\ t.share = trx[q].share /\ t.excl = trx[q].excl
        /\ t.value = trx[q].value /\ t.read = trx[q].read /\ t.stale = trx[q].stale
  BY DEF RInv, LocksOK, IsTrx
<1> HIDE DEF t
<1>3. u.pc = "write" /\ r \in u.share /\ u.value = trx[q].value /\ u.read = trx[q].read
        /\ u.stale = trx[q].stale
  BY <1>2 DEF IsTrx
<1> HIDE DEF u
<1>4. DeployProfileOK(q, trx[q])
  BY DEF RInv, TrxOK
<1>5. TrxOK(q, u)
  BY <1>1, <1>3, <1>4
     DEF TrxOK, DeployOK, DisposeOK, PatchOK, DeployProfileOK, DeleteOK, DefinitionOK
<1> QED
  BY <1>1, <1>2, <1>5, ShareKeeps DEF Ends, Creates, u

\* DeployProfile.
LEMMA DeployProfileKeeps ==
  ASSUME RInv, NEW q \in DOMAIN trx, DeployProfile(q)
  PROVE  RInv'
<1> DEFINE added == {<<req[q].id, req[q].cell>>}
<1>1. req[q].op = "deployProfile" /\ TableOf[req[q].id] = "dprofile" /\ trx[q].pc = "write"
        /\ Update(q, req[q].id, trx[q].value, Over("done"), added)
  BY RequestFacts DEF DeployProfile, At, RInv, IsRequest
<1>2. DeployProfileOK(q, trx[q])
  BY DEF RInv, TrxOK
<1>3. IsRow(trx[q].value, TableOf[req[q].id])
  BY <1>1, <1>2, RowTypes DEF DeployProfileOK
<1>4. \A k \in added : k = <<k[1], k[2]>> /\ k[1] = req[q].id /\ k[2] \in trx[q].value.deployments
  BY <1>1, <1>2 DEF DeployProfileOK
<1> HIDE DEF added
<1>5. ~trx[q].stale =>
        /\ db[req[q].id].deployments \subseteq trx[q].value.deployments
        /\ trx[q].value.deployments \subseteq db[req[q].id].deployments \union trx[q].share
  BY <1>1, <1>2 DEF DeployProfileOK
<1> QED
  BY <1>1, <1>3, <1>4, <1>5, OverIsNext, UpdateKeeps DEF Ends

\* LockAndCheck.
LEMMA LockAndCheckKeeps ==
  ASSUME RInv, NEW q \in DOMAIN trx, LockAndCheck(q)
  PROVE  RInv'
<1> DEFINE r == req[q].id
           ok == req[q].op = "deleteTenant" => Accessible(q, req[q].id)
           t == [trx[q] EXCEPT !.pc = "check"]
           u == [t EXCEPT !.excl = @ \union {r}]
<1>1. req[q].op \in {"deleteTenant", "deleteCell", "deleteProfile"} /\ FindAndExclude(q, r, ok, t, "notFound")
  BY DEF LockAndCheck
<1> HIDE DEF ok
<1>2. CASE ~(r \in DOMAIN db /\ ok)
  BY <1>1, <1>2, RollbackKeeps DEF FindAndExclude, Ends
<1>3. CASE r \in DOMAIN db /\ ok
  <2>1. Continue(q, u) /\ CanExclude(q, r)
    BY <1>1, <1>3 DEF FindAndExclude
  <2>2. IsTrx(t) /\ t.pc = "check" /\ t.share = trx[q].share /\ t.excl = trx[q].excl
    BY DEF RInv, LocksOK, IsTrx
  <2> HIDE DEF t
  <2>3. IsTrx(u) /\ u.pc = "check" /\ u.share = trx[q].share /\ u.excl = trx[q].excl \union {r}
    BY <2>2 DEF IsTrx
  <2> HIDE DEF u
  <2>4. TrxOK(q, u)
    BY <1>1, <2>3 DEF TrxOK, DeployOK, DisposeOK, PatchOK, DeployProfileOK, DeleteOK, DefinitionOK
  <2>5. trx[q].share \union trx[q].excl \subseteq DOMAIN db
    BY DEF RInv, LocksOK
  <2> QED
    BY <1>1, <1>3, <2>1, <2>3, <2>4, <2>5, ContinueKeeps DEF Creates
<1> QED
  BY <1>2, <1>3

\* CheckUse.
LEMMA CheckUseKeeps ==
  ASSUME RInv, NEW q \in DOMAIN trx, CheckUse(q)
  PROVE  RInv'
<1> DEFINE r == req[q].id
           u == [trx[q] EXCEPT !.pc = "delete"]
<1>1. trx[q].pc = "check" /\ DeleteOK(q, trx[q])
  BY DEF CheckUse, RInv, TrxOK
<1>2. r \in trx[q].excl /\ req[q].op \in {"deleteTenant", "deleteCell", "deleteProfile"}
  BY <1>1 DEF DeleteOK
<1>3. CASE Rollback(q, "client")
  BY <1>3, RollbackKeeps DEF Ends
<1>4. CASE /\ Continue(q, u)
           /\ req[q].op = "deleteTenant" => ~TenantInUse(r)
           /\ req[q].op = "deleteCell" => ~CellInUse(r)
           /\ req[q].op = "deleteProfile" => ~ProfileInUse(r)
  <2>1. IsTrx(u) /\ u.pc = "delete" /\ u.share = trx[q].share /\ u.excl = trx[q].excl
    BY DEF RInv, LocksOK, IsTrx
  <2>2. Unused(r)
    BY <1>2, <1>4, RequestFacts
       DEF RInv, IsRequest, Unused, TenantInUse, CellInUse, ProfileInUse, participantUsesCell,
           dataspaceProfileUsesCell, participantIsDisposed
  <2>3. Continue(q, u)
    BY <1>4
  <2> HIDE DEF u
  <2>4. TrxOK(q, u)
    BY <1>2, <2>1, <2>2 DEF TrxOK, DeployOK, DisposeOK, PatchOK, DeployProfileOK, DeleteOK, DefinitionOK
  <2>5. trx[q].share \union trx[q].excl \subseteq DOMAIN db
    BY DEF RInv, LocksOK
  <2> QED
    BY <1>2, <2>1, <2>3, <2>4, <2>5, ContinueKeeps DEF Creates
<1> QED
  BY <1>2, <1>3, <1>4 DEF CheckUse

\* DeleteRow, DeleteActivityDefinition.
LEMMA DeleteRowKeeps ==
  ASSUME RInv, NEW q \in DOMAIN trx, DeleteRow(q) \/ DeleteActivityDefinition(q)
  PROVE  RInv'
<1>1. trx[q].pc = "delete" /\ \E error \in {"notFound", "client"} : Delete(q, {req[q].id}, "done", error)
  BY DEF DeleteRow, DeleteActivityDefinition, At
<1>2. DeleteOK(q, trx[q]) /\ IsRequest(req[q])
  BY RequestFacts DEF RInv, TrxOK
<1>3. Unused(req[q].id)
        /\ (TableOf[req[q].id] = "adef" => trx[q].stale \/ ActivityDefinitionReferences(req[q].id) = {})
  BY <1>1, <1>2 DEF DeleteOK, IsRequest, Unused
<1> QED
  BY <1>1, <1>3, DeleteKeeps DEF Ends

\* FindDefinitions.
LEMMA FindDefinitionsKeeps ==
  ASSUME RInv, NEW q \in DOMAIN trx, FindDefinitions(q)
  PROVE  RInv'
<1>1. CASE Rollback(q, "client")
  BY <1>1, RollbackKeeps DEF Ends
<1>2. ASSUME ~Rollback(q, "client")
      PROVE  RInv'
  <2>1. PICK d \in Left(q), pc \in {"update", "insert"}, types \in SUBSET DOMAIN db :
          /\ types = IF req[q].op = "createODef" THEN req[q].defs[d].types ELSE {}
          /\ Continue(q, [trx[q] EXCEPT !.pc = pc, !.read = types, !.value = [def |-> d]])
    BY <1>2 DEF FindDefinitions
  <2> DEFINE value == [def |-> d]
             u == [trx[q] EXCEPT !.pc = pc, !.read = types, !.value = value]
  <2>2. req[q].op \in {"createODef", "createADef"} /\ value.def \in DOMAIN req[q].defs
    BY DEF FindDefinitions, Left
  <2>3. value.def = d
    OBVIOUS
  <2>4. Continue(q, u)
    BY <2>1
  <2> HIDE DEF value
  <2>5. IsTrx(u) /\ u.pc = pc /\ u.share = trx[q].share /\ u.excl = trx[q].excl /\ u.value = value
          /\ u.read = types
    BY DEF RInv, LocksOK, IsTrx
  <2> HIDE DEF u
  <2>6. TrxOK(q, u)
    BY <2>1, <2>2, <2>3, <2>5
       DEF TrxOK, DeployOK, DisposeOK, PatchOK, DeployProfileOK, DeleteOK, DefinitionOK
  <2>7. trx[q].share \union trx[q].excl \subseteq DOMAIN db
    BY DEF RInv, LocksOK
  <2> QED
    BY <2>2, <2>4, <2>5, <2>6, <2>7, ContinueKeeps DEF Creates
<1> QED
  BY <1>1, <1>2

\* StoreDefinition.
LEMMA StoreDefinitionKeeps ==
  ASSUME RInv, NEW q \in DOMAIN trx, StoreDefinition(q)
  PROVE  RInv'
<1> DEFINE d == trx[q].value.def
           then == IF Left(q) = {d} THEN Over("done")
                   ELSE [New EXCEPT !.stored = trx[q].stored \union {d}]
           row == req[q].defs[d]
<1>1. req[q].op \in {"createODef", "createADef"} /\ trx[q].pc \in {"update", "insert"}
        /\ (Update(q, d, row, then, {}) \/ Create(q, d, row, then))
  BY DEF StoreDefinition
<1>2. IsNext(q, then) /\ then.pc \in {"done", "begin"}
  <2>1. IsNext(q, Over("done")) /\ Over("done").pc = "done"
    BY OverIsNext DEF Ends
  <2>2. IsTrx(New) /\ New.pc = "begin" /\ New.share = {} /\ New.excl = {}
    BY DEF New, IsTrx
  <2> DEFINE u == [New EXCEPT !.stored = trx[q].stored \union {d}]
  <2>3. IsTrx(u) /\ u.pc = "begin" /\ u.share = {} /\ u.excl = {}
    BY <2>2 DEF IsTrx
  <2> HIDE DEF u
  <2>4. IsNext(q, u) /\ u.pc = "begin"
    BY <1>1, <2>3 DEF IsNext, Creates
  <2> QED
    BY <2>1, <2>4 DEF u
<1> HIDE DEF then
<1>3. DefinitionOK(q, trx[q]) /\ IsRequest(req[q])
  BY RequestFacts DEF RInv, TrxOK
<1>4. /\ TableOf[d] \in {"adef", "odef"} /\ IsRow(row, TableOf[d])
      /\ TableOf[d] = "odef" => d \in ODefs /\ (~trx[q].stale => row.types \subseteq DOMAIN db)
  <2>1. d \in DOMAIN req[q].defs
    BY <1>1, <1>3 DEF DefinitionOK
  <2>2. CASE req[q].op = "createODef"
    BY <1>1, <1>3, <2>1, <2>2, RowTypes DEF DefinitionOK, IsRequest, ODefs
  <2>3. CASE req[q].op = "createADef"
    BY <1>1, <1>3, <2>1, <2>3, RowTypes DEF IsRequest
  <2> QED
    BY <1>1, <2>2, <2>3
<1> QED
  BY <1>1, <1>2, <1>4, CreateKeeps, UpdateKeeps

\* FindReferences.
LEMMA FindReferencesKeeps ==
  ASSUME RInv, NEW q \in DOMAIN trx, FindReferences(q)
  PROVE  RInv'
<1> DEFINE read == {req[q].id} \union ODefs
           u == [trx[q] EXCEPT !.pc = "delete", !.read = read]
<1>1. CASE \E error \in Ends : Rollback(q, error)
  BY <1>1, RollbackKeeps
<1>2. CASE Continue(q, u) /\ ActivityDefinitionReferences(req[q].id) = {}
  <2>1. IsTrx(u) /\ u.pc = "delete" /\ u.share = trx[q].share /\ u.excl = trx[q].excl /\ u.read = read
    <3> HIDE DEF read
    <3> QED
      BY DEF RInv, LocksOK, IsTrx
  <2>2. Continue(q, u) /\ req[q].op = "deleteADef"
    BY <1>2 DEF FindReferences, At
  <2> HIDE DEF u
  <2>3. TrxOK(q, u)
    BY <1>2, <2>1, <2>2 DEF TrxOK, DeployOK, DisposeOK, PatchOK, DeployProfileOK, DeleteOK, DefinitionOK
  <2>4. trx[q].share \union trx[q].excl \subseteq DOMAIN db
    BY DEF RInv, LocksOK
  <2> QED
    BY <2>1, <2>2, <2>3, <2>4, ContinueKeeps DEF Creates
<1> QED
  BY <1>1, <1>2 DEF FindReferences, Ends

\* FindTemplate.
LEMMA FindTemplateKeeps ==
  ASSUME RInv, NEW q \in DOMAIN trx, FindTemplate(q)
  PROVE  RInv'
<1> DEFINE defs == {o \in Rows("odef") : db[o].template = req[q].template}
<1>a. req[q].op = "deleteODef" /\ trx[q].pc = "begin" /\ IsTrx(trx[q])
        /\ trx[q].share \union trx[q].excl \subseteq DOMAIN db /\ trx[q].excl = {}
  BY DEF FindTemplate, At, RInv, LocksOK, TrxOK, DefinitionOK
<1>1. CASE \E error \in Ends : Rollback(q, error)
  BY <1>1, RollbackKeeps
<1>2. ASSUME NEW ds \in SetToSeqs(defs), Continue(q, [trx[q] EXCEPT !.pc = "lookUp", !.lock = ds])
      PROVE  RInv'
  <2> DEFINE u == [trx[q] EXCEPT !.pc = "lookUp", !.lock = ds]
  <2>1. IsFiniteSet(defs) /\ \A o \in defs : TableOf[o] = "odef"
    <3>1. defs \subseteq DOMAIN db /\ IsFiniteSet(DOMAIN db)
      BY DEF Rows, RInv, RowsOK
    <3> QED
      BY <3>1, RowsByTable, FS_Subset DEF RInv
  <2> HIDE DEF defs
  <2>2. ds \in Seq(Range(ds)) /\ Range(ds) = defs
    BY <2>1, SequenceOfSet
  <2>3. IsTrx(u) /\ u.pc = "lookUp" /\ u.share = trx[q].share /\ u.excl = trx[q].excl /\ u.lock = ds
    BY <1>a DEF IsTrx
  <2>4. Continue(q, u)
    BY <1>2
  <2> HIDE DEF u
  <2>5. TrxOK(q, u)
    BY <1>a, <2>1, <2>2, <2>3 DEF TrxOK, DeployOK, DisposeOK, PatchOK, DeployProfileOK, DeleteOK, DefinitionOK
  <2> QED
    BY <1>a, <2>3, <2>4, <2>5, ContinueKeeps DEF Creates
<1> QED
  BY <1>1, <1>2 DEF FindTemplate, Ends

\* LookUpOrchestration.
LEMMA LookUpOrchestrationKeeps ==
  ASSUME RInv, NEW q \in DOMAIN trx, LookUpOrchestration(q)
  PROVE  RInv'
<1> DEFINE u == [trx[q] EXCEPT !.pc = "deleteNext"]
<1>a. req[q].op = "deleteODef" /\ trx[q].pc = "lookUp" /\ trx[q].lock # <<>> /\ IsTrx(trx[q])
        /\ trx[q].share \union trx[q].excl \subseteq DOMAIN db /\ DefinitionOK(q, trx[q])
  BY DEF LookUpOrchestration, At, RInv, LocksOK, TrxOK
<1>1. CASE \E error \in Ends : Rollback(q, error)
  BY <1>1, RollbackKeeps
<1>2. CASE Continue(q, u)
  <2>1. IsTrx(u) /\ u.pc = "deleteNext" /\ u.share = trx[q].share /\ u.excl = trx[q].excl /\ u.lock = trx[q].lock
    BY <1>a DEF IsTrx
  <2> HIDE DEF u
  <2>2. TrxOK(q, u)
    BY <1>a, <2>1 DEF TrxOK, DeployOK, DisposeOK, PatchOK, DeployProfileOK, DeleteOK, DefinitionOK
  <2> QED
    BY <1>2, <1>a, <2>1, <2>2, ContinueKeeps DEF Creates
<1> QED
  BY <1>1, <1>2 DEF LookUpOrchestration, Ends

\* DeleteNext.
LEMMA DeleteNextKeeps ==
  ASSUME RInv, NEW q \in DOMAIN trx, DeleteNext(q)
  PROVE  RInv'
<1> DEFINE s == trx[q].lock
           r == Head(s)
           t == [trx[q] EXCEPT !.pc = "lookUp", !.lock = Tail(@)]
           u == [t EXCEPT !.excl = @ \union {r}]
<1>a. req[q].op = "deleteODef" /\ trx[q].pc = "deleteNext" /\ IsTrx(trx[q])
        /\ trx[q].share \union trx[q].excl \subseteq DOMAIN db /\ DefinitionOK(q, trx[q])
        /\ FindAndExclude(q, r, TRUE, t, "client")
  BY DEF DeleteNext, At, RInv, LocksOK, TrxOK
<1>1. CASE r \notin DOMAIN db
  BY <1>1, <1>a, RollbackKeeps DEF FindAndExclude, Ends
<1>2. CASE r \in DOMAIN db
  <2>1. Continue(q, u) /\ CanExclude(q, r)
    BY <1>2, <1>a DEF FindAndExclude
  <2>2. IsTrx(t) /\ t.pc = "lookUp" /\ t.share = trx[q].share /\ t.excl = trx[q].excl /\ t.lock = Tail(s)
    BY <1>a DEF IsTrx
  <2> HIDE DEF t
  <2>3. IsTrx(u) /\ u.pc = "lookUp" /\ u.share = trx[q].share /\ u.excl = trx[q].excl \union {r} /\ u.lock = Tail(s)
    BY <2>2 DEF IsTrx
  <2> HIDE DEF u
  <2>4. s \in Seq(Range(s)) /\ s # <<>> /\ \A o \in trx[q].excl \union Range(s) : TableOf[o] = "odef"
    BY <1>a DEF DefinitionOK
  <2>5. Tail(s) \in Seq(Range(Tail(s))) /\ r \in Range(s) /\ Range(Tail(s)) \subseteq Range(s)
    <3>1. Tail(s) \in Seq(Range(s)) /\ r \in Range(s)
      <4> HIDE DEF s
      <4>1. s \in Seq(Range(s)) /\ s # <<>>
        BY <2>4
      <4>2. 1 \in DOMAIN s /\ r = s[1]
        BY <4>1
      <4> QED
        BY <4>1, <4>2 DEF Range
    <3>2. Range(Tail(s)) \subseteq Range(s)
      BY <3>1 DEF Range
    <3> QED
      BY <3>1, <3>2, SequenceOfRange
  <2>6. TrxOK(q, u)
    BY <1>a, <2>3, <2>4, <2>5 DEF TrxOK, DeployOK, DisposeOK, PatchOK, DeployProfileOK, DeleteOK, DefinitionOK
  <2> QED
    BY <1>a, <1>2, <2>1, <2>3, <2>6, ContinueKeeps DEF Creates
<1> QED
  BY <1>1, <1>2

\* The commit of a template's deletion is that of a DELETE of the rows that it locked.
LEMMA CommitDeletes ==
  ASSUME RInv, NEW q \in DOMAIN trx, CommitDeletions(q)
  PROVE  /\ Delete(q, trx[q].excl, "done", "client")
         /\ \A o \in trx[q].excl : TableOf[o] = "odef"
<1>1. trx[q].pc = "lookUp" /\ trx[q].excl \subseteq DOMAIN db /\ \A r \in trx[q].excl : CanExclude(q, r)
  BY DEF CommitDeletions, At, RInv, LocksOK, CanExclude
<1>2. \A o \in trx[q].excl : TableOf[o] = "odef"
  BY <1>1 DEF RInv, TrxOK, DefinitionOK
<1> QED
  BY <1>1, <1>2 DEF CommitDeletions, Delete

\* CommitDeletions.
LEMMA CommitDeletionsKeeps ==
  ASSUME RInv, NEW q \in DOMAIN trx, CommitDeletions(q)
  PROVE  RInv'
<1>1. Delete(q, trx[q].excl, "done", "client") /\ \A o \in trx[q].excl : TableOf[o] = "odef"
  BY CommitDeletes
<1>2. \A o \in trx[q].excl : Unused(o) /\ TableOf[o] # "adef"
  BY <1>1 DEF Unused
<1> QED
  BY <1>1, <1>2, DeleteKeeps DEF Ends

\* Respond.
LEMMA RespondKeeps ==
  ASSUME RInv, NEW p \in DOMAIN db, Respond(p)
  PROVE  RInv'
<1> DEFINE old == db[p]
<1>a. TableOf[p] = "participant" /\ IsParticipant(db[p]) /\ db[p].pending # 0 /\ trx[db[p].pending].pc = "done"
  BY RowsByTable, RowTypes DEF RInv, RowsOK, Respond
<1>b. PICK s \in {"active", "error", "disposed"}, answered \in BOOLEAN :
        /\ db[p].state # "disposed"
        /\ db[p].state # "pending" => s = "disposed"
        /\ db' = [db EXCEPT ![p].state = s, ![p].pending = IF answered THEN 0 ELSE @]
  BY DEF Respond
<1>c. /\ DOMAIN db' = DOMAIN db /\ \A r \in DOMAIN db \ {p} : db'[r] = db[r]
      /\ IsParticipant(db'[p]) /\ SameReferences(db'[p], db[p])
      /\ db'[p].state = s /\ db'[p].pending \in {0, db[p].pending}
  <2> DEFINE pending == IF answered THEN 0 ELSE db[p].pending
             row == [db[p] EXCEPT !.state = s, !.pending = pending]
  <2>1. db' = [db EXCEPT ![p] = row]
    BY <1>b
  <2>2. IsParticipant(row) /\ SameReferences(row, db[p]) /\ row.state = s /\ row.pending = pending
    BY <1>a DEF IsParticipant, SameReferences
  <2> HIDE DEF row
  <2> QED
    BY <2>1, <2>2
<1>d. /\ req' = req /\ tainted' = tainted /\ kept' = kept /\ DOMAIN trx' = DOMAIN trx
      /\ \A q \in DOMAIN trx : trx'[q] = Outdated(trx[q], {p})
  BY DEF Respond
<1>e. ASSUME NEW q \in DOMAIN trx
      PROVE  /\ IsTrx(trx'[q]) /\ trx'[q].pc = trx[q].pc /\ trx'[q].share = trx[q].share
             /\ trx'[q].excl = trx[q].excl /\ trx'[q].read = trx[q].read /\ trx'[q].value = trx[q].value
             /\ trx'[q].lock = trx[q].lock
             /\ ~trx'[q].stale => ~trx[q].stale /\ p \notin trx[q].read
  <2>1. IsTrx(trx[q])
    BY DEF RInv, LocksOK
  <2>2. CASE p \in trx[q].read
    <3>1. trx'[q] = [trx[q] EXCEPT !.stale = TRUE]
      BY <1>d, <2>2 DEF Outdated
    <3> QED
      BY <2>1, <3>1 DEF IsTrx
  <2>3. CASE p \notin trx[q].read
    BY <1>d, <2>1, <2>3 DEF Outdated
  <2> QED
    BY <2>2, <2>3
<1>f. \A k : Rows(k)' = Rows(k)
  <2>1. db'[p].kind = db[p].kind
    BY <1>a, <1>c DEF IsParticipant
  <2> QED
    BY <1>c, <2>1 DEF Rows
<1>1. RequestsOK' /\ RowsOK'
  BY <1>a, <1>c, <1>d, RowTypes DEF RInv, RequestsOK, RowsOK
<1>2. LocksOK' /\ Fresh'
  BY <1>c, <1>d, <1>e DEF RInv, LocksOK, Fresh, Creates
<1>3. KeptOK'
  BY <1>a, <1>c, <1>d DEF RInv, KeptOK
<1>4. NoDangling'
  <2>1. ASSUME NEW x \in Rows("participant")
        PROVE  /\ db'[x].tenant \in Rows("tenant")
               /\ db'[x].owner = db'[db'[x].tenant].owner
               /\ db'[x].state = "disposed" \/ x \in tainted
                    \/ {db'[x].cell} \union db'[x].dprofiles \subseteq DOMAIN db
    <3>1. db'[x].tenant = db[x].tenant /\ db'[x].owner = db[x].owner /\ db'[x].cell = db[x].cell
            /\ db'[x].dprofiles = db[x].dprofiles
      BY <1>c DEF Rows, SameReferences
    <3>2. db[x].tenant \in Rows("tenant") /\ db[db[x].tenant].owner = db[x].owner
            /\ (db[x].state = "disposed" \/ x \in tainted
                  \/ {db[x].cell} \union db[x].dprofiles \subseteq DOMAIN db)
      BY <2>1 DEF RInv, NoDangling
    <3>3. db'[db[x].tenant] = db[db[x].tenant]
      BY <1>a, <1>c, <3>2 DEF Rows, IsParticipant
    <3>4. db[x].state = "disposed" => db'[x] = db[x]
      BY <1>b, <1>c DEF Rows
    <3> QED
      BY <3>1, <3>2, <3>3, <3>4
  <2>2. \A x \in Rows("dprofile") \union Rows("odef") : db'[x] = db[x]
    BY <1>a, <1>c DEF Rows, IsParticipant
  <2> QED
    BY <1>c, <1>d, <1>f, <2>1, <2>2 DEF RInv, NoDangling
<1>5. ASSUME NEW q \in DOMAIN trx
      PROVE  TrxOK(q, trx[q])'
  <2>a. TrxOK(q, trx[q]) /\ IsRequest(req[q]) /\ q # 0
    BY RequestFacts DEF RInv
  <2>1. DeployOK(q, trx[q])'
    <3>1. req[q].op = "deployParticipant" => db'[req[q].tenant] = db[req[q].tenant]
            \/ req[q].tenant \notin DOMAIN db
      BY <1>a, <1>c, <2>a DEF IsRequest
    <3>2. trx[q].share \subseteq DOMAIN db
      BY DEF RInv, LocksOK
    <3> QED
      BY <1>d, <1>e, <2>a, <3>1, <3>2 DEF TrxOK, DeployOK
  <2>2. DisposeOK(q, trx[q])'
    <3>1. trx[q].pc = "send" => db[p].pending # q
      BY <1>a
    <3> QED
      BY <1>c, <1>d, <1>e, <2>a, <3>1 DEF TrxOK, DisposeOK, SameReferences
  <2>3. PatchOK(q, trx[q])'
    BY <1>a, <1>c, <1>d, <1>e, <2>a DEF TrxOK, PatchOK, IsRequest
  <2>4. DeployProfileOK(q, trx[q])'
    BY <1>a, <1>c, <1>d, <1>e, <2>a DEF TrxOK, DeployProfileOK, IsRequest
  <2>5. DeleteOK(q, trx[q])'
    <3>1. ActivityDefinitionReferences(req[q].id)' = ActivityDefinitionReferences(req[q].id)
      BY <1>a, <1>c, <1>d, <1>f DEF ActivityDefinitionReferences, Rows, IsParticipant
    <3>2. Unused(req[q].id) => Unused(req[q].id)'
      <4>1. \A x \in Rows("participant") :
              /\ db'[x].tenant = db[x].tenant /\ db'[x].cell = db[x].cell /\ db'[x].dprofiles = db[x].dprofiles
              /\ db[x].state = "disposed" => db'[x].state = "disposed"
        BY <1>b, <1>c DEF Rows, SameReferences
      <4>2. \A x \in Rows("dprofile") : db'[x] = db[x]
        BY <1>a, <1>c DEF Rows, IsParticipant
      <4> QED
        BY <1>d, <1>f, <4>1, <4>2 DEF Unused
    <3> QED
      BY <1>d, <1>e, <2>a, <3>1, <3>2 DEF TrxOK, DeleteOK
  <2>6. DefinitionOK(q, trx[q])'
    BY <1>c, <1>d, <1>e, <2>a DEF TrxOK, DefinitionOK
  <2> QED
    BY <2>1, <2>2, <2>3, <2>4, <2>5, <2>6 DEF TrxOK
<1> QED
  BY <1>1, <1>2, <1>3, <1>4, <1>5, <1>d DEF RInv

-----------------------------------------------------------------------------
\* The requests of References keep it.

\* Every step keeps the invariant.
LEMMA NextKeeps == RInv /\ [Next]_vars => RInv'
<1> SUFFICES ASSUME RInv, [Next]_vars PROVE RInv'
  OBVIOUS
<1>1. CASE UNCHANGED vars
  <2> USE <1>1 DEF vars
  <2>1. RequestsOK' /\ RowsOK' /\ LocksOK' /\ Fresh' /\ NoDangling' /\ KeptOK'
    BY DEF RInv, RequestsOK, RowsOK, LocksOK, Fresh, Creates, NoDangling, Rows, KeptOK
  <2>2. \A q \in DOMAIN trx : TrxOK(q, trx[q])'
    BY TrxUnchanged DEF RInv, TrxOK
  <2> QED
    BY <2>1, <2>2 DEF RInv
<1>2. ASSUME NEW q \in DOMAIN trx, Step(q)
      PROVE  RInv'
  <2>1. CASE LockTenant(q) \/ ReadCells(q) \/ ReadProfiles(q) \/ lockReferences(q) \/ StoreParticipant(q) \/ Send(q)
    BY <2>1, LockTenantKeeps, ReadCellsKeeps, ReadProfilesKeeps, LockReferencesKeeps, StoreParticipantKeeps,
       SendKeeps
  <2>2. CASE ReadParticipant(q) \/ WriteParticipant(q) \/ revertDispose(q)
    BY <2>2, ReadParticipantKeeps, WriteParticipantKeeps, RevertDisposeKeeps
  <2>3. CASE CreateTenant(q) \/ RecordExternalDeployment(q) \/ CreateProfile(q)
    BY <2>3, CreationsKeep
  <2>4. CASE ReadTenant(q) \/ PatchTenant(q)
    BY <2>4, ReadTenantKeeps, PatchTenantKeeps
  <2>5. CASE ReadProfile(q) \/ LockCell(q) \/ DeployProfile(q)
    BY <2>5, ReadProfileKeeps, LockCellKeeps, DeployProfileKeeps
  <2>6. CASE LockAndCheck(q) \/ CheckUse(q) \/ DeleteRow(q) \/ DeleteActivityDefinition(q)
    BY <2>6, LockAndCheckKeeps, CheckUseKeeps, DeleteRowKeeps
  <2>7. CASE FindDefinitions(q) \/ StoreDefinition(q) \/ FindReferences(q)
    BY <2>7, FindDefinitionsKeeps, StoreDefinitionKeeps, FindReferencesKeeps
  <2>8. CASE FindTemplate(q) \/ LookUpOrchestration(q) \/ DeleteNext(q) \/ CommitDeletions(q)
    BY <2>8, FindTemplateKeeps, LookUpOrchestrationKeeps, DeleteNextKeeps, CommitDeletionsKeeps
  <2> QED
    BY <1>2, <2>1, <2>2, <2>3, <2>4, <2>5, <2>6, <2>7, <2>8 DEF Step
<1>3. ASSUME NEW q \in DOMAIN trx, Abort(q)
      PROVE  RInv'
  BY <1>3, RollbackKeeps DEF Abort, Ends
<1>4. ASSUME NEW r \in DOMAIN db, Indexed(r)
      PROVE  RInv'
  <2> USE <1>4 DEF Indexed
  <2>1. RequestsOK' /\ RowsOK' /\ LocksOK' /\ Fresh' /\ NoDangling' /\ KeptOK'
    BY DEF RInv, RequestsOK, RowsOK, LocksOK, Fresh, Creates, NoDangling, Rows, KeptOK
  <2>2. \A q \in DOMAIN trx : TrxOK(q, trx[q])'
    BY TrxUnchanged DEF RInv, TrxOK
  <2> QED
    BY <2>1, <2>2 DEF RInv
<1> QED
  BY <1>1, <1>2, <1>3, <1>4, RespondKeeps DEF Next

-----------------------------------------------------------------------------
\* The requests of Api that read change no rows.

\* A request that reads ends, or is at one of the statements of a page.
LEMMA ReadingKeeps ==
  ASSUME RInv, NEW q \in DOMAIN trx, NEW how \in Ends \union {"rows", "page"}, Continue(q, Over(how))
  PROVE  RInv'
<1>1. TrxOK(q, Over(how))
  BY OverIs DEF Ends, TrxOK, DeployOK, DisposeOK, PatchOK, DeployProfileOK, DeleteOK, DefinitionOK
<1> QED
  BY <1>1, OverIs, ContinueKeeps DEF Ends, Early

\* LookUpTenant.
LEMMA LookUpTenantKeeps ==
  ASSUME RInv, NEW q \in DOMAIN trx, LookUpTenant(q)
  PROVE  RInv'
<1> DEFINE t == [trx[q] EXCEPT !.pc = "profilesOf"]
<1>1. req[q].op = "profilesOf" /\ (Continue(q, t) \/ Rollback(q, "notFound"))
  BY DEF LookUpTenant, At, Fails
<1>2. CASE Continue(q, t)
  <2>1. IsTrx(t) /\ t.pc = "profilesOf" /\ t.share = trx[q].share /\ t.excl = trx[q].excl
    BY DEF RInv, LocksOK, IsTrx
  <2>2. trx[q].share \union trx[q].excl \subseteq DOMAIN db
    BY DEF RInv, LocksOK
  <2> HIDE DEF t
  <2>3. TrxOK(q, t)
    BY <1>1, <2>1 DEF TrxOK, DeployOK, DisposeOK, PatchOK, DeployProfileOK, DeleteOK, DefinitionOK
  <2> QED
    BY <1>1, <1>2, <2>1, <2>2, <2>3, ContinueKeeps DEF Creates
<1>3. CASE Rollback(q, "notFound")
  BY <1>3, RollbackKeeps DEF Ends
<1> QED
  BY <1>1, <1>2, <1>3

\* What a request that reads does to the transactions.
LEMMA ReadMoves ==
  ASSUME NEW q \in DOMAIN trx, Read(q)
  PROVE  LookUpTenant(q) \/ \E how \in Ends \union {"rows", "page"} : Continue(q, Over(how))
<1>a. \A items : Respond200(q, items) => Continue(q, Over("done"))
  BY DEF Respond200, Continue
<1>b. \A error \in Ends : Fails(q, error) => Continue(q, Over(error))
  BY DEF Fails, Rollback, Continue
<1>1. CASE GetTenant(q) \/ GetParticipantProfile(q) \/ GetDataspaceProfile(q)
  BY <1>1, <1>a, <1>b DEF GetTenant, GetParticipantProfile, GetDataspaceProfile, Ends
<1>2. CASE ListCells(q) \/ ListProfiles(q) \/ GetActivityDefinitions(q) \/ GetOrchestrationDefinitions(q)
             \/ getProfilesForTenant(q)
  <2>1. (\E items : Respond200(q, items)) \/ Fails(q, "internal")
    BY <1>2, Zenon DEF ListCells, ListProfiles, GetActivityDefinitions, GetOrchestrationDefinitions,
         getProfilesForTenant
  <2> QED
    BY <2>1, <1>a, <1>b DEF Ends
<1>3. CASE CountRows(q)
  <2>1. Fails(q, "internal") \/ Continue(q, Over("rows"))
    BY <1>3, Zenon DEF CountRows, Over
  <2> QED
    BY <2>1 DEF Fails, Rollback, Continue, Ends
<1>4. CASE ReadRows(q)
  <2>1. Continue(q, Over("page")) \/ Continue(q, Over("done"))
    BY <1>4, Zenon DEF ReadRows, Over
  <2> QED
    BY <2>1 DEF Ends
<1> QED
  BY <1>1, <1>2, <1>3, <1>4 DEF Read

\* What a request that is not served, or whose page is cut off, does to them.
LEMMA EndsEarly ==
  ASSUME NEW q \in DOMAIN trx, Refuse(q) \/ Truncate(q)
  PROVE  \E how \in Ends : Continue(q, Over(how))
  BY DEF Refuse, Truncate, Continue, Ends

\* Every step of Api keeps the invariant of References.
LEMMA ApiNextKeeps == RInv /\ [ApiNext]_apiVars => RInv'
<1> SUFFICES ASSUME RInv, [ApiNext]_apiVars PROVE RInv'
  OBVIOUS
<1>1. CASE UNCHANGED apiVars
  BY <1>1, NextKeeps DEF apiVars, vars
<1>2. ASSUME NEW q \in DOMAIN trx, Serve(q)
      PROVE  RInv'
  <2>1. CASE Refuse(q)
    BY <2>1, EndsEarly, ReadingKeeps
  <2>2. CASE Read(q)
    BY <2>2, ReadMoves, ReadingKeeps, LookUpTenantKeeps
  <2>3. CASE Step(q)
    BY <2>3, NextKeeps DEF Next
  <2> QED
    BY <1>2, <2>1, <2>2, <2>3 DEF Serve
<1>3. ASSUME NEW q \in DOMAIN trx, Truncate(q) \/ Abort(q)
      PROVE  RInv'
  BY <1>3, EndsEarly, ReadingKeeps, NextKeeps DEF Next
<1>4. ASSUME NEW r \in DOMAIN db, Respond(r) \/ Indexed(r)
      PROVE  RInv'
  BY <1>4, NextKeeps DEF Next
<1> QED
  BY <1>1, <1>2, <1>3, <1>4 DEF ApiNext

-----------------------------------------------------------------------------
\* What no step does: to give a tenant or a participant another owner, or to create one
\* with an id that was not new.

Owned(r) == TableOf[r] \in {"tenant", "participant"}

OnlyMoves(q) ==
  req' = req /\ DOMAIN trx' = DOMAIN trx /\ \A p \in DOMAIN trx \ {q} : trx'[p].pc = trx[p].pc

OwnersStay(q) ==
  \A r \in DOMAIN db' : Owned(r) =>
    IF r \in DOMAIN db THEN db'[r].owner = db[r].owner
    ELSE Creates(req[q]) /\ trx[q].pc \in Early /\ r = req[q].id

Harmless(q) ==
  OnlyMoves(q) /\ OwnersStay(q) /\ (Creates(req[q]) /\ trx'[q].pc \in Early => trx[q].pc \in Early)

LEMMA ContinueHarmless ==
  ASSUME NEW q \in DOMAIN trx, NEW t, Continue(q, t),
         Creates(req[q]) /\ t.pc \in Early => trx[q].pc \in Early
  PROVE  Harmless(q) /\ trx'[q] = t
<1>1. UNCHANGED <<req, db>> /\ DOMAIN trx' = DOMAIN trx
      /\ \A p \in DOMAIN trx : trx'[p] = IF p = q THEN t ELSE trx[p]
  BY DEF Continue
<1> QED
  BY <1>1 DEF Harmless, OnlyMoves, OwnersStay

LEMMA RollbackHarmless ==
  ASSUME NEW q \in DOMAIN trx, NEW error \in Ends, Rollback(q, error)
  PROVE  Harmless(q) /\ trx'[q].pc = error
<1>1. Continue(q, Over(error)) /\ Over(error).pc = error
  BY OverIs DEF Rollback, Continue
<1> QED
  BY <1>1, ContinueHarmless DEF Ends, Early

\* A commit.
LEMMA CommitHarmless ==
  ASSUME RInv, NEW q \in DOMAIN trx, NEW d, NEW t, NEW added, CommitTo(q, d, t, added),
         ~Creates(req[q]) \/ t.pc \notin Early,
         \A r \in DOMAIN d : Owned(r) =>
           IF r \in DOMAIN db THEN d[r].owner = db[r].owner
           ELSE Creates(req[q]) /\ trx[q].pc \in Early /\ r = req[q].id
  PROVE  Harmless(q) /\ trx'[q] = t
<1>1. db' = d /\ req' = req /\ DOMAIN trx' = DOMAIN trx /\ trx'[q] = t
  BY DEF CommitTo
<1>2. \A p \in DOMAIN trx \ {q} : trx'[p].pc = trx[p].pc
  BY Others
<1> QED
  BY <1>1, <1>2 DEF Harmless, OnlyMoves, OwnersStay

LEMMA CreateHarmless ==
  ASSUME RInv, NEW q \in DOMAIN trx, NEW r, NEW value, NEW t, Create(q, r, value, t),
         ~Creates(req[q]) \/ t.pc \notin Early,
         Owned(r) => Creates(req[q]) /\ trx[q].pc \in Early /\ r = req[q].id
  PROVE  Harmless(q)
<1>1. CASE r \in DOMAIN db
  BY <1>1, RollbackHarmless DEF Create, Ends
<1>2. CASE r \notin DOMAIN db
  <2> DEFINE d == [x \in DOMAIN db \union {r} |-> IF x = r THEN value ELSE db[x]]
  <2>1. CommitTo(q, d, t, {})
    BY <1>2 DEF Create
  <2>2. DOMAIN d = DOMAIN db \union {r} /\ \A x \in DOMAIN db : d[x] = db[x]
    BY <1>2
  <2> HIDE DEF d
  <2> QED
    BY <2>1, <2>2, CommitHarmless
<1> QED
  BY <1>1, <1>2

LEMMA UpdateHarmless ==
  ASSUME RInv, NEW q \in DOMAIN trx, NEW r, NEW value, NEW t, NEW added, Update(q, r, value, t, added),
         ~Creates(req[q]) \/ t.pc \notin Early,
         Owned(r) /\ r \in DOMAIN db => value.owner = db[r].owner
  PROVE  Harmless(q)
<1>1. CASE r \notin DOMAIN db
  BY <1>1, RollbackHarmless DEF Update, Ends
<1>2. CASE r \in DOMAIN db
  <2> DEFINE d == [db EXCEPT ![r] = value]
  <2>1. CommitTo(q, d, t, added)
    BY <1>2 DEF Update
  <2>2. DOMAIN d = DOMAIN db /\ \A x \in DOMAIN db : d[x] = IF x = r THEN value ELSE db[x]
    BY <1>2
  <2> HIDE DEF d
  <2> QED
    BY <2>1, <2>2, CommitHarmless
<1> QED
  BY <1>1, <1>2

LEMMA DeleteHarmless ==
  ASSUME RInv, NEW q \in DOMAIN trx, NEW rows, NEW how \in Ends, NEW error \in Ends,
         Delete(q, rows, how, error)
  PROVE  Harmless(q)
<1>1. CASE ~(rows \subseteq DOMAIN db)
  BY <1>1, RollbackHarmless DEF Delete
<1>2. CASE rows \subseteq DOMAIN db
  <2> DEFINE d == [x \in DOMAIN db \ rows |-> db[x]]
  <2>1. CommitTo(q, d, Over(how), {})
    BY <1>2 DEF Delete
  <2>2. DOMAIN d = DOMAIN db \ rows /\ \A x \in DOMAIN d : d[x] = db[x]
    OBVIOUS
  <2>3. Over(how).pc \notin Early
    BY OverIs DEF Ends, Early
  <2> HIDE DEF d
  <2> QED
    BY <2>1, <2>2, <2>3, CommitHarmless
<1> QED
  BY <1>1, <1>2

\* A lock that is waited for.
LEMMA LockHarmless ==
  ASSUME RInv, NEW q \in DOMAIN trx, NEW r, NEW ok, NEW t, NEW error \in Ends,
         FindAndShare(q, r, ok, t, error) \/ FindAndExclude(q, r, ok, t, error),
         Creates(req[q]) => trx[q].pc \in Early
  PROVE  /\ Harmless(q)
         /\ trx'[q].pc = error \/ (r \in DOMAIN db /\ ok)
<1>1. CASE Rollback(q, error)
  BY <1>1, RollbackHarmless
<1>2. CASE ~Rollback(q, error)
  <2>1. r \in DOMAIN db /\ ok /\ \E u : Continue(q, u)
    BY <1>2 DEF FindAndShare, FindAndExclude
  <2> QED
    BY <2>1, ContinueHarmless
<1> QED
  BY <1>1, <1>2

\* Steps that change no rows.
LEMMA ReadingHarmless ==
  ASSUME RInv, NEW q \in DOMAIN trx,
         \/ LockTenant(q) \/ ReadCells(q) \/ ReadProfiles(q) \/ lockReferences(q)
         \/ ReadParticipant(q) \/ ReadTenant(q) \/ ReadProfile(q) \/ LockCell(q)
         \/ LockAndCheck(q) \/ CheckUse(q) \/ FindDefinitions(q) \/ FindReferences(q) \/ FindTemplate(q)
         \/ LookUpOrchestration(q) \/ DeleteNext(q)
  PROVE  Harmless(q)
<1>1. CASE LockTenant(q) \/ lockReferences(q) \/ LockCell(q) \/ LockAndCheck(q) \/ DeleteNext(q)
  <2>1. Creates(req[q]) => trx[q].pc \in Early
    BY <1>1 DEF LockTenant, lockReferences, LockCell, LockAndCheck, DeleteNext, At, Creates, Early
  <2>2. \E r, ok, t : \E error \in Ends : FindAndShare(q, r, ok, t, error) \/ FindAndExclude(q, r, ok, t, error)
    <3>1. "notFound" \in Ends /\ "client" \in Ends
      BY DEF Ends
    <3> QED
      BY <1>1, <3>1, Zenon DEF LockTenant, lockReferences, LockCell, LockAndCheck, DeleteNext
  <2> QED
    BY <2>1, <2>2, LockHarmless
<1>2. CASE ReadCells(q) \/ ReadProfiles(q)
  <2>a. At(q, "deployParticipant", "cells") \/ At(q, "deployParticipant", "profiles")
    BY <1>2, Zenon DEF ReadCells, ReadProfiles
  <2>1. trx[q].pc \in Early
    BY <2>a DEF At, Early
  <2>2. (\E t : Continue(q, t)) \/ Rollback(q, "internal")
    BY <1>2, Zenon DEF ReadCells, ReadProfiles
  <2> QED
    BY <2>1, <2>2, ContinueHarmless, RollbackHarmless DEF Ends
<1>3. CASE \/ ReadParticipant(q) \/ ReadTenant(q) \/ ReadProfile(q) \/ FindDefinitions(q) \/ FindReferences(q)
           \/ FindTemplate(q) \/ LookUpOrchestration(q)
  <2>a. \/ At(q, "dispose", "begin") \/ At(q, "patchTenant", "begin") \/ At(q, "deployProfile", "begin")
        \/ At(q, "deleteADef", "begin") \/ At(q, "deleteODef", "begin") \/ At(q, "deleteODef", "lookUp")
        \/ req[q].op \in {"createODef", "createADef"}
    BY <1>3, Zenon DEF ReadParticipant, ReadTenant, ReadProfile, FindDefinitions, FindReferences, FindTemplate,
         LookUpOrchestration
  <2>1. ~Creates(req[q])
    BY <2>a DEF At, Creates
  <2>2. (\E t : Continue(q, t)) \/ \E error \in Ends : Rollback(q, error)
    <3>1. "notFound" \in Ends /\ "client" \in Ends /\ "internal" \in Ends
      BY DEF Ends
    <3> QED
      BY <1>3, <3>1, Zenon DEF ReadParticipant, ReadTenant, ReadProfile, FindDefinitions, FindReferences, FindTemplate,
         LookUpOrchestration
  <2> QED
    BY <2>1, <2>2, ContinueHarmless, RollbackHarmless
<1>4. CASE CheckUse(q)
  <2>1. ~Creates(req[q])
    BY <1>4 DEF CheckUse, RInv, TrxOK, DeleteOK, Creates
  <2>2. (\E t : Continue(q, t)) \/ Rollback(q, "client")
    BY <1>4, Zenon DEF CheckUse
  <2> QED
    BY <2>1, <2>2, ContinueHarmless, RollbackHarmless DEF Ends
<1> QED
  BY <1>1, <1>2, <1>3, <1>4

\* Steps that write participants and tenants.
LEMMA OwnedHarmless ==
  ASSUME RInv, NEW q \in DOMAIN trx,
         \/ StoreParticipant(q) \/ Send(q) \/ WriteParticipant(q) \/ revertDispose(q)
         \/ CreateTenant(q) \/ PatchTenant(q)
  PROVE  Harmless(q)
<1>a. \A how \in {"send", "done", "internal"} : Over(how).pc = how /\ how \notin Early
  BY OverIs DEF Early
<1>b. TrxOK(q, trx[q])
  BY DEF RInv
<1>1. CASE StoreParticipant(q) \/ CreateTenant(q)
  <2>1. Creates(req[q]) /\ trx[q].pc \in Early
    BY <1>1 DEF StoreParticipant, CreateTenant, At, Creates, Early
  <2>2. \E value : \E how \in {"send", "done"} : Create(q, req[q].id, value, Over(how))
    BY <1>1, Zenon DEF StoreParticipant, CreateTenant
  <2> QED
    BY <1>a, <2>1, <2>2, CreateHarmless
<1>2. CASE Send(q)
  BY <1>2, <1>a, ContinueHarmless, DeleteHarmless DEF Send, Ends
<1>3. CASE WriteParticipant(q)
  <2>1. req[q].op = "dispose" /\ trx[q].pc = "write" /\ Update(q, req[q].id, trx[q].value, Over("send"), {})
    BY <1>3 DEF WriteParticipant, At
  <2>2. req[q].id \in DOMAIN db => trx[q].value.owner = db[req[q].id].owner
    BY <1>b, <2>1 DEF TrxOK, DisposeOK, SameReferences
  <2> QED
    BY <1>a, <2>1, <2>2, UpdateHarmless
<1>4. CASE revertDispose(q)
  <2> DEFINE r == req[q].id
             row == [db[r] EXCEPT !.state = "active", !.pending = 0]
  <2>1. /\ req[q].op = "dispose"
        /\ \/ Continue(q, Over("done"))
           \/ r \in DOMAIN db /\ Update(q, r, row, Over("internal"), {})
           \/ Rollback(q, "internal")
    BY <1>4 DEF revertDispose, At
  <2>2. r \in DOMAIN db => row.owner = db[r].owner
    <3>1. r \in DOMAIN db => IsParticipant(db[r])
      BY <2>1, RequestFacts, RowTypes DEF RInv, RowsOK, IsRequest
    <3> QED
      BY <3>1 DEF IsParticipant
  <2> HIDE DEF row
  <2> QED
    BY <1>a, <2>1, <2>2, ContinueHarmless, UpdateHarmless, RollbackHarmless DEF Ends
<1>5. CASE PatchTenant(q)
  <2>1. req[q].op = "patchTenant" /\ trx[q].pc = "write"
        /\ \E added : Update(q, req[q].id, trx[q].value, Over("done"), added)
    BY <1>5 DEF PatchTenant, At
  <2>2. req[q].id \in DOMAIN db => trx[q].value.owner = db[req[q].id].owner
    BY <1>b, <2>1 DEF TrxOK, PatchOK
  <2> QED
    BY <1>a, <2>1, <2>2, UpdateHarmless
<1> QED
  BY <1>1, <1>2, <1>3, <1>4, <1>5

\* Steps that write other rows, or delete.
LEMMA OthersHarmless ==
  ASSUME RInv, NEW q \in DOMAIN trx,
         \/ RecordExternalDeployment(q) \/ CreateProfile(q) \/ DeployProfile(q)
         \/ DeleteRow(q) \/ StoreDefinition(q) \/ DeleteActivityDefinition(q) \/ CommitDeletions(q)
  PROVE  Harmless(q)
<1>a. Over("done").pc = "done" /\ "done" \notin Early
  BY OverIs DEF Early
<1>b. IsRequest(req[q]) /\ TrxOK(q, trx[q])
  BY RequestFacts DEF RInv
<1>1. CASE RecordExternalDeployment(q) \/ CreateProfile(q)
  <2>a. At(q, "createCell", "begin") \/ At(q, "createProfile", "begin")
    BY <1>1, Zenon DEF RecordExternalDeployment, CreateProfile
  <2>1. Creates(req[q]) /\ trx[q].pc \in Early
    BY <2>a DEF At, Creates, Early
  <2>2. (\E value : Create(q, req[q].id, value, Over("done"))) \/ Rollback(q, "internal")
    BY <1>1, Zenon DEF RecordExternalDeployment, CreateProfile
  <2> QED
    BY <1>a, <2>1, <2>2, CreateHarmless, RollbackHarmless DEF Ends
<1>2. CASE DeployProfile(q)
  <2>1. req[q].op = "deployProfile" /\ \E added : Update(q, req[q].id, trx[q].value, Over("done"), added)
    BY <1>2 DEF DeployProfile, At
  <2>2. ~Creates(req[q]) /\ ~Owned(req[q].id)
    BY <1>b, <2>1 DEF IsRequest, Owned, Creates
  <2> QED
    BY <2>1, <2>2, UpdateHarmless
<1>3. CASE DeleteRow(q) \/ DeleteActivityDefinition(q) \/ CommitDeletions(q)
  <2>1. \E rows : \E error \in Ends : Delete(q, rows, "done", error)
    <3>1. "notFound" \in Ends /\ "client" \in Ends
      BY DEF Ends
    <3> QED
      BY <1>3, <3>1, CommitDeletes, Zenon DEF DeleteRow, DeleteActivityDefinition
  <2> QED
    BY <2>1, DeleteHarmless DEF Ends
<1>4. CASE StoreDefinition(q)
  <2> DEFINE r == trx[q].value.def
  <2>1. /\ req[q].op \in {"createODef", "createADef"} /\ trx[q].pc \in {"update", "insert"}
        /\ \E value, t : Update(q, r, value, t, {}) \/ Create(q, r, value, t)
    BY <1>4, Zenon DEF StoreDefinition
  <2>2. TableOf[r] \in {"odef", "adef"}
    BY <1>b, <2>1 DEF TrxOK, DefinitionOK, IsRequest, ODefs
  <2>3. ~Creates(req[q]) /\ ~Owned(r)
    BY <2>1, <2>2 DEF Creates, Owned
  <2> HIDE DEF r
  <2> QED
    BY <2>1, <2>3, UpdateHarmless, CreateHarmless
<1> QED
  BY <1>1, <1>2, <1>3, <1>4

LEMMA StepHarmless ==
  ASSUME RInv, NEW q \in DOMAIN trx, Step(q)
  PROVE  Harmless(q)
  BY ReadingHarmless, OwnedHarmless, OthersHarmless DEF Step

-----------------------------------------------------------------------------
\* The rows that a restricted query selects are the caller's.

\* The condition that TenantAccess.Restrict adds.
OfOwner(s) == Eq(<<"owner">>, Str(s))
OwnerTest(s) == Test("owner", <<>>, "column", "=", <<Str(s)>>)

LEMMA OwnerSQL ==
  ASSUME NEW kind, NEW s
  PROVE  /\ OfOwner(s).kind = "atom"
         /\ buildSimplePredicateSQL(Table(kind), OfOwner(s)) = OwnerTest(s)
<1> DEFINE t == Table(kind)
           p == OfOwner(s)
<1>1. /\ p.kind = "atom" /\ p.field = <<"owner">> /\ p.op = "=" /\ p.value = Str(s)
      /\ Head(p.field) = "owner" /\ Len(p.field) = 1 /\ p.field[1] = "owner"
  BY DEF OfOwner, Eq, Atom
<1>2. "owner" \notin DOMAIN t.types /\ "owner" \notin DOMAIN t.mappings
  BY DEF Table, TenantTable, ParticipantTable
<1>3. Params(p) = <<Str(s)>>
  BY <1>1 DEF Params
<1>4. Column(t, "owner") = "owner"
  BY <1>2 DEF Column
<1> HIDE DEF t, p
<1>5. buildSimplePredicateSQL(t, p) = buildStandardPredicateSQL(t, p)
  BY <1>1, <1>2 DEF buildSimplePredicateSQL
<1>6. buildStandardPredicateSQL(t, p) = OwnerTest(s)
  BY <1>1, <1>3, <1>4 DEF buildStandardPredicateSQL, OwnerTest
<1> QED
  BY <1>1, <1>5, <1>6 DEF t, p

LEMMA RecordColumn ==
  ASSUME NEW e, NEW t, NEW f \in DOMAIN e, \A g \in DOMAIN e : Column(t, g) = Column(t, f) => g = f
  PROVE  LET row == [c \in {Column(t, g) : g \in DOMAIN e} |-> e[CHOOSE g \in DOMAIN e : Column(t, g) = c]]
         IN  Column(t, f) \in DOMAIN row /\ row[Column(t, f)] = e[f]
<1>1. (CHOOSE g \in DOMAIN e : Column(t, g) = Column(t, f)) = f
  OBVIOUS
<1> QED
  BY <1>1

LEMMA OwnerOfRecord ==
  ASSUME RInv, NEW r \in DOMAIN db, db[r].kind \in {"tenant", "participant"}
  PROVE  "owner" \in DOMAIN Record(r) /\ Record(r)["owner"] = Str(db[r].owner)
<1> DEFINE e == Entity(r)
           t == Table(db[r].kind)
<1>1. "owner" \in DOMAIN e /\ e["owner"] = Str(db[r].owner)
  BY DEF Entity, TenantEntity, ParticipantEntity
<1>2. Column(t, "owner") = "owner" /\ \A g \in DOMAIN e : Column(t, g) = "owner" => g = "owner"
  <2>1. CASE db[r].kind = "tenant"
    BY <2>1 DEF Table, TenantTable, Column
  <2>2. CASE db[r].kind = "participant"
    <3>1. t.mappings = [tenantId |-> "tenant_id", dataspaceProfileIds |-> "dataspace_profile_ids",
                        participantRoles |-> "participant_roles"]
      BY <2>2 DEF Table, ParticipantTable
    <3>2. \A g \in DOMAIN t.mappings : t.mappings[g] # "owner"
      BY <3>1
    <3> HIDE DEF t
    <3> QED
      BY <3>1, <3>2 DEF Column
  <2> QED
    BY <2>1, <2>2
<1> HIDE DEF e, t
<1>3. "owner" \in DOMAIN [c \in {Column(t, g) : g \in DOMAIN e} |-> e[CHOOSE g \in DOMAIN e : Column(t, g) = c]]
      /\ [c \in {Column(t, g) : g \in DOMAIN e} |-> e[CHOOSE g \in DOMAIN e : Column(t, g) = c]]["owner"] = e["owner"]
  BY <1>1, <1>2, RecordColumn
<1>4. Record(r) = [c \in {Column(t, g) : g \in DOMAIN e} |-> e[CHOOSE g \in DOMAIN e : Column(t, g) = c]]
  BY Zenon DEF Record, e, t
<1> QED
  BY <1>1, <1>3, <1>4

LEMMA OwnerTestIs ==
  ASSUME NEW s, NEW x, NEW row, "owner" \in DOMAIN row, row["owner"] = Str(x)
  PROVE  /\ OwnerTest(s).sql = "test"
         /\ EvalTerm(OwnerTest(s), row) = IF x = s THEN "T" ELSE "F"
<1> DEFINE c == OwnerTest(s)
<1>1. /\ c.sql = "test" /\ c.column = "owner" /\ c.path = <<>> /\ c.as = "column" /\ c.op = "="
      /\ c.params = <<Str(s)>>
  BY DEF OwnerTest, Test
<1>2. \A y : Kind(Str(y)) = "str" /\ toString(Str(y)) = y
  BY DEF Kind, Str, toString
<1>3. (\E i \in DOMAIN <<Str(s)>> : toString(<<Str(s)>>[i]) = x) <=> s = x
  BY <1>2
<1>4. TestText(x, "=", <<Str(s)>>) = IF x = s THEN "T" ELSE "F"
  BY <1>3 DEF TestText, ThreeValued
<1> HIDE DEF c
<1>5. AtPath(Str(x), c.path) = Str(x)
  BY <1>1 DEF AtPath
<1>6. EvalTest(Str(x), c) = TestText(toString(Str(x)), c.op, c.params)
  <2>1. /\ c.op # "IS NULL" /\ c.op # "IS NOT NULL" /\ c.as # "json" /\ c.as # "number" /\ c.as # "quoted"
        /\ c.op \notin {"<", "<=", ">", ">="} /\ Kind(Str(x)) # "nil"
    BY <1>1, <1>2
  <2> QED
    BY <1>5, <2>1, Zenon DEF EvalTest
<1>7. EvalTerm(c, row) = EvalTest(row["owner"], c)
  BY <1>1 DEF EvalTerm
<1> QED
  BY <1>1, <1>2, <1>4, <1>6, <1>7 DEF c

\* A caller with a subject owns what its subject is the owner of.
HasSubject(by) == by.subject # ""

LEMMA OwnerIsAllowed ==
  ASSUME NEW by, HasSubject(by), NEW owner, owner = by.subject
  PROVE  Allows(by, owner)
  BY Zenon DEF HasSubject, Allows

LEMMA RestrictedIsOwn ==
  ASSUME RInv, NEW q \in DOMAIN trx, IsRestricted(req[q].by), HasSubject(req[q].by),
         req[q].kind \in {"tenant", "participant"},
         NEW p, NEW pred, pred = RestrictTo(req[q].by, p),
         NEW r \in Rows(req[q].kind), Where(q, pred, r, "T")
  PROVE  Allows(req[q].by, db[r].owner)
<1> DEFINE t == Table(req[q].kind)
           s == req[q].by.subject
           row == Record(r)
           own == OwnerTest(s)
<1>1. r \in DOMAIN db /\ db[r].kind = req[q].kind
  BY DEF Rows
<1>2. "owner" \in DOMAIN row /\ row["owner"] = Str(db[r].owner)
  BY <1>1, OwnerOfRecord
<1>3. own.sql = "test" /\ EvalTerm(own, row) = IF db[r].owner = s THEN "T" ELSE "F"
  BY <1>2, OwnerTestIs
<1>4. OfOwner(s).kind = "atom" /\ buildSimplePredicateSQL(t, OfOwner(s)) = own
  BY OwnerSQL
<1>5. pred = OfOwner(s) \/ pred = And(<<p, OfOwner(s)>>)
  BY DEF RestrictTo, OfOwner
<1>6. Eval(buildSQL(t, pred), row) = "T"
  BY Zenon DEF Where
<1> HIDE DEF t, s, row, own
<1> DEFINE v == EvalTerm(own, row)
<1>7. v \in {"T", "F"} /\ buildPart(t, OfOwner(s)) = own /\ EvalPart(own, row) = v
  <2>1. Preds(OfOwner(s)) = <<OfOwner(s)>>
    BY <1>4 DEF Preds
  <2>2. buildPart(t, OfOwner(s)) = own
    BY <1>4, <2>1 DEF buildPart, buildCompoundPredicateSQL
  <2>3. EvalPart(own, row) = EvalJoin("AND", {v})
    BY <1>3 DEF EvalPart, JoinOp, Parts
  <2> QED
    BY <1>3, <2>2, <2>3 DEF EvalJoin
<1>8. CASE pred = OfOwner(s)
  <2>1. Preds(pred) = <<OfOwner(s)>>
    BY <1>4, <1>8 DEF Preds
  <2>2. buildSQL(t, pred) = own
    BY <1>7, <2>1 DEF buildSQL, buildCompoundPredicateSQL
  <2>3. Eval(own, row) = EvalJoin("AND", {v})
    BY <1>3, <1>7 DEF Eval, JoinOp, Parts
  <2>4. v = "T"
    BY <1>6, <1>7, <2>2, <2>3 DEF EvalJoin
  <2> QED
    BY <1>3, <2>4, OwnerIsAllowed DEF s
<1>9. CASE pred = And(<<p, OfOwner(s)>>)
  <2> DEFINE ps == <<p, OfOwner(s)>>
             parts == [i \in DOMAIN ps |-> buildPart(t, ps[i])]
             c == [sql |-> "join", op |-> "AND", parts |-> parts]
             vs == {EvalPart(x, row) : x \in ToSet(parts)}
  <2>1. Preds(pred) = ps /\ pred.op = "AND" /\ ps # <<>> /\ Len(ps) = 2
    BY <1>9 DEF And, Preds
  <2>2. DOMAIN parts = 1..2 /\ parts[2] = own
    BY <1>7
  <2>3. v \in vs
    BY <1>7, <2>2 DEF ToSet
  <2>4. buildSQL(t, pred) = c
    BY <2>1 DEF buildSQL, buildCompoundPredicateSQL
  <2>5. Eval(c, row) = EvalJoin("AND", vs)
    BY DEF Eval, JoinOp, Parts
  <2>6. "F" \notin vs
    BY <1>6, <2>4, <2>5 DEF EvalJoin
  <2> QED
    BY <1>3, <1>7, <2>3, <2>6, OwnerIsAllowed DEF s
<1> QED
  BY <1>5, <1>8, <1>9

-----------------------------------------------------------------------------
\* What every step leaves alone.

\* No step gives a row another owner, or creates one but for a request that is still to do so.
Tame ==
  /\ req' = req /\ DOMAIN trx' = DOMAIN trx
  /\ \A r \in DOMAIN db' : Owned(r) =>
       IF r \in DOMAIN db THEN db'[r].owner = db[r].owner
       ELSE \E p \in DOMAIN trx : Creates(req[p]) /\ trx[p].pc \in Early /\ r = req[p].id
  /\ \A p \in DOMAIN trx : Creates(req[p]) /\ trx'[p].pc \in Early => trx[p].pc \in Early

\* The transactions are where they were.
PcsStay == DOMAIN trx' = DOMAIN trx /\ \A p \in DOMAIN trx : trx'[p].pc = trx[p].pc

LEMMA HarmlessIsTame ==
  ASSUME NEW q \in DOMAIN trx, Harmless(q)
  PROVE  Tame
  BY DEF Harmless, OnlyMoves, OwnersStay, Tame

LEMMA RespondIsTame ==
  ASSUME RInv, NEW r \in DOMAIN db, Respond(r)
  PROVE  Tame /\ PcsStay
<1>1. /\ TableOf[r] = "participant" /\ IsParticipant(db[r]) /\ req' = req
      /\ trx' = [q \in DOMAIN trx |-> Outdated(trx[q], {r})]
  BY RowsByTable, RowTypes DEF RInv, RowsOK, Respond
<1>2. PICK s \in {"active", "error", "disposed"}, answered \in BOOLEAN :
        db' = [db EXCEPT ![r].state = s, ![r].pending = IF answered THEN 0 ELSE @]
  BY DEF Respond
<1>3. DOMAIN db' = DOMAIN db /\ \A x \in DOMAIN db : db'[x].owner = db[x].owner
  <2> DEFINE pending == IF answered THEN 0 ELSE db[r].pending
             row == [db[r] EXCEPT !.state = s, !.pending = pending]
  <2>1. db' = [db EXCEPT ![r] = row]
    BY <1>2
  <2>2. row.owner = db[r].owner
    BY <1>1 DEF IsParticipant
  <2> HIDE DEF row
  <2> QED
    BY <2>1, <2>2
<1>4. PcsStay
  <2> SUFFICES ASSUME NEW q \in DOMAIN trx PROVE trx'[q].pc = trx[q].pc
    BY <1>1 DEF PcsStay
  <2>1. trx'[q] = Outdated(trx[q], {r}) /\ IsTrx(trx[q])
    BY <1>1 DEF RInv, LocksOK
  <2> QED
    BY <2>1 DEF Outdated, IsTrx
<1> QED
  BY <1>1, <1>3, <1>4 DEF Tame, PcsStay

\* A request that reads, is refused, cut off or aborted.
LEMMA ReadHarmless ==
  ASSUME RInv, NEW q \in DOMAIN trx, Read(q) \/ Refuse(q) \/ Truncate(q) \/ Abort(q)
  PROVE  Harmless(q)
<1>a. \A how \in Ends \union {"rows", "page"} : Over(how).pc = how /\ how \notin Early
  BY OverIs DEF Ends, Early
<1>1. CASE \E how \in Ends \union {"rows", "page"} : Continue(q, Over(how))
  BY <1>a, <1>1, ContinueHarmless
<1>2. CASE LookUpTenant(q)
  <2>1. ~Creates(req[q]) /\ ((\E t : Continue(q, t)) \/ Rollback(q, "notFound"))
    BY <1>2 DEF LookUpTenant, At, Fails, Creates
  <2> QED
    BY <2>1, ContinueHarmless, RollbackHarmless DEF Ends
<1>3. CASE Abort(q)
  BY <1>3, RollbackHarmless DEF Abort, Ends
<1> QED
  BY <1>1, <1>2, <1>3, ReadMoves, EndsEarly

\* The steps of one request.
ActsOf(q) == Serve(q) \/ Truncate(q) \/ (~Pages(q) /\ Abort(q) /\ Watched)

LEMMA ActsAreHarmless ==
  ASSUME RInv, NEW q \in DOMAIN trx, ActsOf(q)
  PROVE  Harmless(q)
  BY ReadHarmless, StepHarmless DEF ActsOf, Serve

LEMMA ApiIsTame ==
  ASSUME RInv, [ApiNext]_apiVars
  PROVE  Tame
<1>1. CASE UNCHANGED apiVars
  BY <1>1 DEF apiVars, Tame
<1>2. CASE \E q \in DOMAIN trx : ActsOf(q)
  BY <1>2, ActsAreHarmless, HarmlessIsTame
<1>3. CASE \E r \in DOMAIN db : Respond(r)
  BY <1>3, RespondIsTame
<1>4. CASE \E r \in DOMAIN db : Indexed(r)
  BY <1>4 DEF Indexed, Tame
<1> QED
  BY <1>1, <1>2, <1>3, <1>4 DEF ApiNext, ActsOf

-----------------------------------------------------------------------------
\* Sequences, and the order of a page.

LEMMA SequenceIs ==
  ASSUME NEW S, NEW s \in Seq(S)
  PROVE  Len(s) \in Nat /\ DOMAIN s = 1..Len(s) /\ s \in Seq(ToSet(s)) /\ ToSet(s) \subseteq S
<1>1. Len(s) \in Nat /\ DOMAIN s = 1..Len(s) /\ s \in [1..Len(s) -> ToSet(s)]
  BY DEF ToSet
<1> QED
  BY <1>1, SMTT(30) DEF ToSet

LEMMA SequenceOfAll ==
  ASSUME NEW S, IsFiniteSet(S)
  PROVE  SetToSeq(S) \in Seq(S) /\ ToSet(SetToSeq(S)) = S
<1> DEFINE n == Cardinality(S)
           s == SetToSeq(S)
<1>1. n \in Nat /\ \E f \in [1..n -> S] : IsInjective(f)
  <2>1. PICK f : f \in Bijection(1..n, S)
    BY FS_CardinalityType DEF ExistsBijection
  <2> QED
    BY <2>1, FS_CardinalityType DEF Bijection, Injection, IsInjective
<1>2. s \in [1..n -> S] /\ IsInjective(s)
  BY <1>1 DEF SetToSeq
<1> HIDE DEF s
<1>3. s \in Injection(1..n, S)
  BY <1>2 DEF Injection, IsInjective
<1>4. IsFiniteSet(1..n) /\ Cardinality(1..n) = n
  BY <1>1, FS_Interval
<1>5. s \in Surjection(1..n, S)
  BY <1>3, <1>4, FS_Injection
<1>6. s \in Seq(S) /\ ToSet(s) = S
  BY <1>1, <1>2, <1>5 DEF Surjection, ToSet
<1> QED
  BY <1>6 DEF s

\* u is s with t after it.
Joins(u, s, t) == u = s \o t

LEMMA Appending ==
  ASSUME NEW S, NEW s \in Seq(S), NEW T, NEW t \in Seq(T)
  PROVE  /\ s \o t \in Seq(S \union T) /\ Len(s \o t) = Len(s) + Len(t)
         /\ \A i \in 1..Len(s) : (s \o t)[i] = s[i]
         /\ \A i \in 1..Len(t) : (s \o t)[Len(s) + i] = t[i]
         /\ ToSet(s \o t) = ToSet(s) \union ToSet(t)
<1>1. s \in Seq(S \union T) /\ t \in Seq(S \union T)
  OBVIOUS
<1>2. /\ s \o t \in Seq(S \union T) /\ Len(s \o t) = Len(s) + Len(t) /\ Len(s) \in Nat /\ Len(t) \in Nat
      /\ \A i \in 1..Len(s) : (s \o t)[i] = s[i]
      /\ \A i \in 1..Len(t) : (s \o t)[Len(s) + i] = t[i]
      /\ DOMAIN s = 1..Len(s) /\ DOMAIN t = 1..Len(t) /\ DOMAIN (s \o t) = 1..Len(s \o t)
  BY <1>1
<1> DEFINE u == s \o t
<1> HIDE DEF u
<1>3. ToSet(u) \subseteq ToSet(s) \union ToSet(t)
  <2> SUFFICES ASSUME NEW i \in 1..Len(u) PROVE u[i] \in ToSet(s) \union ToSet(t)
    BY <1>2 DEF ToSet, u
  <2>1. CASE i <= Len(s)
    BY <1>2, <2>1 DEF ToSet, u
  <2>2. CASE i > Len(s)
    <3>1. i - Len(s) \in 1..Len(t) /\ Len(s) + (i - Len(s)) = i
      BY <1>2, <2>2 DEF u
    <3>2. u[i] = t[i - Len(s)]
      BY <1>2, <3>1 DEF u
    <3> QED
      BY <1>2, <3>1, <3>2 DEF ToSet
  <2> QED
    BY <1>2, <2>1, <2>2 DEF u
<1>4. ToSet(s) \subseteq ToSet(u)
  <2> SUFFICES ASSUME NEW i \in 1..Len(s) PROVE s[i] \in ToSet(u)
    BY <1>2 DEF ToSet
  <2>1. i \in DOMAIN u /\ u[i] = s[i]
    BY <1>2 DEF u
  <2> QED
    BY <2>1 DEF ToSet
<1>5. ToSet(t) \subseteq ToSet(u)
  <2> SUFFICES ASSUME NEW i \in 1..Len(t) PROVE t[i] \in ToSet(u)
    BY <1>2 DEF ToSet
  <2>1. Len(s) + i \in DOMAIN u /\ u[Len(s) + i] = t[i]
    BY <1>2 DEF u
  <2> QED
    BY <2>1 DEF ToSet
<1> QED
  BY <1>2, <1>3, <1>4, <1>5 DEF u

\* The same, of a sequence known to be the concatenation.
LEMMA Concatenation ==
  ASSUME NEW S, NEW s \in Seq(S), NEW T, NEW t \in Seq(T), NEW u, Joins(u, s, t)
  PROVE  /\ u \in Seq(S \union T) /\ Len(u) = Len(s) + Len(t) /\ Len(s) \in Nat
         /\ \A i \in 1..Len(s) : u[i] = s[i]
         /\ \A i \in 1..Len(t) : u[Len(s) + i] = t[i]
         /\ ToSet(u) = ToSet(s) \union ToSet(t)
<1>1. /\ s \o t \in Seq(S \union T) /\ Len(s \o t) = Len(s) + Len(t)
      /\ \A i \in 1..Len(s) : (s \o t)[i] = s[i]
      /\ \A i \in 1..Len(t) : (s \o t)[Len(s) + i] = t[i]
      /\ ToSet(s \o t) = ToSet(s) \union ToSet(t)
  BY Appending, ZenonT(60)
<1>2. u = s \o t /\ Len(s) \in Nat
  BY DEF Joins
<1> QED
  BY <1>1, <1>2, Zenon

LEMMA EarlierIsOrder ==
  /\ \A x, y : Earlier(x, y) => ~Earlier(y, x)
  /\ \A x, y, z : Earlier(x, y) /\ Earlier(y, z) => Earlier(x, z)
  /\ \A x, y \in ToSet(Order) : x = y \/ Earlier(x, y) \/ Earlier(y, x)
<1>1. Len(Order) \in Nat /\ DOMAIN Order = 1..Len(Order)
  BY ApiAssumption
<1>2. \A i, j \in DOMAIN Order : Order[i] = Order[j] => i = j
  BY ApiAssumption DEF IsInjective
<1> QED
  BY <1>1, <1>2 DEF Earlier, ToSet

LEMMA PlaceGrows ==
  ASSUME NEW T, IsFiniteSet(T), NEW S \in SUBSET T, NEW r
  PROVE  Place(r, S) \in Nat /\ Place(r, T) \in Nat /\ Place(r, S) <= Place(r, T)
<1> DEFINE A == {x \in S : Earlier(x, r)}
           B == {x \in T : Earlier(x, r)}
<1>1. IsFiniteSet(B) /\ A \in SUBSET B
  BY FS_Subset
<1>2. IsFiniteSet(A) /\ Cardinality(A) <= Cardinality(B)
  BY <1>1, FS_Subset
<1> QED
  BY <1>1, <1>2, FS_CardinalityType DEF Place

\* The rows that come before a row.
Ahead(r, S) == {x \in S : Earlier(x, r)}

LEMMA PlaceIs ==
  ASSUME NEW S, IsFiniteSet(S), S \subseteq ToSet(Order)
  PROVE  /\ Cardinality(S) \in Nat
         /\ \A r \in S : Place(r, S) \in Nat /\ Place(r, S) < Cardinality(S)
         /\ \A x, y \in S : Earlier(x, y) <=> Place(x, S) < Place(y, S)
         /\ \A k \in 1..Cardinality(S) : \E r \in S : Place(r, S) = k - 1
<1> DEFINE n == Cardinality(S)
<1>1. n \in Nat
  BY FS_CardinalityType
<1>2. \A r : Ahead(r, S) \in SUBSET S /\ IsFiniteSet(Ahead(r, S)) /\ Place(r, S) = Cardinality(Ahead(r, S)) /\ Place(r, S) \in Nat
  <2> SUFFICES ASSUME NEW r
               PROVE  /\ Ahead(r, S) \in SUBSET S /\ IsFiniteSet(Ahead(r, S))
                      /\ Place(r, S) = Cardinality(Ahead(r, S)) /\ Place(r, S) \in Nat
    OBVIOUS
  <2>1. Ahead(r, S) \in SUBSET S /\ Place(r, S) = Cardinality(Ahead(r, S))
    BY DEF Ahead, Place
  <2>2. IsFiniteSet(Ahead(r, S))
    BY <2>1, FS_Subset
  <2> QED
    BY <2>1, <2>2, FS_CardinalityType
<1> HIDE DEF n
<1>3. ASSUME NEW x \in S, NEW T, T \in SUBSET S, IsFiniteSet(T), Ahead(x, S) \union {x} \subseteq T
      PROVE  Place(x, S) < Cardinality(T)
  <2>1. x \notin Ahead(x, S)
    BY EarlierIsOrder DEF Ahead
  <2>2. IsFiniteSet(Ahead(x, S) \union {x}) /\ Cardinality(Ahead(x, S) \union {x}) = Place(x, S) + 1
    BY <1>2, <2>1, FS_AddElement
  <2>3. Cardinality(Ahead(x, S) \union {x}) <= Cardinality(T) /\ Cardinality(T) \in Nat
    BY <1>3, FS_Subset, FS_CardinalityType
  <2> QED
    BY <1>2, <2>2, <2>3
<1>4. \A r \in S : Place(r, S) < n
  BY <1>2, <1>3 DEF n
<1>5. ASSUME NEW x \in S, NEW y \in S, Earlier(x, y)
      PROVE  Place(x, S) < Place(y, S)
  <2>1. Ahead(x, S) \union {x} \subseteq Ahead(y, S)
    BY <1>5, EarlierIsOrder DEF Ahead
  <2>2. Ahead(y, S) \in SUBSET S /\ IsFiniteSet(Ahead(y, S)) /\ Place(y, S) = Cardinality(Ahead(y, S))
    BY <1>2
  <2> QED
    BY <1>3, <2>1, <2>2
<1>6. ASSUME NEW x \in S, NEW y \in S
      PROVE  Earlier(x, y) <=> Place(x, S) < Place(y, S)
  <2>1. x = y \/ Earlier(x, y) \/ Earlier(y, x)
    BY EarlierIsOrder
  <2>2. Place(x, S) \in Nat /\ Place(y, S) \in Nat
    BY <1>2
  <2>3. Earlier(x, y) => Place(x, S) < Place(y, S)
    BY <1>5
  <2>4. Earlier(y, x) => Place(y, S) < Place(x, S)
    BY <1>5
  <2> QED
    BY <2>1, <2>2, <2>3, <2>4
<1>7. ASSUME NEW k \in 1..n
      PROVE  \E r \in S : Place(r, S) = k - 1
  <2> DEFINE f == [r \in S |-> Place(r, S) + 1]
  <2>1. f \in [S -> 1..n]
    BY <1>1, <1>2, <1>4
  <2>2. \A x, y \in S : f[x] = f[y] => x = y
    <3> SUFFICES ASSUME NEW x \in S, NEW y \in S, Place(x, S) = Place(y, S) PROVE x = y
      <4>1. \A x \in S : f[x] = Place(x, S) + 1 /\ Place(x, S) \in Nat
        BY <1>2
      <4> HIDE DEF f
      <4> QED
        BY <4>1
    <3>1. x = y \/ Earlier(x, y) \/ Earlier(y, x)
      BY EarlierIsOrder
    <3> QED
      BY <1>2, <1>6, <3>1
  <2>a. \A x \in S : f[x] = Place(x, S) + 1
    OBVIOUS
  <2> HIDE DEF f
  <2>3. f \in Injection(S, 1..n)
    BY <2>1, <2>2 DEF Injection, IsInjective
  <2>4. IsFiniteSet(1..n) /\ Cardinality(1..n) = n
    BY <1>1, FS_Interval
  <2>5. f \in Surjection(S, 1..n)
    BY <2>3, <2>4, FS_Injection DEF n
  <2>6. PICK r \in S : f[r] = k
    BY <2>5 DEF Surjection
  <2>7. Place(r, S) + 1 = k
    BY <2>6, <2>a
  <2> QED
    BY <1>1, <1>2, <2>7
<1> QED
  BY <1>1, <1>2, <1>4, <1>6, <1>7 DEF n

\* What is sorted has each row, at its place.
LEMMA SortedIs ==
  ASSUME NEW S, IsFiniteSet(S), S \subseteq ToSet(Order)
  PROVE  /\ Sorted(S) \in Seq(S) /\ Len(Sorted(S)) = Cardinality(S) /\ Cardinality(S) \in Nat
         /\ \A k \in 1..Cardinality(S) : Sorted(S)[k] \in S /\ Place(Sorted(S)[k], S) = k - 1
         /\ \A r \in S : Place(r, S) + 1 \in 1..Cardinality(S) /\ Sorted(S)[Place(r, S) + 1] = r
         /\ ToSet(Sorted(S)) = S
<1> DEFINE n == Cardinality(S)
           s == Sorted(S)
<1>1. n \in Nat
  BY PlaceIs
<1>2. s = [k \in 1..n |-> CHOOSE r \in S : Place(r, S) = k - 1]
  BY DEF Sorted
<1> HIDE DEF n, s
<1>3. \A k \in 1..n : s[k] \in S /\ Place(s[k], S) = k - 1
  BY <1>2, PlaceIs DEF n
<1>4. s \in [1..n -> S]
  BY <1>2, <1>3
<1>5. s \in Seq(S) /\ Len(s) = n
  BY <1>1, <1>4
<1>6. ASSUME NEW r \in S
      PROVE  Place(r, S) + 1 \in 1..n /\ s[Place(r, S) + 1] = r
  <2> DEFINE k == Place(r, S) + 1
  <2>1. Place(r, S) \in Nat /\ k \in 1..n
    BY <1>1, PlaceIs DEF n
  <2>2. s[k] \in S /\ Place(s[k], S) = Place(r, S)
    BY <1>3, <2>1
  <2>3. s[k] = r \/ Earlier(s[k], r) \/ Earlier(r, s[k])
    BY <2>2, EarlierIsOrder
  <2>4. Earlier(s[k], r) => Place(s[k], S) < Place(r, S)
    BY <2>2, PlaceIs
  <2>5. Earlier(r, s[k]) => Place(r, S) < Place(s[k], S)
    BY <2>2, PlaceIs
  <2> QED
    BY <2>1, <2>2, <2>3, <2>4, <2>5
<1>7. ToSet(s) = S
  BY <1>3, <1>4, <1>6 DEF ToSet
<1> QED
  BY <1>1, <1>3, <1>5, <1>6, <1>7 DEF n, s

-----------------------------------------------------------------------------
\* A restricted caller sees what is its own: the invariant.

\* A response has its parts.
IsResponse(h) ==
  /\ DOMAIN h = {"items", "total", "offset", "last", "cut", "mine", "stays", "changes"}
  /\ h.items \in Seq(ToSet(h.items)) /\ h.total \in Nat /\ h.offset \in Nat

HttpOK == DOMAIN http = DOMAIN trx /\ \A q \in DOMAIN trx : IsResponse(http[q])

\* Only what is admitted is served.
AdmittedOK == \A q \in DOMAIN trx : trx[q].pc \notin {"begin", "refused"} => Admitted(q)

\* Pages are sorted by Order.
OrderOK == \A r \in DOMAIN db : Owned(r) => r \in ToSet(Order)

\* If there is a row r, or will be, the caller of q may know of it.
MayKnow(q, r) ==
  /\ r \in DOMAIN db /\ Owned(r) => Allows(req[q].by, db[r].owner)
  /\ \A p \in DOMAIN trx : Creates(req[p]) /\ trx[p].pc \in Early => req[p].id # r

\* What a request showed, or did not deny.
Found(q) == IF trx[q].pc \in {"begin", "refused", "notFound"} THEN {} ELSE Named(req[q])

VisibleOK ==
  \A q \in DOMAIN trx : IsRestricted(req[q].by) =>
    /\ \A r \in ToSet(http[q].items) \union Found(q) : MayKnow(q, r)
    /\ http[q].total <= Cardinality(http[q].mine)

SInv == RInv /\ HttpOK /\ AdmittedOK /\ OrderOK /\ VisibleOK

\* What Api says of the requests.
LEMMA ApiRequestFacts ==
  ASSUME RequestsOK, NEW q \in DOMAIN trx
  PROVE  LET r == req[q]
         IN  /\ r.op = "list" => r.kind = "tenant" /\ r.limit \in Nat \ {0}
             /\ r.op = "query" => r.kind \in {"tenant", "participant"} /\ r.limit \in Nat
             /\ r.op = "profilesOf" => r.kind = "participant" /\ TableOf[r.id] = "tenant"
             /\ r.op = "getTenant" => TableOf[r.id] = "tenant"
             /\ r.op = "getParticipant" => TableOf[r.id] = "participant"
             /\ r.op = "getProfile" => TableOf[r.id] = "dprofile"
  BY ApiAssumption DEF RequestsOK

\* Rows a request that asks for its own may get to see.
Reachable(q) == {r \in DOMAIN db : Owned(r) /\ IsRestricted(req[q].by) => Allows(req[q].by, db[r].owner)}

\* A row that is there now, and that its owner's request reaches, may be known from now on.
LEMMA ReachableIsKnown ==
  ASSUME RInv, NEW q \in DOMAIN trx, IsRestricted(req[q].by), NEW r \in Reachable(q)
  PROVE  MayKnow(q, r)
<1>1. r \in DOMAIN db /\ (Owned(r) => Allows(req[q].by, db[r].owner))
  BY DEF Reachable
<1> QED
  BY <1>1 DEF MayKnow, RInv, Fresh

LEMMA KnownStays ==
  ASSUME Tame, NEW q \in DOMAIN trx, NEW r, MayKnow(q, r)
  PROVE  MayKnow(q, r)'
<1>1. \A p \in DOMAIN trx' : Creates(req[p])' /\ trx'[p].pc \in Early => req'[p].id # r
  BY DEF Tame, MayKnow, Creates
<1>2. r \in DOMAIN db' /\ Owned(r) => r \in DOMAIN db /\ db'[r].owner = db[r].owner
  BY DEF Tame, MayKnow
<1>3. r \in DOMAIN db' /\ Owned(r) => Allows(req'[q].by, db'[r].owner)
  BY <1>2 DEF Tame, MayKnow
<1> QED
  BY <1>1, <1>3 DEF MayKnow, Owned

\* Mine(q): the rows of the caller, of the kind that the request asks for.
Mine(q) == {r \in Rows(req[q].kind) : Allows(req[q].by, db[r].owner)}

LEMMA RowsAreFinite ==
  ASSUME RowsOK, NEW kind, NEW S, S \subseteq Rows(kind)
  PROVE  IsFiniteSet(S) /\ Cardinality(S) \in Nat
<1>1. S \in SUBSET DOMAIN db
  BY DEF Rows
<1> QED
  BY <1>1, FS_Subset, FS_CardinalityType DEF RowsOK

LEMMA RestrictedRows ==
  ASSUME RInv, NEW q \in DOMAIN trx, IsRestricted(req[q].by), HasSubject(req[q].by),
         req[q].kind \in {"tenant", "participant"}, NEW p
  PROVE  /\ RowsWhere(q, RestrictTo(req[q].by, p)) \subseteq Mine(q)
         /\ Cardinality(RowsWhere(q, RestrictTo(req[q].by, p))) <= Cardinality(Mine(q))
<1> DEFINE S == RowsWhere(q, RestrictTo(req[q].by, p))
<1>1. S \subseteq Mine(q)
  <2> SUFFICES ASSUME NEW r \in S PROVE r \in Mine(q)
    OBVIOUS
  <2>1. r \in Rows(req[q].kind) /\ Where(q, RestrictTo(req[q].by, p), r, "T")
    BY DEF RowsWhere
  <2>2. Allows(req[q].by, db[r].owner)
    BY <2>1, RestrictedIsOwn
  <2> QED
    BY <2>1, <2>2 DEF Mine
<1>2. IsFiniteSet(Mine(q))
  BY RowsAreFinite DEF RInv, Mine
<1> QED
  BY <1>1, <1>2, FS_Subset

\* The rows that a request selects are of the kind that it asks for, and its caller's.
LEMMA SelectedIs ==
  ASSUME RInv, NEW q \in DOMAIN trx, req[q].op \in {"list", "query", "profilesOf"}, Admitted(q)
  PROVE  /\ (IF req[q].op = "list" THEN GetTenants(q) ELSE QueryProfiles(q)) \subseteq Rows(req[q].kind)
         /\ IsRestricted(req[q].by) =>
              (IF req[q].op = "list" THEN GetTenants(q) ELSE QueryProfiles(q)) \subseteq Mine(q)
         /\ GetTenantsCount(q) \in Nat /\ QueryProfilesCount(q) \in Nat
         /\ req[q].op = "list" => GetTenantsCount(q) = Cardinality(GetTenants(q))
         /\ QueryProfilesCount(q) = Cardinality(QueryProfiles(q))
         /\ IsRestricted(req[q].by) =>
              (IF req[q].op = "list" THEN GetTenantsCount(q) ELSE QueryProfilesCount(q)) <= Cardinality(Mine(q))
<1>1. req[q].kind \in {"tenant", "participant"} /\ (req[q].op = "list" => req[q].kind = "tenant")
  BY ApiRequestFacts DEF RInv
<1>2. IsRestricted(req[q].by) => HasSubject(req[q].by)
  <2>1. ToTenantManager(req[q])
    BY DEF ToTenantManager
  <2>2. tenantAccess(req[q])
    BY Zenon DEF Admitted
  <2> QED
    BY <2>1, <2>2, Zenon DEF tenantAccess, HasSubject
<1>3. \A p : RowsWhere(q, p) \subseteq Rows(req[q].kind)
  BY DEF RowsWhere
<1>4. \A p : IsRestricted(req[q].by) =>
        /\ RowsWhere(q, RestrictTo(req[q].by, p)) \subseteq Mine(q)
        /\ Cardinality(RowsWhere(q, RestrictTo(req[q].by, p))) <= Cardinality(Mine(q))
  BY <1>1, <1>2, RestrictedRows
<1>5. \A p : Cardinality(RowsWhere(q, p)) \in Nat
  BY <1>3, RowsAreFinite DEF RInv
<1>6. Cardinality(Rows("tenant")) \in Nat
  BY RowsAreFinite DEF RInv
<1> HIDE DEF RowsWhere
<1> QED
  BY <1>1, <1>3, <1>4, <1>5, <1>6 DEF GetTenants, QueryProfiles, GetTenantsCount, QueryProfilesCount

LEMMA SubSeqIs ==
  ASSUME NEW S, NEW s \in Seq(S), NEW m \in Nat \ {0}, NEW n \in Nat, n <= Len(s)
  PROVE  LET u == SubSeq(s, m, n)
         IN  /\ u \in Seq(S) /\ Len(u) = (IF n < m THEN 0 ELSE n - m + 1)
             /\ \A i \in 1..Len(u) : u[i] = s[m + i - 1] /\ m + i - 1 \in 1..Len(s)
<1> DEFINE u == SubSeq(s, m, n)
<1>1. Len(s) \in Nat /\ \A i \in 1..Len(s) : s[i] \in S
  OBVIOUS
<1>2. CASE n < m
  BY <1>2
<1>3. CASE n >= m
  <2>1. Len(u) = n - m + 1 /\ \A i \in 1..(n - m + 1) : u[i] = s[m + i - 1]
    BY <1>1, <1>3
  <2> QED
    BY <1>1, <1>3, <2>1
<1> QED
  BY <1>2, <1>3

LEMMA LimitIs ==
  ASSUME RequestsOK, NEW q \in DOMAIN trx, Pages(q)
  PROVE  Limit(req[q]) \in Nat \ {0}
  BY ApiRequestFacts, ApiAssumption DEF Pages, Limit

\* A page, and what it is a part of.
LEMMA PageIs ==
  ASSUME RInv, OrderOK, HttpOK, NEW q \in DOMAIN trx, Pages(q), Admitted(q)
  PROVE  /\ IsFiniteSet(Selected(q)) /\ Selected(q) \subseteq ToSet(Order)
         /\ Selected(q) \subseteq Reachable(q)
         /\ Page(q) \in Seq(Selected(q))
         /\ LET offset == http[q].offset
                n == Cardinality(Selected(q))
                end == offset + Limit(req[q])
                last == IF end < n THEN end ELSE n
            IN  /\ n \in Nat
                /\ Len(Page(q)) = (IF last < offset + 1 THEN 0 ELSE last - offset)
                /\ \A i \in 1..Len(Page(q)) : Page(q)[i] = Sorted(Selected(q))[offset + i]
<1>1. req[q].op \in {"list", "query"} /\ req[q].kind \in {"tenant", "participant"}
  BY ApiRequestFacts DEF RInv, Pages
<1>2. Selected(q) \subseteq Rows(req[q].kind) /\ (IsRestricted(req[q].by) => Selected(q) \subseteq Mine(q))
  BY <1>1, SelectedIs DEF Selected
<1>3. IsFiniteSet(Selected(q))
  BY <1>2, RowsAreFinite DEF RInv
<1>4. \A r \in Rows(req[q].kind) : r \in DOMAIN db /\ Owned(r)
  BY <1>1, RowsByTable DEF RInv, Owned
<1>5. Selected(q) \subseteq ToSet(Order)
  BY <1>2, <1>4 DEF OrderOK
<1>6. Selected(q) \subseteq Reachable(q)
  BY <1>2, <1>4 DEF Reachable, Mine
<1> DEFINE S == Selected(q)
           s == Sorted(S)
           n == Cardinality(S)
           offset == http[q].offset
           end == offset + Limit(req[q])
           last == IF end < n THEN end ELSE n
<1>7. s \in Seq(S) /\ Len(s) = n /\ n \in Nat
  BY <1>3, <1>5, SortedIs
<1>8. offset \in Nat /\ Limit(req[q]) \in Nat
  BY LimitIs DEF HttpOK, IsResponse, RInv
<1>9. Page(q) = SubSeq(s, offset + 1, last)
  <2> DEFINE rows == CHOOSE x \in {Sorted(T) : T \in {Selected(q)}} : TRUE
  <2>1. rows = s
    OBVIOUS
  <2> QED
    BY <1>7, <2>1 DEF Page
<1> HIDE DEF S, s, n, offset
<1>10. last \in Nat /\ last <= Len(s) /\ offset + 1 \in Nat \ {0}
  BY <1>7, <1>8
<1> HIDE DEF end, last
<1>11. /\ Page(q) \in Seq(S) /\ Len(Page(q)) = (IF last < offset + 1 THEN 0 ELSE last - (offset + 1) + 1)
       /\ \A i \in 1..Len(Page(q)) : Page(q)[i] = s[(offset + 1) + i - 1]
  BY <1>7, <1>9, <1>10, SubSeqIs
<1>12. Len(Page(q)) = (IF last < offset + 1 THEN 0 ELSE last - offset)
       /\ \A i \in 1..Len(Page(q)) : Page(q)[i] = s[offset + i]
  <2>1. last - (offset + 1) + 1 = last - offset /\ \A i \in Nat : (offset + 1) + i - 1 = offset + i
    BY <1>8, <1>10
  <2>2. Len(Page(q)) \in Nat
    BY <1>11
  <2> QED
    BY <1>11, <2>1, <2>2
<1> QED
  BY <1>3, <1>5, <1>6, <1>7, <1>11, <1>12 DEF S, s, n, offset, end, last

\* What a step of q may do to the response of q.
Answers(q) ==
  /\ DOMAIN http' = DOMAIN http /\ \A p \in DOMAIN trx \ {q} : http'[p] = http[p]
  /\ IsResponse(http'[q])
  /\ ToSet(http'[q].items) \subseteq ToSet(http[q].items) \union Reachable(q)
  /\ IsRestricted(req[q].by) /\ http[q].total <= Cardinality(http[q].mine)
       => http'[q].total <= Cardinality(http'[q].mine)

LEMMA SilentAnswers ==
  ASSUME HttpOK, NEW q \in DOMAIN trx, UNCHANGED http
  PROVE  Answers(q)
  BY DEF Answers, HttpOK

LEMMA RespondAnswers ==
  ASSUME HttpOK, NEW q \in DOMAIN trx, NEW items, Respond200(q, items), items \in Seq(Reachable(q))
  PROVE  Answers(q)
<1> DEFINE h == [http[q] EXCEPT !.items = items]
<1>1. http' = [http EXCEPT ![q] = h]
  BY DEF Respond200
<1>2. IsResponse(http[q]) /\ items \in Seq(ToSet(items)) /\ ToSet(items) \subseteq Reachable(q)
  BY SequenceIs DEF HttpOK
<1>3. h.items = items /\ h.total = http[q].total /\ h.mine = http[q].mine /\ h.offset = http[q].offset
      /\ DOMAIN h = DOMAIN http[q]
  BY <1>2 DEF IsResponse
<1> HIDE DEF h
<1> QED
  BY <1>1, <1>2, <1>3 DEF Answers, HttpOK, IsResponse

\* A set of rows, or one.
LEMMA RowsAnswer ==
  ASSUME RInv, HttpOK, NEW q \in DOMAIN trx, NEW S, S \subseteq Reachable(q), Respond200(q, SetToSeq(S))
  PROVE  Answers(q)
<1>1. S \in SUBSET DOMAIN db
  BY DEF Reachable
<1>2. IsFiniteSet(S)
  BY <1>1, FS_Subset DEF RInv, RowsOK
<1>3. SetToSeq(S) \in Seq(S)
  BY <1>2, SequenceOfAll
<1> QED
  BY <1>3, RespondAnswers

LEMMA RowAnswers ==
  ASSUME HttpOK, NEW q \in DOMAIN trx, NEW r \in Reachable(q), Respond200(q, <<r>>)
  PROVE  Answers(q)
<1>1. <<r>> \in Seq(Reachable(q))
  OBVIOUS
<1> QED
  BY <1>1, RespondAnswers

\* The requests that read a row, or all.
LEMMA ReadAnswers ==
  ASSUME RInv, HttpOK, NEW q \in DOMAIN trx, Admitted(q),
         \/ GetTenant(q) \/ GetParticipantProfile(q) \/ GetDataspaceProfile(q)
         \/ ListCells(q) \/ ListProfiles(q) \/ GetActivityDefinitions(q) \/ GetOrchestrationDefinitions(q)
         \/ LookUpTenant(q) \/ getProfilesForTenant(q)
  PROVE  Answers(q)
<1>a. \A error : Fails(q, error) => Answers(q)
  BY SilentAnswers DEF Fails
<1>b. \A kind : ~(kind \in {"tenant", "participant"}) => Rows(kind) \subseteq Reachable(q)
  BY RowsByTable DEF RInv, Reachable, Owned
<1>1. CASE GetTenant(q) \/ GetParticipantProfile(q)
  <2>1. (Accessible(q, req[q].id) /\ Respond200(q, <<req[q].id>>)) \/ Fails(q, "notFound")
    BY <1>1, Zenon DEF GetTenant, GetParticipantProfile
  <2>2. Accessible(q, req[q].id) => req[q].id \in Reachable(q)
    BY DEF Accessible, Reachable
  <2> QED
    BY <1>a, <2>1, <2>2, RowAnswers
<1>2. CASE GetDataspaceProfile(q)
  <2>1. \/ req[q].id \in DOMAIN db /\ req[q].op = "getProfile" /\ Respond200(q, <<req[q].id>>)
        \/ Fails(q, "notFound")
    BY <1>2, Zenon DEF GetDataspaceProfile, At
  <2>2. req[q].id \in DOMAIN db /\ req[q].op = "getProfile" => req[q].id \in Reachable(q)
    BY ApiRequestFacts DEF RInv, Reachable, Owned
  <2> QED
    BY <1>a, <2>1, <2>2, RowAnswers
<1>3. CASE ListCells(q) \/ ListProfiles(q) \/ GetActivityDefinitions(q) \/ GetOrchestrationDefinitions(q)
  <2>1. \E kind \in {"cell", "dprofile", "adef", "odef"} : \E S \in SUBSET Rows(kind) : Respond200(q, SetToSeq(S))
    <3>1. {o \in Rows("odef") : req[q].template \in {"", db[o].template}} \in SUBSET Rows("odef")
      BY Zenon
    <3>2. CASE ListCells(q) \/ ListProfiles(q) \/ GetActivityDefinitions(q)
      BY <3>2 DEF ListCells, ListProfiles, GetActivityDefinitions
    <3>3. CASE GetOrchestrationDefinitions(q)
      <4>1. Respond200(q, SetToSeq({o \in Rows("odef") : req[q].template \in {"", db[o].template}}))
        BY <3>3, Zenon DEF GetOrchestrationDefinitions
      <4> QED
        BY <3>1, <4>1, Zenon
    <3> QED
      BY <1>3, <3>2, <3>3
  <2> QED
    BY <1>b, <2>1, RowsAnswer
<1>4. CASE LookUpTenant(q)
  BY <1>4, <1>a, SilentAnswers DEF LookUpTenant
<1>5. CASE getProfilesForTenant(q)
  <2>1. req[q].op = "profilesOf" /\ (Respond200(q, SetToSeq(QueryProfiles(q))) \/ Fails(q, "internal"))
    BY <1>5 DEF getProfilesForTenant, At
  <2>2. req[q].kind = "participant"
    BY <2>1, ApiRequestFacts DEF RInv
  <2>3. QueryProfiles(q) \subseteq Rows(req[q].kind) /\ (IsRestricted(req[q].by) => QueryProfiles(q) \subseteq Mine(q))
    BY <2>1, SelectedIs
  <2>4. QueryProfiles(q) \subseteq Reachable(q)
    BY <2>3 DEF Reachable, Mine, Rows
  <2> QED
    BY <1>a, <2>1, <2>4, RowsAnswer
<1> QED
  BY <1>1, <1>2, <1>3, <1>4, <1>5

\* Pages.
LEMMA CountAnswers ==
  ASSUME RInv, HttpOK, NEW q \in DOMAIN trx, Admitted(q), CountRows(q)
  PROVE  Answers(q)
<1>1. CASE Fails(q, "internal")
  BY <1>1, SilentAnswers DEF Fails
<1>2. CASE ~Fails(q, "internal")
  <2> DEFINE total == IF req[q].op = "list" THEN GetTenantsCount(q) ELSE QueryProfilesCount(q)
             counted == [http[q] EXCEPT !.total = total,
                                        !.mine = {r \in Rows(req[q].kind) : Allows(req[q].by, db[r].owner)}]
             h == IF trx[q].pc = "begin" THEN [counted EXCEPT !.stays = Selected(q)] ELSE counted
  <2>1. Pages(q) /\ http' = [http EXCEPT ![q] = h]
    BY <1>2, Zenon DEF CountRows
  <2>2. total \in Nat /\ (IsRestricted(req[q].by) => total <= Cardinality(Mine(q)))
    BY <2>1, SelectedIs DEF Pages
  <2>3. IsResponse(http[q])
    BY DEF HttpOK
  <2> HIDE DEF total
  <2>4. /\ DOMAIN h = DOMAIN http[q] /\ h.items = http[q].items /\ h.offset = http[q].offset
        /\ h.total = total /\ h.mine = Mine(q)
    BY <2>3 DEF IsResponse, Mine
  <2> HIDE DEF h
  <2> QED
    BY <2>1, <2>2, <2>3, <2>4 DEF Answers, HttpOK, IsResponse
<1> QED
  BY <1>1, <1>2

\* Items are added.
LEMMA AddingAnswers ==
  ASSUME HttpOK, NEW q \in DOMAIN trx, NEW items \in Seq(Reachable(q)), NEW h,
         http' = [http EXCEPT ![q] = h], DOMAIN h = DOMAIN http[q], h.items = http[q].items \o items,
         h.offset \in Nat, h.total = http[q].total, h.mine = http[q].mine
  PROVE  Answers(q)
<1>1. IsResponse(http[q])
  BY DEF HttpOK
<1>2. /\ h.items \in Seq(ToSet(http[q].items) \union Reachable(q))
      /\ ToSet(h.items) = ToSet(http[q].items) \union ToSet(items)
      /\ ToSet(items) \subseteq Reachable(q)
  BY <1>1, Appending, SequenceIs, SMTT(30) DEF IsResponse
<1>3. h.items \in Seq(ToSet(h.items))
  BY <1>2, SequenceIs
<1> QED
  BY <1>1, <1>2, <1>3 DEF Answers, HttpOK, IsResponse

LEMMA PageAnswers ==
  ASSUME RInv, OrderOK, HttpOK, NEW q \in DOMAIN trx, Admitted(q), ReadRows(q) \/ Truncate(q)
  PROVE  Answers(q)
<1>a. Pages(q)
  BY DEF ReadRows, Truncate
<1>b. Page(q) \in Seq(Reachable(q)) /\ Limit(req[q]) \in Nat
  BY <1>a, PageIs, LimitIs DEF RInv
<1>c. IsResponse(http[q])
  BY DEF HttpOK
<1>1. CASE ReadRows(q)
  <2> DEFINE limit == Limit(req[q])
             more == HasNext(http[q].offset, limit, http[q].total)
             h == [http[q] EXCEPT !.items = @ \o Page(q), !.last = LastOffset(limit, http[q].total),
                                  !.offset = IF more THEN @ + limit ELSE @]
  <2>1. http' = [http EXCEPT ![q] = h]
    BY <1>1 DEF ReadRows
  <2>2. /\ DOMAIN h = DOMAIN http[q] /\ h.items = http[q].items \o Page(q) /\ h.offset \in Nat
        /\ h.total = http[q].total /\ h.mine = http[q].mine
    BY <1>b, <1>c DEF IsResponse
  <2> HIDE DEF h
  <2> QED
    BY <1>b, <2>1, <2>2, AddingAnswers
<1>2. CASE Truncate(q)
  <2>1. PICK n \in 0..Len(Page(q)) :
          http' = [http EXCEPT ![q].items = @ \o SubSeq(Page(q), 1, n), ![q].cut = TRUE]
    BY <1>2 DEF Truncate
  <2> DEFINE h == [http[q] EXCEPT !.items = @ \o SubSeq(Page(q), 1, n), !.cut = TRUE]
  <2>2. http' = [http EXCEPT ![q] = h]
    BY <2>1
  <2>3. SubSeq(Page(q), 1, n) \in Seq(Reachable(q))
    BY <1>b, SubSeqIs
  <2>4. /\ DOMAIN h = DOMAIN http[q] /\ h.items = http[q].items \o SubSeq(Page(q), 1, n) /\ h.offset \in Nat
        /\ h.total = http[q].total /\ h.mine = http[q].mine
    BY <1>c DEF IsResponse
  <2> HIDE DEF h
  <2> QED
    BY <2>2, <2>3, <2>4, AddingAnswers
<1> QED
  BY <1>1, <1>2

\* What a step may do to the response of any request.
Heard(q) ==
  /\ IsResponse(http'[q])
  /\ ToSet(http'[q].items) \subseteq ToSet(http[q].items) \union Reachable(q)
  /\ IsRestricted(req[q].by) /\ http[q].total <= Cardinality(http[q].mine)
       => http'[q].total <= Cardinality(http'[q].mine)

LEMMA AnswersAreHeard ==
  ASSUME HttpOK, NEW q \in DOMAIN trx, Answers(q)
  PROVE  DOMAIN http' = DOMAIN http /\ \A p \in DOMAIN trx : Heard(p)
<1>1. \A p \in DOMAIN trx \ {q} : http'[p] = http[p] /\ IsResponse(http[p])
  BY DEF Answers, HttpOK
<1> QED
  BY <1>1 DEF Answers, Heard

\* History: what is noted when rows change.
Noted(q) ==
  LET after == Selected(q)'
      shrunk == IF Selected(q) \ after # {} THEN {"shrunk"} ELSE {}
      grown == IF after \ Selected(q) = {} THEN {}
               ELSE IF trx[q].pc = "rows" THEN {"grown", "grownInPage"} ELSE {"grown"}
  IN  [http[q] EXCEPT !.stays = @ \intersect after, !.changes = @ \union shrunk \union grown]

LEMMA WatchedFrom ==
  ASSUME HttpOK, Watched, db' # db
  PROVE  /\ DOMAIN http' = DOMAIN http
         /\ \A q \in DOMAIN trx : http'[q] = IF ~UnderWay(q) THEN http[q] ELSE Noted(q)
<1>1. http' = [q \in DOMAIN http |-> IF ~UnderWay(q) THEN http[q] ELSE Noted(q)]
  BY Zenon DEF Watched, Noted
<1> QED
  BY <1>1, Zenon DEF HttpOK

LEMMA WatchedIs ==
  ASSUME HttpOK, Watched
  PROVE  /\ DOMAIN http' = DOMAIN http
         /\ \A q \in DOMAIN trx :
              \/ http'[q] = http[q]
              \/ \E stays, changes : http'[q] = [http[q] EXCEPT !.stays = stays, !.changes = changes]
<1>1. CASE db' = db
  BY <1>1 DEF Watched
<1>2. CASE db' # db
  <2>1. ASSUME NEW q PROVE \E stays, changes : Noted(q) = [http[q] EXCEPT !.stays = stays, !.changes = changes]
    BY Zenon DEF Noted
  <2>2. /\ DOMAIN http' = DOMAIN http
        /\ \A q \in DOMAIN trx : http'[q] = IF ~UnderWay(q) THEN http[q] ELSE Noted(q)
    BY <1>2, WatchedFrom, Zenon
  <2>3. ASSUME NEW q \in DOMAIN trx
        PROVE  \/ http'[q] = http[q]
               \/ \E stays, changes : http'[q] = [http[q] EXCEPT !.stays = stays, !.changes = changes]
    <3>1. PICK stays, changes : Noted(q) = [http[q] EXCEPT !.stays = stays, !.changes = changes]
      BY <2>1
    <3> QED
      BY <2>2, <3>1, Zenon
  <2> QED
    BY <2>2, <2>3, Zenon
<1> QED
  BY <1>1, <1>2

LEMMA WatchedIsHeard ==
  ASSUME HttpOK, Watched
  PROVE  DOMAIN http' = DOMAIN http /\ \A q \in DOMAIN trx : Heard(q)
<1> SUFFICES ASSUME NEW q \in DOMAIN trx PROVE Heard(q)
  BY WatchedIs
<1>1. IsResponse(http[q])
  BY DEF HttpOK
<1>2. ASSUME NEW stays, NEW changes, http'[q] = [http[q] EXCEPT !.stays = stays, !.changes = changes]
      PROVE  /\ DOMAIN http'[q] = DOMAIN http[q] /\ http'[q].items = http[q].items
             /\ http'[q].total = http[q].total /\ http'[q].offset = http[q].offset
             /\ http'[q].mine = http[q].mine
  BY <1>1, <1>2 DEF IsResponse
<1> QED
  BY <1>1, <1>2, WatchedIs DEF Heard, IsResponse

\* Every step.
LEMMA StepIsHeard ==
  ASSUME RInv, HttpOK, AdmittedOK, OrderOK, [ApiNext]_apiVars
  PROVE  DOMAIN http' = DOMAIN http /\ \A q \in DOMAIN trx : Heard(q)
<1>1. CASE UNCHANGED apiVars
  BY <1>1 DEF apiVars, HttpOK, Heard
<1>2. CASE Watched
  BY <1>2, WatchedIsHeard
<1>3. ASSUME NEW q \in DOMAIN trx, Refuse(q) \/ (Admitted(q) /\ Read(q)) \/ Truncate(q)
      PROVE  Answers(q)
  <2>1. CASE Refuse(q)
    BY <2>1, SilentAnswers DEF Refuse
  <2>2. CASE Admitted(q) /\ Read(q)
    BY <2>2, ReadAnswers, CountAnswers, PageAnswers DEF Read
  <2>3. CASE Truncate(q)
    BY <2>3, PageAnswers DEF Truncate, AdmittedOK
  <2> QED
    BY <1>3, <2>1, <2>2, <2>3
<1> QED
  BY <1>1, <1>2, <1>3, AnswersAreHeard DEF ApiNext, Serve

\* A request that names a row and is served finds it accessible, or fails with ErrNotFound.
LEMMA NamedIsReached ==
  ASSUME RInv, NEW q \in DOMAIN trx, Read(q) \/ Step(q) \/ Abort(q), NEW r \in Named(req[q]),
         trx'[q].pc # "notFound"
  PROVE  trx[q].pc \notin {"begin", "refused", "notFound"} \/ Accessible(q, r)
<1> SUFFICES ASSUME trx[q].pc \in {"begin", "refused", "notFound"} PROVE Accessible(q, r)
  OBVIOUS
<1>a. ~Rollback(q, "notFound") /\ ~Fails(q, "notFound")
  BY RollbackHarmless DEF Fails, Ends
<1>b. /\ req[q].op \in {"getTenant", "patchTenant", "deleteTenant", "profilesOf", "getParticipant", "dispose",
                        "deployParticipant"}
      /\ r = IF req[q].op = "deployParticipant" THEN req[q].tenant ELSE req[q].id
  BY DEF Named
<1>1. ASSUME LockTenant(q) PROVE Accessible(q, r)
  BY <1>1, <1>a, <1>b DEF LockTenant, At, FindAndShare
<1>2. ASSUME ReadParticipant(q) PROVE Accessible(q, r)
  BY <1>2, <1>a, <1>b DEF ReadParticipant, At
<1>3. ASSUME ReadTenant(q) PROVE Accessible(q, r)
  BY <1>3, <1>a, <1>b DEF ReadTenant, At
<1>4. ASSUME LockAndCheck(q) PROVE Accessible(q, r)
  BY <1>4, <1>a, <1>b DEF LockAndCheck, FindAndExclude
<1>5. ASSUME GetTenant(q) \/ LookUpTenant(q) PROVE Accessible(q, r)
  BY <1>5, <1>a, <1>b DEF GetTenant, LookUpTenant, At
<1>6. ASSUME GetParticipantProfile(q) PROVE Accessible(q, r)
  BY <1>6, <1>a, <1>b DEF GetParticipantProfile, At
<1>7. ~Abort(q)
  BY DEF Abort, IsOver
<1>8. Read(q) => GetTenant(q) \/ LookUpTenant(q) \/ GetParticipantProfile(q)
  BY <1>b DEF Read, At, Pages, GetDataspaceProfile, ListCells, ListProfiles, GetActivityDefinitions,
       GetOrchestrationDefinitions, getProfilesForTenant, CountRows, ReadRows
<1>9. Step(q) => LockTenant(q) \/ ReadParticipant(q) \/ ReadTenant(q) \/ LockAndCheck(q)
  <2>1. ~(ReadCells(q) \/ ReadProfiles(q) \/ lockReferences(q) \/ StoreParticipant(q) \/ Send(q)
          \/ WriteParticipant(q) \/ CreateTenant(q) \/ PatchTenant(q))
    BY <1>b DEF At, ReadCells, ReadProfiles, lockReferences, StoreParticipant, Send, WriteParticipant,
         CreateTenant, PatchTenant
  <2>2. ~(revertDispose(q) \/ RecordExternalDeployment(q) \/ CreateProfile(q) \/ ReadProfile(q)
          \/ LockCell(q) \/ DeployProfile(q) \/ CheckUse(q) \/ DeleteRow(q))
    BY <1>b, Zenon DEF At, revertDispose, RecordExternalDeployment, CreateProfile, ReadProfile, LockCell,
         DeployProfile, CheckUse, DeleteRow
  <2>3. ~(FindDefinitions(q) \/ StoreDefinition(q) \/ FindReferences(q) \/ FindTemplate(q)
          \/ LookUpOrchestration(q) \/ DeleteNext(q) \/ CommitDeletions(q) \/ DeleteActivityDefinition(q))
    BY <1>b DEF At, FindDefinitions, StoreDefinition, FindReferences, FindTemplate, LookUpOrchestration,
         DeleteNext, CommitDeletions, DeleteActivityDefinition
  <2> QED
    BY <2>1, <2>2, <2>3 DEF Step
<1> QED
  BY <1>1, <1>2, <1>3, <1>4, <1>5, <1>6, <1>7, <1>8, <1>9

\* Where a transaction is after a step.
LEMMA PcsAfter ==
  ASSUME RInv, [ApiNext]_apiVars, NEW q \in DOMAIN trx
  PROVE  \/ trx'[q].pc = trx[q].pc
         \/ trx'[q].pc = "refused"
         \/ Admitted(q) /\ (Read(q) \/ Step(q))
         \/ (Truncate(q) \/ Abort(q)) /\ trx[q].pc \notin {"begin", "refused", "notFound"}
<1>1. CASE UNCHANGED apiVars
  BY <1>1 DEF apiVars
<1>2. ASSUME NEW p \in DOMAIN trx, ActsOf(p), p # q
      PROVE  trx'[q].pc = trx[q].pc
  BY <1>2, ActsAreHarmless DEF Harmless, OnlyMoves
<1>3. ASSUME NEW r \in DOMAIN db, Respond(r) \/ Indexed(r)
      PROVE  trx'[q].pc = trx[q].pc
  BY <1>3, RespondIsTame DEF PcsStay, Indexed
<1>4. ASSUME ActsOf(q)
      PROVE  \/ trx'[q].pc = "refused"
             \/ Admitted(q) /\ (Read(q) \/ Step(q))
             \/ (Truncate(q) \/ Abort(q)) /\ trx[q].pc \notin {"begin", "refused", "notFound"}
  <2>1. Refuse(q) => trx'[q].pc = "refused"
    BY OverIs DEF Refuse
  <2>2. Truncate(q) => trx[q].pc = "rows"
    BY DEF Truncate
  <2>3. Abort(q) => trx[q].pc \notin {"begin", "refused", "notFound"}
    BY DEF Abort, IsOver
  <2> QED
    BY <1>4, <2>1, <2>2, <2>3 DEF ActsOf, Serve
<1> QED
  BY <1>1, <1>2, <1>3, <1>4 DEF ApiNext, ActsOf

LEMMA AdmittedStays ==
  ASSUME Tame, NEW q \in DOMAIN trx, Admitted(q)
  PROVE  Admitted(q)'
  BY Zenon DEF Tame, Admitted, Authenticated, tenantAccess, IsAuthorized, ReadPayload, ToTenantManager,
     IsRestricted, TenantScope, DefinitionScope

\* The invariant holds of every state.
LEMMA InitSInv == ApiInit => SInv
<1> SUFFICES ASSUME ApiInit PROVE SInv
  OBVIOUS
<1>1. RInv
  BY InitRInv DEF ApiInit
<1>2. DOMAIN trx = DOMAIN req /\ \A q \in DOMAIN trx : trx[q].pc = "begin"
  BY DEF ApiInit, Init, New
<1>3. DOMAIN http = DOMAIN req /\ \A q \in DOMAIN http : http[q] = NoResponse
  BY DEF ApiInit
<1>4. IsResponse(NoResponse) /\ ToSet(NoResponse.items) = {} /\ NoResponse.total <= Cardinality(NoResponse.mine)
  BY FS_EmptySet DEF NoResponse, IsResponse, ToSet
<1>5. HttpOK
  BY <1>2, <1>3, <1>4 DEF HttpOK
<1>6. AdmittedOK
  BY <1>2 DEF AdmittedOK
<1>7. OrderOK
  <2>1. PICK s \in Scenarios : db = s.rows
    BY DEF ApiInit, Init
  <2>2. DOMAIN db \subseteq DOMAIN TableOf
    BY <2>1, ReferencesAssumption
  <2> QED
    BY <2>2, ApiAssumption DEF OrderOK, Owned
<1>8. VisibleOK
  BY <1>2, <1>3, <1>4 DEF VisibleOK, Found
<1> QED
  BY <1>1, <1>5, <1>6, <1>7, <1>8 DEF SInv

LEMMA NextSInv == SInv /\ [ApiNext]_apiVars => SInv'
<1> SUFFICES ASSUME SInv, [ApiNext]_apiVars PROVE SInv'
  OBVIOUS
<1> USE DEF SInv
<1>1. RInv'
  BY ApiNextKeeps
<1>2. Tame
  BY ApiIsTame
<1>3. HttpOK'
  BY <1>2, StepIsHeard DEF HttpOK, Heard, Tame
<1>4. AdmittedOK'
  <2> SUFFICES ASSUME NEW q \in DOMAIN trx, trx'[q].pc \notin {"begin", "refused"}
               PROVE  Admitted(q)'
    BY <1>2 DEF AdmittedOK, Tame
  <2>1. Admitted(q)
    BY PcsAfter DEF AdmittedOK
  <2> QED
    BY <1>2, <2>1, AdmittedStays
<1>5. OrderOK'
  <2> SUFFICES ASSUME NEW r \in DOMAIN db', Owned(r)
               PROVE  r \in ToSet(Order)
    BY DEF OrderOK, Owned
  <2>1. CASE r \in DOMAIN db
    BY <2>1 DEF OrderOK
  <2>2. CASE r \notin DOMAIN db
    <3>1. PICK p \in DOMAIN trx : Creates(req[p]) /\ r = req[p].id
      BY <1>2, <2>2 DEF Tame
    <3>2. r \in DOMAIN TableOf
      BY <3>1, RequestFacts DEF RInv
    <3> QED
      BY <3>2, ApiAssumption DEF Owned
  <2> QED
    BY <2>1, <2>2
<1>6. VisibleOK'
  <2> SUFFICES ASSUME NEW q \in DOMAIN trx, IsRestricted(req[q].by)
               PROVE  /\ \A r \in ToSet(http'[q].items) \union Found(q)' : MayKnow(q, r)'
                      /\ http'[q].total <= Cardinality(http'[q].mine)
    BY <1>2 DEF VisibleOK, Tame, IsRestricted
  <2>1. http'[q].total <= Cardinality(http'[q].mine)
    BY StepIsHeard DEF Heard, VisibleOK
  <2>2. ASSUME NEW r \in ToSet(http'[q].items)
        PROVE  MayKnow(q, r)
    <3>1. r \in ToSet(http[q].items) \/ r \in Reachable(q)
      BY <2>2, StepIsHeard DEF Heard
    <3> QED
      BY <3>1, ReachableIsKnown DEF VisibleOK
  <2>3. ASSUME NEW r \in Found(q)'
        PROVE  MayKnow(q, r)
    <3>1. r \in Named(req[q]) /\ trx'[q].pc \notin {"begin", "refused", "notFound"}
      BY <1>2, <2>3 DEF Found, Tame, Named
    <3>2. trx[q].pc \notin {"begin", "refused", "notFound"} \/ Accessible(q, r)
      BY <3>1, PcsAfter, NamedIsReached
    <3>3. CASE Accessible(q, r)
      BY <3>3, ReachableIsKnown DEF Accessible, Reachable
    <3>4. CASE trx[q].pc \notin {"begin", "refused", "notFound"}
      BY <3>1, <3>4 DEF Found, VisibleOK
    <3> QED
      BY <3>2, <3>3, <3>4
  <2> QED
    BY <1>2, <2>1, <2>2, <2>3, KnownStays
<1> QED
  BY <1>1, <1>3, <1>4, <1>5, <1>6

\* What requests find, lock, read and are shown makes the invariant hold of all their
\* interleavings.
THEOREM ApiInvariant == ApiSpec => []SInv
  BY InitSInv, NextSInv, PTL DEF ApiSpec

\* No request of a caller without the admin scope shows a tenant or a participant of
\* another owner or counts one, and one that names such a row ends refused or with 404,
\* whatever is created, changed or deleted meanwhile: Restrict narrows every query, and
\* checkTenantAccess and checkProfileAccess turn every row of another owner into
\* ErrNotFound.
THEOREM OthersAreInvisibleHolds == ApiSpec => []OthersAreInvisible
<1>1. SInv => OthersAreInvisible
  <2> SUFFICES ASSUME SInv, NEW q \in DOMAIN trx, IsRestricted(req[q].by)
               PROVE  /\ \A r \in ToSet(http[q].items) \intersect (Rows("tenant") \union Rows("participant")) :
                           Accessible(q, r)
                      /\ http[q].total <= Cardinality(http[q].mine)
                      /\ IsOver(q) => \A r \in Named(req[q]) \intersect DOMAIN db :
                           Accessible(q, r) \/ trx[q].pc = "refused" \/ Status(q) = 404
    BY Zenon DEF OthersAreInvisible
  <2> USE DEF SInv
  <2>1. \A r \in Rows("tenant") \union Rows("participant") : r \in DOMAIN db /\ Owned(r)
    BY RowsByTable DEF RInv, Owned
  <2>2. \A r \in ToSet(http[q].items) \union Found(q) : r \in DOMAIN db /\ Owned(r) => Accessible(q, r)
    BY DEF VisibleOK, MayKnow, Accessible
  <2>3. http[q].total <= Cardinality(http[q].mine)
    BY DEF VisibleOK
  <2>4. ASSUME IsOver(q), NEW r \in Named(req[q]) \intersect DOMAIN db, trx[q].pc # "refused"
        PROVE  Accessible(q, r) \/ Status(q) = 404
    <3>1. CASE trx[q].pc = "notFound"
      BY <3>1 DEF Status
    <3>2. CASE trx[q].pc # "notFound"
      <4>1. r \in Found(q)
        BY <2>4, <3>2 DEF Found, IsOver
      <4>2. Owned(r)
        BY RequestFacts, ApiRequestFacts DEF RInv, Named, IsRequest, Owned
      <4> QED
        BY <2>2, <4>1, <4>2
    <3> QED
      BY <3>1, <3>2
  <2> QED
    BY <2>1, <2>2, <2>3, <2>4
<1> QED
  BY <1>1, ApiInvariant, PTL

-----------------------------------------------------------------------------
\* A client that pages misses nothing: the invariant.

\* The rows that were selected all the time are shown, or are on a page to come.
StaysOK(h, rows) ==
  h.changes \intersect {"shrunk", "grownInPage"} = {} =>
    \A r \in h.stays : r \in ToSet(h.items) \/ Place(r, rows) >= h.offset

\* What is shown is shown once, and is on no page to come.
OnceOK(h, rows) ==
  "grown" \notin h.changes =>
    IsInjective(h.items) /\ \A r \in ToSet(h.items) \intersect rows : Place(r, rows) < h.offset

\* The pages so far are the first of the rows, if nothing changed.
SameOK(h, rows, limit) ==
  h.changes = {} =>
    /\ rows = h.stays
    /\ h.offset = 0 \/ h.offset < Cardinality(rows)
    /\ \E k \in Nat : h.offset = k * limit
    /\ Len(h.items) = h.offset /\ \A i \in 1..h.offset : h.items[i] = Sorted(rows)[i]

\* The total is the one of the page that is to be read.
CountedOK(h, rows) ==
  h.changes \intersect {"shrunk", "grownInPage"} = {} => h.total = Cardinality(rows)

UnderWayOK(h, rows, limit) ==
  /\ ~h.cut /\ h.stays \subseteq rows
  /\ h.changes \subseteq {"shrunk", "grown", "grownInPage"}
  /\ "grownInPage" \in h.changes => "grown" \in h.changes
  /\ StaysOK(h, rows) /\ OnceOK(h, rows) /\ SameOK(h, rows, limit)

\* What a client has in the end.
Complete(h) ==
  /\ h.changes \intersect {"shrunk", "grownInPage"} = {} => h.stays \subseteq ToSet(h.items)
  /\ "grown" \notin h.changes => IsInjective(h.items)
  /\ h.changes = {} => h.items = Sorted(h.stays) /\ Len(h.items) = h.total /\ h.last = h.offset

PageOK(q) ==
  /\ trx[q].pc = "begin" => http[q] = NoResponse
  /\ trx[q].pc \in {"rows", "page"} => UnderWayOK(http[q], Selected(q), Limit(req[q]))
  /\ trx[q].pc = "rows" => CountedOK(http[q], Selected(q))
  /\ trx[q].pc = "done" /\ ~http[q].cut => Complete(http[q])

PagesOK == \A q \in DOMAIN trx : Pages(q) => PageOK(q)

LEMMA MultiplesApart ==
  ASSUME NEW j \in Nat, NEW k \in Nat, NEW n \in Nat, j + 1 <= k
  PROVE  j * n + n <= k * n
<1>1. PICK d \in Nat : k = j + 1 + d
  <2>1. k - (j + 1) \in Nat /\ k = j + 1 + (k - (j + 1))
    OBVIOUS
  <2> QED
    BY <2>1
<1>2. k * n = (j + 1 + d) * n
  BY <1>1
<1>3. (j + 1 + d) * n = j * n + n + d * n
  OBVIOUS
<1>4. d * n >= 0
  OBVIOUS
<1>5. j * n \in Nat /\ d * n \in Nat
  OBVIOUS
<1> QED
  BY <1>2, <1>3, <1>4, <1>5

LEMMA QuotientIs ==
  ASSUME NEW n \in Nat \ {0}, NEW k \in Nat, NEW m \in Nat, k * n <= m, m < k * n + n
  PROVE  m \div n = k
<1> DEFINE d == m \div n
<1>1. d \in Nat /\ d * n <= m /\ m < d * n + n
  OBVIOUS
<1> HIDE DEF d
<1>2. k * n \in Nat /\ d * n \in Nat
  BY <1>1
<1>3. ~(d + 1 <= k)
  <2> SUFFICES ASSUME d + 1 <= k PROVE FALSE
    OBVIOUS
  <2>1. d * n + n <= k * n
    BY <1>1, MultiplesApart
  <2> QED
    BY <1>1, <1>2, <2>1
<1>4. ~(k + 1 <= d)
  <2> SUFFICES ASSUME k + 1 <= d PROVE FALSE
    OBVIOUS
  <2>1. k * n + n <= d * n
    BY <1>1, MultiplesApart
  <2> QED
    BY <1>1, <1>2, <2>1
<1> QED
  BY <1>1, <1>3, <1>4 DEF d

\* A page read from the rows, as ReadRows does: what it has, and how the response goes on.
IsPage(page, rows, offset, limit) ==
  LET n == Cardinality(rows)
      end == offset + limit
      last == IF end < n THEN end ELSE n
  IN  /\ page \in Seq(rows) /\ Len(page) = (IF last < offset + 1 THEN 0 ELSE last - offset)
      /\ \A i \in 1..Len(page) : page[i] = Sorted(rows)[offset + i]

\* The rows of a page are those with a place on it.
LEMMA PageRows ==
  ASSUME NEW S, IsFiniteSet(S), S \subseteq ToSet(Order), NEW offset \in Nat, NEW limit \in Nat \ {0},
         NEW page, IsPage(page, S, offset, limit)
  PROVE  /\ Len(page) \in Nat /\ Len(page) <= limit
         /\ \A i \in 1..Len(page) :
              /\ offset + i \in 1..Cardinality(S) /\ page[i] \in S
              /\ Place(page[i], S) = offset + i - 1
         /\ \A r \in S : offset <= Place(r, S) /\ Place(r, S) < offset + limit => r \in ToSet(page)
<1> DEFINE n == Cardinality(S)
           end == offset + limit
           last == IF end < n THEN end ELSE n
<1>1. n \in Nat
  BY SortedIs
<1>2. /\ page \in Seq(S) /\ Len(page) = (IF last < offset + 1 THEN 0 ELSE last - offset)
      /\ \A i \in 1..Len(page) : page[i] = Sorted(S)[offset + i]
  BY DEF IsPage
<1> HIDE DEF n
<1>3. Len(page) \in Nat /\ Len(page) <= limit /\ DOMAIN page = 1..Len(page)
      /\ \A i \in 1..Len(page) : offset + i \in 1..n
  BY <1>1, <1>2
<1>4. \A i \in 1..Len(page) : page[i] \in S /\ Place(page[i], S) = offset + i - 1
  BY <1>2, <1>3, SortedIs, SMTT(30) DEF n
<1>5. ASSUME NEW r \in S, offset <= Place(r, S), Place(r, S) < offset + limit
      PROVE  r \in ToSet(page)
  <2> DEFINE i == Place(r, S) + 1 - offset
  <2>1. Place(r, S) \in Nat /\ Place(r, S) < n /\ Sorted(S)[Place(r, S) + 1] = r
    BY SortedIs, PlaceIs DEF n
  <2>2. i \in 1..Len(page) /\ offset + i = Place(r, S) + 1
    BY <1>1, <1>2, <1>5, <2>1
  <2>3. page[i] = r
    BY <1>2, <2>1, <2>2
  <2> QED
    BY <1>3, <2>2, <2>3 DEF ToSet
<1> QED
  BY <1>3, <1>4, <1>5 DEF n

\* What is shown of a page under way, once the page is read.
Shown(h, items, rows, limit) ==
  LET n == Cardinality(rows)
      end == h.offset + limit
  IN  /\ h.changes \intersect {"shrunk", "grownInPage"} = {} =>
           \A r \in h.stays : r \in ToSet(items) \/ Place(r, rows) >= end
      /\ "grown" \notin h.changes =>
           IsInjective(items) /\ \A r \in ToSet(items) \intersect rows : Place(r, rows) < end
      /\ h.changes = {} =>
           /\ n \in Nat
           /\ items \in Seq(ToSet(items))
           /\ Len(items) = (IF end < n THEN end ELSE n)
           /\ \A i \in 1..Len(items) : items[i] = Sorted(rows)[i]

LEMMA PageShown ==
  ASSUME NEW S, IsFiniteSet(S), S \subseteq ToSet(Order), NEW limit \in Nat \ {0},
         NEW h, IsResponse(h), UnderWayOK(h, S, limit),
         NEW page, IsPage(page, S, h.offset, limit),
         NEW items, items = h.items \o page
  PROVE  Shown(h, items, S, limit)
<1> DEFINE o == h.offset
           n == Cardinality(S)
<1>1. o \in Nat /\ h.items \in Seq(ToSet(h.items)) /\ page \in Seq(S) /\ h.stays \subseteq S
  BY DEF IsResponse, IsPage, UnderWayOK
<1>2. /\ Len(page) \in Nat /\ Len(page) <= limit
      /\ \A i \in 1..Len(page) : o + i \in 1..n /\ page[i] \in S /\ Place(page[i], S) = o + i - 1
      /\ \A r \in S : o <= Place(r, S) /\ Place(r, S) < o + limit => r \in ToSet(page)
  BY <1>1, PageRows
<1>a. Joins(items, h.items, page)
  BY DEF Joins
<1>3. /\ ToSet(items) = ToSet(h.items) \union ToSet(page)
      /\ Len(items) = Len(h.items) + Len(page) /\ Len(h.items) \in Nat
      /\ items \in Seq(ToSet(h.items) \union S)
      /\ \A i \in 1..Len(h.items) : items[i] = h.items[i]
      /\ \A i \in 1..Len(page) : items[Len(h.items) + i] = page[i]
  BY <1>1, <1>a, Concatenation
<1>4. DOMAIN page = 1..Len(page) /\ DOMAIN h.items = 1..Len(h.items) /\ DOMAIN items = 1..Len(items)
      /\ items \in Seq(ToSet(items))
  BY <1>1, <1>3, SequenceIs
<1>5. n \in Nat /\ \A r \in S : Place(r, S) \in Nat /\ Place(r, S) < n
  BY PlaceIs
<1> HIDE DEF o, n
<1>6. \A r \in ToSet(page) : r \in S /\ Place(r, S) \in Nat /\ o <= Place(r, S) /\ Place(r, S) < o + limit
  <2> SUFFICES ASSUME NEW i \in 1..Len(page)
               PROVE  page[i] \in S /\ Place(page[i], S) \in Nat /\ o <= Place(page[i], S)
                      /\ Place(page[i], S) < o + limit
    BY <1>4 DEF ToSet
  <2>1. page[i] \in S /\ Place(page[i], S) = o + i - 1 /\ Place(page[i], S) \in Nat
    BY <1>2, <1>5
  <2>2. i \in Nat /\ 1 <= i /\ i <= limit
    BY <1>2
  <2> QED
    BY <1>1, <2>1, <2>2
<1>7. ASSUME h.changes \intersect {"shrunk", "grownInPage"} = {}, NEW r \in h.stays, r \notin ToSet(items)
      PROVE  Place(r, S) >= o + limit
  <2>1. r \in S /\ Place(r, S) >= o /\ r \notin ToSet(page)
    BY <1>1, <1>3, <1>7 DEF UnderWayOK, StaysOK, o
  <2> QED
    BY <1>1, <1>2, <1>5, <2>1
<1>8. ASSUME "grown" \notin h.changes
      PROVE  IsInjective(items) /\ \A r \in ToSet(items) \intersect S : Place(r, S) < o + limit
  <2>1. IsInjective(h.items) /\ \A r \in ToSet(h.items) \intersect S : Place(r, S) < o
    BY <1>8 DEF UnderWayOK, OnceOK, o
  <2>2. \A r \in ToSet(items) \intersect S : Place(r, S) < o + limit
    BY <1>1, <1>3, <1>5, <1>6, <2>1
  <2>3. ToSet(h.items) \intersect ToSet(page) = {}
    BY <1>1, <1>6, <2>1
  <2>4. \A i, j \in 1..Len(page) : page[i] = page[j] => i = j
    BY <1>1, <1>2
  <2>5. \A i, j \in 1..Len(h.items) : h.items[i] = h.items[j] => i = j
    BY <1>4, <2>1 DEF IsInjective
  <2>6. \A i \in 1..Len(items) :
          \/ i <= Len(h.items) /\ items[i] = h.items[i] /\ items[i] \in ToSet(h.items)
          \/ /\ i > Len(h.items) /\ i - Len(h.items) \in 1..Len(page) /\ items[i] = page[i - Len(h.items)]
             /\ items[i] \in ToSet(page)
    <3> SUFFICES ASSUME NEW i \in 1..Len(items)
                 PROVE  \/ i <= Len(h.items) /\ items[i] = h.items[i] /\ items[i] \in ToSet(h.items)
                        \/ /\ i > Len(h.items) /\ i - Len(h.items) \in 1..Len(page)
                           /\ items[i] = page[i - Len(h.items)] /\ items[i] \in ToSet(page)
      OBVIOUS
    <3>1. CASE i <= Len(h.items)
      BY <1>3, <1>4, <3>1 DEF ToSet
    <3>2. CASE i > Len(h.items)
      <4>1. i - Len(h.items) \in 1..Len(page) /\ Len(h.items) + (i - Len(h.items)) = i
        BY <1>2, <1>3, <3>2
      <4>2. items[i] = page[i - Len(h.items)]
        BY <1>3, <4>1
      <4> QED
        BY <1>4, <3>2, <4>1, <4>2 DEF ToSet
    <3> QED
      BY <1>3, <3>1, <3>2
  <2>7. IsInjective(items)
    <3> SUFFICES ASSUME NEW i \in 1..Len(items), NEW j \in 1..Len(items), items[i] = items[j]
                 PROVE  i = j
      BY <1>4 DEF IsInjective
    <3>1. CASE i <= Len(h.items) /\ j <= Len(h.items)
      BY <1>3, <2>5, <2>6, <3>1
    <3>2. CASE i > Len(h.items) /\ j > Len(h.items)
      <4> DEFINE a == i - Len(h.items)
                 b == j - Len(h.items)
      <4>1. a \in 1..Len(page) /\ b \in 1..Len(page) /\ items[i] = page[a] /\ items[j] = page[b]
        BY <1>3, <2>6, <3>2
      <4> HIDE DEF a, b
      <4>2. a = b
        BY <2>4, <4>1
      <4> QED
        BY <1>3, <4>2 DEF a, b
    <3> QED
      BY <1>3, <2>3, <2>6, <3>1, <3>2
  <2> QED
    BY <2>2, <2>7
<1>9. ASSUME h.changes = {}
      PROVE  /\ Len(items) = (IF o + limit < n THEN o + limit ELSE n)
             /\ \A i \in 1..Len(items) : items[i] = Sorted(S)[i]
  <2>1. (o = 0 \/ o < n) /\ Len(h.items) = o /\ \A i \in 1..o : h.items[i] = Sorted(S)[i]
    BY <1>9 DEF UnderWayOK, SameOK, o, n
  <2>2. /\ Len(page) = (IF (IF o + limit < n THEN o + limit ELSE n) < o + 1 THEN 0
                         ELSE (IF o + limit < n THEN o + limit ELSE n) - o)
        /\ \A i \in 1..Len(page) : page[i] = Sorted(S)[o + i]
    BY DEF IsPage, o, n
  <2>3. Len(items) = (IF o + limit < n THEN o + limit ELSE n)
    BY <1>1, <1>3, <1>5, <2>1, <2>2
  <2>4. ASSUME NEW i \in 1..Len(items)
        PROVE  items[i] = Sorted(S)[i]
    <3>1. CASE i <= o
      BY <1>1, <1>3, <2>1, <3>1
    <3>2. CASE i > o
      <4>1. i - o \in 1..Len(page) /\ o + (i - o) = i
        BY <1>1, <1>2, <1>3, <2>1, <3>2
      <4> DEFINE j == i - o
      <4>2. items[i] = page[j]
        BY <1>3, <2>1, <4>1
      <4>3. page[j] = Sorted(S)[o + j]
        BY <2>2, <4>1
      <4> HIDE DEF j
      <4>4. o + j = i
        BY <4>1 DEF j
      <4> QED
        BY <4>2, <4>3, <4>4
    <3> QED
      BY <1>1, <3>1, <3>2
  <2> QED
    BY <2>3, <2>4
<1> QED
  BY <1>4, <1>5, <1>7, <1>8, <1>9 DEF Shown, o, n

\* A page that is read leads to the next one, or to the end.
LEMMA ReadsPage ==
  ASSUME NEW S, IsFiniteSet(S), S \subseteq ToSet(Order), NEW limit \in Nat \ {0},
         NEW h, IsResponse(h), UnderWayOK(h, S, limit), CountedOK(h, S),
         NEW page, IsPage(page, S, h.offset, limit),
         NEW g, g.items = h.items \o page, g.last = LastOffset(limit, h.total), g.cut = h.cut,
         g.stays = h.stays, g.changes = h.changes, g.total = h.total,
         g.offset = (IF HasNext(h.offset, limit, h.total) THEN h.offset + limit ELSE h.offset)
  PROVE  IF HasNext(h.offset, limit, h.total) THEN UnderWayOK(g, S, limit) ELSE Complete(g)
<1> DEFINE o == h.offset
           n == Cardinality(S)
           items == g.items
<1>1. o \in Nat /\ h.total \in Nat /\ h.stays \subseteq S
  BY DEF IsResponse, UnderWayOK
<1>2. /\ h.changes \intersect {"shrunk", "grownInPage"} = {} =>
           /\ h.total = n
           /\ \A r \in h.stays : r \in ToSet(items) \/ Place(r, S) >= o + limit
      /\ "grown" \notin h.changes =>
           IsInjective(items) /\ \A r \in ToSet(items) \intersect S : Place(r, S) < o + limit
      /\ h.changes = {} =>
           /\ items \in Seq(ToSet(items))
           /\ Len(items) = (IF o + limit < n THEN o + limit ELSE n)
           /\ \A i \in 1..Len(items) : items[i] = Sorted(S)[i]
  <2>1. h.changes \intersect {"shrunk", "grownInPage"} = {} => h.total = n
    BY DEF CountedOK
  <2>2. Shown(h, g.items, S, limit)
    BY PageShown, Zenon
  <2> QED
    BY <2>1, <2>2 DEF Shown
<1>3. n \in Nat /\ \A r \in S : Place(r, S) \in Nat /\ Place(r, S) < n
  BY PlaceIs
<1>4. h.changes = {} =>
        /\ S = h.stays /\ (o = 0 \/ o < n) /\ h.total = n
        /\ \E k \in Nat : o = k * limit
  <2>1. h.changes = {} => h.changes \intersect {"shrunk", "grownInPage"} = {}
    OBVIOUS
  <2> QED
    BY <1>2, <2>1 DEF UnderWayOK, SameOK
<1> HIDE DEF o, n, items
<1>5. CASE HasNext(h.offset, limit, h.total)
  <2>1. g.offset = o + limit /\ o + limit < h.total
    BY <1>5 DEF HasNext, o
  <2>2. StaysOK(g, S)
    BY <1>2, <2>1 DEF StaysOK, items
  <2>3. OnceOK(g, S)
    BY <1>2, <2>1 DEF OnceOK, items
  <2>4. ASSUME g.changes = {}
        PROVE  /\ S = g.stays
               /\ g.offset = 0 \/ g.offset < Cardinality(S)
               /\ \E k \in Nat : g.offset = k * limit
               /\ Len(g.items) = g.offset /\ \A i \in 1..g.offset : g.items[i] = Sorted(S)[i]
    <3>1. PICK k \in Nat : o = k * limit
      BY <1>4, <2>4
    <3>2. k + 1 \in Nat /\ (k + 1) * limit = k * limit + limit
      OBVIOUS
    <3>3. \E j \in Nat : g.offset = j * limit
      BY <2>1, <3>1, <3>2
    <3>4. o + limit < n /\ Len(items) = o + limit
      BY <1>2, <1>4, <2>1, <2>4
    <3> QED
      BY <1>2, <1>4, <2>1, <2>4, <3>3, <3>4 DEF items, n
  <2> QED
    BY <1>1, <1>5, <2>2, <2>3, <2>4 DEF UnderWayOK, SameOK
<1>6. CASE ~HasNext(h.offset, limit, h.total)
  <2>1. g.offset = o /\ o + limit >= h.total
    BY <1>1, <1>6 DEF HasNext, o
  <2>2. ASSUME g.changes \intersect {"shrunk", "grownInPage"} = {}, NEW r \in g.stays
        PROVE  r \in ToSet(g.items)
    <3>1. r \in S /\ h.total = n /\ (r \in ToSet(items) \/ Place(r, S) >= o + limit)
      BY <1>1, <1>2, <2>2
    <3> QED
      BY <1>1, <1>3, <2>1, <3>1 DEF items, o
  <2>3. ASSUME g.changes = {}
        PROVE  g.items = Sorted(g.stays) /\ Len(g.items) = g.total /\ g.last = g.offset
    <3>1. o + limit >= n /\ h.total = n /\ S = g.stays
      BY <1>4, <2>1, <2>3
    <3>2. Len(items) = n /\ items \in Seq(ToSet(items)) /\ \A i \in 1..n : items[i] = Sorted(S)[i]
      BY <1>1, <1>2, <1>3, <2>3, <3>1 DEF o
    <3>3. items = Sorted(S)
      <4>1. items = [i \in 1..n |-> items[i]]
        BY <3>2
      <4>2. Sorted(S) = [i \in 1..n |-> Sorted(S)[i]]
        BY DEF Sorted, n
      <4> QED
        BY <3>2, <4>1, <4>2, Zenon
    <3>4. g.last = o
      <4>1. PICK k \in Nat : o = k * limit
        BY <1>4, <2>3
      <4>2. CASE n = 0
        BY <1>1, <1>4, <2>3, <3>1, <4>2 DEF LastOffset, o
      <4>3. CASE n # 0
        <5>1. n - 1 \in Nat /\ k * limit <= n - 1 /\ n - 1 < k * limit + limit
          <6>1. o <= n - 1 /\ n - 1 < o + limit
            BY <1>1, <1>3, <1>4, <2>3, <3>1, <4>3 DEF o
          <6> QED
            BY <1>3, <4>1, <4>3, <6>1
        <5>2. (n - 1) \div limit = k
          BY <5>1, QuotientIs
        <5> QED
          BY <3>1, <4>1, <4>3, <5>2 DEF LastOffset
      <4> QED
        BY <4>2, <4>3
    <3> QED
      BY <2>1, <3>1, <3>2, <3>3, <3>4 DEF items
  <2>4. "grown" \notin g.changes => IsInjective(g.items)
    BY <1>2 DEF items
  <2> QED
    BY <1>6, <2>2, <2>3, <2>4 DEF Complete
<1> QED
  BY <1>5, <1>6

\* A page under way stays as it should when the rows change, as Watched notes it.
LEMMA RowsChange ==
  ASSUME NEW S, IsFiniteSet(S), NEW T, IsFiniteSet(T), NEW limit \in Nat \ {0},
         NEW h, IsResponse(h), UnderWayOK(h, S, limit), NEW inPage \in BOOLEAN,
         NEW g, g.items = h.items, g.offset = h.offset, g.cut = h.cut, g.total = h.total,
         g.stays = h.stays \intersect T,
         g.changes = h.changes \union (IF S \ T # {} THEN {"shrunk"} ELSE {})
                       \union (IF T \ S = {} THEN {} ELSE IF inPage THEN {"grown", "grownInPage"} ELSE {"grown"})
  PROVE  /\ UnderWayOK(g, T, limit)
         /\ inPage /\ CountedOK(h, S) => CountedOK(g, T)
<1>1. /\ h.offset \in Nat /\ ~h.cut /\ h.stays \subseteq S
      /\ h.changes \subseteq {"shrunk", "grown", "grownInPage"}
      /\ "grownInPage" \in h.changes => "grown" \in h.changes
  BY DEF IsResponse, UnderWayOK
<1>2. /\ h.changes \subseteq g.changes
      /\ g.changes \subseteq {"shrunk", "grown", "grownInPage"}
      /\ "grownInPage" \in g.changes => "grown" \in g.changes
      /\ "shrunk" \notin g.changes => S \subseteq T
      /\ "grown" \notin g.changes => T \subseteq S
      /\ inPage /\ "grownInPage" \notin g.changes => T \subseteq S
  BY <1>1
<1>3. StaysOK(g, T)
  <2> SUFFICES ASSUME g.changes \intersect {"shrunk", "grownInPage"} = {}, NEW r \in g.stays, r \notin ToSet(g.items)
               PROVE  Place(r, T) >= g.offset
    BY DEF StaysOK
  <2>1. S \subseteq T /\ h.changes \intersect {"shrunk", "grownInPage"} = {}
    BY <1>2
  <2>2. Place(r, S) \in Nat /\ Place(r, T) \in Nat /\ Place(r, S) <= Place(r, T)
    BY <2>1, PlaceGrows
  <2>3. Place(r, S) >= h.offset
    BY <2>1 DEF UnderWayOK, StaysOK
  <2> QED
    BY <1>1, <2>2, <2>3
<1>4. OnceOK(g, T)
  <2> SUFFICES ASSUME "grown" \notin g.changes
               PROVE  IsInjective(g.items) /\ \A r \in ToSet(g.items) \intersect T : Place(r, T) < g.offset
    BY DEF OnceOK
  <2>1. T \subseteq S /\ "grown" \notin h.changes
    BY <1>2
  <2>2. IsInjective(h.items) /\ \A r \in ToSet(h.items) \intersect S : Place(r, S) < h.offset
    BY <2>1 DEF UnderWayOK, OnceOK
  <2>3. ASSUME NEW r \in ToSet(g.items) \intersect T PROVE Place(r, T) < g.offset
    <3>1. Place(r, S) \in Nat /\ Place(r, T) \in Nat /\ Place(r, T) <= Place(r, S)
      BY <2>1, PlaceGrows
    <3>2. Place(r, S) < h.offset
      BY <2>1, <2>2
    <3> QED
      BY <1>1, <3>1, <3>2
  <2> QED
    BY <2>2, <2>3
<1>5. g.changes = {} => S = T /\ h.changes = {} /\ g.stays = h.stays
  BY <1>1, <1>2
<1>6. SameOK(g, T, limit)
  BY <1>5 DEF UnderWayOK, SameOK
<1>7. inPage /\ CountedOK(h, S) => CountedOK(g, T)
  <2> SUFFICES ASSUME inPage, CountedOK(h, S), g.changes \intersect {"shrunk", "grownInPage"} = {}
               PROVE  g.total = Cardinality(T)
    BY DEF CountedOK
  <2>1. S = T /\ h.changes \intersect {"shrunk", "grownInPage"} = {}
    BY <1>2
  <2> QED
    BY <2>1 DEF CountedOK
<1> QED
  BY <1>1, <1>2, <1>3, <1>4, <1>6, <1>7 DEF UnderWayOK

\* What a request selects changes with the rows only.
RecordOf(e, t) == [c \in {Column(t, f) : f \in DOMAIN e} |-> e[CHOOSE f \in DOMAIN e : Column(t, f) = c]]

LEMMA SelectedStays ==
  ASSUME NEW q, req' = req, db' = db
  PROVE  Selected(q)' = Selected(q)
<1>1. \A kind : Rows(kind)' = Rows(kind)
  BY DEF Rows
<1>2. \A r : Record(r)' = Record(r)
  <2> SUFFICES ASSUME NEW r PROVE Record(r)' = Record(r)
    OBVIOUS
  <2>1. Entity(r)' = Entity(r)
    BY Zenon DEF Entity
  <2> HIDE DEF Entity
  <2>2. Record(r) = RecordOf(Entity(r), Table(db[r].kind))
    BY Zenon DEF Record, RecordOf
  <2>3. Record(r)' = RecordOf(Entity(r)', Table(db'[r].kind))
    BY Zenon DEF Record, RecordOf
  <2> QED
    BY <2>1, <2>2, <2>3, Zenon
<1> HIDE DEF Record, Rows
<1>3. \A p, r, v : Where(q, p, r, v)' <=> Where(q, p, r, v)
  BY <1>2, Zenon DEF Where
<1> HIDE DEF Where
<1>4. \A p : RowsWhere(q, p)' = RowsWhere(q, p)
  BY <1>1, <1>3 DEF RowsWhere
<1> HIDE DEF RowsWhere
<1>5. GetTenants(q)' = GetTenants(q)
  BY <1>1, <1>4 DEF GetTenants
<1>6. QueryProfiles(q)' = QueryProfiles(q)
  BY <1>4 DEF QueryProfiles
<1> QED
  BY <1>5, <1>6 DEF Selected

\* A request that pages does nothing else.
LEMMA PagesDoNotStep ==
  ASSUME RInv, NEW q \in DOMAIN trx, Pages(q)
  PROVE  ~Step(q)
<1>a. req[q].op \in {"list", "query"}
  BY DEF Pages
<1>1. ~(LockTenant(q) \/ ReadCells(q) \/ ReadProfiles(q) \/ lockReferences(q) \/ StoreParticipant(q) \/ Send(q)
        \/ ReadParticipant(q) \/ WriteParticipant(q) \/ CreateTenant(q) \/ ReadTenant(q) \/ PatchTenant(q))
  BY <1>a DEF At, LockTenant, ReadCells, ReadProfiles, lockReferences, StoreParticipant, Send, ReadParticipant,
       WriteParticipant, CreateTenant, ReadTenant, PatchTenant
<1>2. ~(revertDispose(q) \/ RecordExternalDeployment(q) \/ CreateProfile(q) \/ ReadProfile(q)
        \/ LockCell(q) \/ DeployProfile(q) \/ LockAndCheck(q))
  BY <1>a DEF At, revertDispose, RecordExternalDeployment, CreateProfile, ReadProfile, LockCell,
       DeployProfile, LockAndCheck
<1>3. trx[q].pc \notin {"check", "delete"}
  BY <1>a DEF RInv, TrxOK, DeleteOK
<1>4. ~(CheckUse(q) \/ DeleteRow(q))
  BY <1>3 DEF CheckUse, DeleteRow
<1>5. ~(FindDefinitions(q) \/ StoreDefinition(q) \/ FindReferences(q) \/ FindTemplate(q)
        \/ LookUpOrchestration(q) \/ DeleteNext(q) \/ CommitDeletions(q) \/ DeleteActivityDefinition(q))
  BY <1>a DEF At, FindDefinitions, StoreDefinition, FindReferences, FindTemplate, LookUpOrchestration,
       DeleteNext, CommitDeletions, DeleteActivityDefinition
<1> QED
  BY <1>1, <1>2, <1>4, <1>5 DEF Step

LEMMA QuietPage ==
  ASSUME NEW q \in DOMAIN trx, PageOK(q), req' = req, db' = db, trx'[q].pc = trx[q].pc, http'[q] = http[q]
  PROVE  PageOK(q)'
<1>1. Selected(q)' = Selected(q)
  BY SelectedStays
<1> QED
  BY <1>1 DEF PageOK

LEMMA EndedPage ==
  ASSUME NEW q \in DOMAIN trx, trx'[q].pc \in {"refused", "internal"} \/ (trx'[q].pc = "done" /\ http'[q].cut)
  PROVE  PageOK(q)'
  BY DEF PageOK

\* A page is counted.
LEMMA CountedPage ==
  ASSUME SInv, NEW q \in DOMAIN trx, PageOK(q), Admitted(q), CountRows(q)
  PROVE  PageOK(q)'
<1>1. CASE Fails(q, "internal")
  BY <1>1, OverIs, EndedPage DEF Fails, Rollback
<1>2. CASE ~Fails(q, "internal")
  <2> DEFINE total == IF req[q].op = "list" THEN GetTenantsCount(q) ELSE QueryProfilesCount(q)
             counted == [http[q] EXCEPT !.total = total,
                                        !.mine = {r \in Rows(req[q].kind) : Allows(req[q].by, db[r].owner)}]
             h == IF trx[q].pc = "begin" THEN [counted EXCEPT !.stays = Selected(q)] ELSE counted
             S == Selected(q)
             L == Limit(req[q])
  <2>1. /\ Pages(q) /\ trx[q].pc \in {"begin", "page"} /\ http' = [http EXCEPT ![q] = h]
        /\ Continue(q, [New EXCEPT !.pc = "rows"])
    BY <1>2, Zenon DEF CountRows
  <2>2. total = Cardinality(S)
    BY <2>1, SelectedIs DEF Pages, Selected, SInv
  <2>3. IsResponse(http[q]) /\ http'[q] = h
    BY <2>1 DEF SInv, HttpOK
  <2>4. req' = req /\ db' = db /\ trx'[q].pc = "rows"
    BY <2>1 DEF Continue, New
  <2>5. S' = S /\ L' = L
    BY <2>4, SelectedStays
  <2> HIDE DEF total
  <2>6. /\ h.items = http[q].items /\ h.offset = http[q].offset /\ h.cut = http[q].cut
        /\ h.changes = http[q].changes /\ h.total = total
        /\ h.stays = IF trx[q].pc = "begin" THEN S ELSE http[q].stays
    BY <2>3 DEF IsResponse
  <2>7. UnderWayOK(h, S, L)
    <3> HIDE DEF h, S, L
    <3>1. CASE trx[q].pc = "page"
      <4>1. UnderWayOK(http[q], S, L) /\ h.stays = http[q].stays
        BY <2>6, <3>1 DEF PageOK, S, L
      <4> QED
        BY <2>6, <4>1, Zenon DEF UnderWayOK, StaysOK, OnceOK, SameOK
    <3>2. CASE trx[q].pc = "begin"
      <4>1. http[q] = NoResponse
        BY <3>2 DEF PageOK
      <4>2. h.items = <<>> /\ h.offset = 0 /\ h.cut = FALSE /\ h.changes = {} /\ h.stays = S
        BY <2>6, <3>2, <4>1 DEF NoResponse
      <4>3. IsFiniteSet(S) /\ S \subseteq ToSet(Order)
        BY <2>1, PageIs DEF SInv, S
      <4>4. \A r \in S : Place(r, S) \in Nat
        BY <4>3, PlaceIs
      <4>5. StaysOK(h, S)
        BY <4>2, <4>4 DEF StaysOK
      <4>6. OnceOK(h, S)
        BY <4>2 DEF OnceOK, IsInjective, ToSet
      <4>7. SameOK(h, S, L)
        <5>1. L \in Nat
          BY <2>1, LimitIs DEF SInv, RInv, L
        <5>2. 0 * L = 0
          BY <5>1
        <5> QED
          BY <4>2, <5>2 DEF SameOK
      <4> QED
        BY <4>2, <4>5, <4>6, <4>7 DEF UnderWayOK
    <3> QED
      BY <2>1, <3>1, <3>2
  <2>8. CountedOK(h, S)
    BY <2>2, <2>6 DEF CountedOK
  <2> HIDE DEF h
  <2> QED
    BY <2>3, <2>4, <2>5, <2>7, <2>8 DEF PageOK
<1> QED
  BY <1>1, <1>2

\* A page is read.
LEMMA ReadPage ==
  ASSUME SInv, NEW q \in DOMAIN trx, PageOK(q), Admitted(q), ReadRows(q)
  PROVE  PageOK(q)'
<1> DEFINE h == http[q]
           g == http'[q]
           S == Selected(q)
           L == Limit(req[q])
           page == Page(q)
           more == HasNext(h.offset, L, h.total)
<1>1. Pages(q) /\ trx[q].pc = "rows"
  BY DEF ReadRows
<1>2. /\ g = [h EXCEPT !.items = @ \o page, !.last = LastOffset(L, h.total),
                       !.offset = IF more THEN @ + L ELSE @]
      /\ req' = req /\ db' = db /\ trx'[q].pc = (IF more THEN "page" ELSE "done")
  <2>1. http' = [http EXCEPT ![q] = [h EXCEPT !.items = @ \o page, !.last = LastOffset(L, h.total),
                                              !.offset = IF more THEN @ + L ELSE @]]
    BY DEF ReadRows
  <2>2. Continue(q, IF more THEN [New EXCEPT !.pc = "page"] ELSE Over("done"))
    BY DEF ReadRows
  <2>3. q \in DOMAIN http
    BY DEF SInv, HttpOK
  <2>4. trx'[q] = IF more THEN [New EXCEPT !.pc = "page"] ELSE Over("done")
    BY <2>2 DEF Continue
  <2> HIDE DEF h, more, page, L
  <2>5. g = [h EXCEPT !.items = @ \o page, !.last = LastOffset(L, h.total),
                       !.offset = IF more THEN @ + L ELSE @]
    BY <2>1, <2>3
  <2> QED
    BY <2>2, <2>4, <2>5, OverIs DEF Continue, New
<1>3. IsResponse(h)
  BY DEF SInv, HttpOK
<1>4. /\ g.items = h.items \o page /\ g.last = LastOffset(L, h.total) /\ g.cut = h.cut
      /\ g.stays = h.stays /\ g.changes = h.changes /\ g.total = h.total
      /\ g.offset = (IF more THEN h.offset + L ELSE h.offset)
  <2> HIDE DEF h, g, more, page, L
  <2> QED
    BY <1>2, <1>3 DEF IsResponse
<1>5. /\ IsFiniteSet(S) /\ S \subseteq ToSet(Order) /\ L \in Nat \ {0}
      /\ IsPage(page, S, h.offset, L)
  BY <1>1, PageIs, LimitIs DEF SInv, RInv, IsPage
<1>6. UnderWayOK(h, S, L) /\ CountedOK(h, S)
  BY <1>1 DEF PageOK
<1>7. IF more THEN UnderWayOK(g, S, L) ELSE Complete(g)
  <2> HIDE DEF h, g, S, L, page
  <2> QED
    BY <1>3, <1>4, <1>5, <1>6, ReadsPage, Zenon
<1>8. Selected(q)' = S
  BY <1>2, SelectedStays
<1> QED
  BY <1>2, <1>7, <1>8 DEF PageOK

LEMMA TruncatedPage ==
  ASSUME SInv, NEW q \in DOMAIN trx, Truncate(q)
  PROVE  PageOK(q)'
<1>1. q \in DOMAIN http /\ IsResponse(http[q])
  BY DEF SInv, HttpOK
<1>2. PICK n \in 0..Len(Page(q)) :
        http' = [http EXCEPT ![q].items = @ \o SubSeq(Page(q), 1, n), ![q].cut = TRUE]
  BY DEF Truncate
<1>3. http'[q].cut
  BY <1>1, <1>2 DEF IsResponse
<1>4. trx'[q].pc = "done"
  BY OverIs DEF Truncate, Continue
<1> QED
  BY <1>3, <1>4, EndedPage

\* Another request, or a response, changes the rows.
LEMMA WatchedPage ==
  ASSUME SInv, RInv', NEW q \in DOMAIN trx, Pages(q), PageOK(q), Watched, req' = req, trx'[q].pc = trx[q].pc
  PROVE  PageOK(q)'
<1> DEFINE h == http[q]
           g == http'[q]
           S == Selected(q)
           T == Selected(q)'
           L == Limit(req[q])
           inPage == trx[q].pc = "rows"
<1>1. CASE db' = db
  <2>1. http'[q] = http[q]
    BY <1>1 DEF Watched
  <2> QED
    BY <1>1, <2>1, QuietPage
<1>2. CASE db' # db /\ trx[q].pc \notin {"rows", "page"}
  <2>1. http'[q] = http[q]
    BY <1>2, WatchedFrom, Zenon DEF UnderWay, SInv
  <2> QED
    BY <1>2, <2>1 DEF PageOK
<1>3. CASE db' # db /\ trx[q].pc \in {"rows", "page"}
  <2>1. g = [h EXCEPT !.stays = @ \intersect T,
                      !.changes = @ \union (IF S \ T # {} THEN {"shrunk"} ELSE {})
                                    \union (IF T \ S = {} THEN {}
                                            ELSE IF inPage THEN {"grown", "grownInPage"} ELSE {"grown"})]
    BY <1>3, WatchedFrom, Zenon DEF UnderWay, SInv, Noted
  <2>2. IsResponse(h)
    BY DEF SInv, HttpOK
  <2>3. IsFiniteSet(S)
    BY <1>3, PageIs DEF SInv, AdmittedOK
  <2>4. T \subseteq DOMAIN db'
    BY DEF Selected, GetTenants, QueryProfiles, RowsWhere, Rows
  <2>5. IsFiniteSet(T)
    BY <2>4, FS_Subset DEF RInv, RowsOK
  <2>6. L \in Nat \ {0} /\ inPage \in BOOLEAN
    BY LimitIs DEF SInv, RInv
  <2>7. UnderWayOK(h, S, L) /\ (inPage => CountedOK(h, S))
    BY <1>3 DEF PageOK
  <2>8. UnderWayOK(g, T, L) /\ (inPage => CountedOK(g, T))
    <3> HIDE DEF h, g, S, T, L, inPage
    <3>1. /\ g.items = h.items /\ g.offset = h.offset /\ g.cut = h.cut /\ g.total = h.total
          /\ g.stays = h.stays \intersect T
          /\ g.changes = h.changes \union (IF S \ T # {} THEN {"shrunk"} ELSE {})
                           \union (IF T \ S = {} THEN {} ELSE IF inPage THEN {"grown", "grownInPage"} ELSE {"grown"})
      BY <2>1, <2>2 DEF IsResponse
    <3> QED
      BY <2>2, <2>3, <2>5, <2>6, <2>7, <3>1, RowsChange, Zenon
  <2> QED
    BY <1>3, <2>8 DEF PageOK
<1> QED
  BY <1>1, <1>2, <1>3

\* Requests that read, or are refused or cut off, change no rows.
LEMMA ReadLeavesRows ==
  ASSUME NEW q \in DOMAIN trx, Refuse(q) \/ Read(q) \/ Truncate(q)
  PROVE  db' = db
<1>1. Refuse(q) \/ Truncate(q) => db' = db
  BY DEF Refuse, Truncate, Continue
<1>2. LookUpTenant(q) => db' = db
  BY DEF LookUpTenant, Continue, Fails, Rollback
<1> QED
  BY <1>1, <1>2, ReadMoves DEF Continue

LEMMA PageStays ==
  ASSUME SInv, RInv', [ApiNext]_apiVars, NEW q \in DOMAIN trx, Pages(q), PageOK(q)
  PROVE  PageOK(q)'
<1> USE DEF SInv
<1>a. Tame
  BY ApiIsTame
<1>1. CASE UNCHANGED apiVars
  BY <1>1, QuietPage DEF apiVars
<1>2. ASSUME NEW p \in DOMAIN trx, ActsOf(p), p # q
      PROVE  PageOK(q)'
  <2>1. trx'[q].pc = trx[q].pc
    BY <1>2, ActsAreHarmless DEF Harmless, OnlyMoves
  <2>2. CASE Watched
    BY <1>a, <2>1, <2>2, WatchedPage DEF Tame
  <2>3. CASE Refuse(p) \/ (Admitted(p) /\ Read(p)) \/ Truncate(p)
    <3>1. Answers(p)
      <4>1. CASE Refuse(p)
        BY <4>1, SilentAnswers DEF Refuse
      <4>2. CASE Admitted(p) /\ Read(p)
        BY <4>2, ReadAnswers, CountAnswers, PageAnswers DEF Read
      <4>3. CASE Truncate(p)
        BY <4>3, PageAnswers DEF Truncate, AdmittedOK
      <4> QED
        BY <2>3, <4>1, <4>2, <4>3
    <3>2. http'[q] = http[q]
      BY <1>2, <3>1 DEF Answers
    <3> QED
      BY <1>a, <2>1, <2>3, <3>2, ReadLeavesRows, QuietPage DEF Tame
  <2> QED
    BY <1>2, <2>2, <2>3 DEF ActsOf, Serve
<1>3. CASE ActsOf(q)
  <2>1. CASE Refuse(q)
    BY <2>1, OverIs, EndedPage DEF Refuse
  <2>2. CASE Admitted(q) /\ Read(q)
    <3>1. CountRows(q) \/ ReadRows(q)
      BY <2>2 DEF Read, Pages, At, GetTenant, GetParticipantProfile, GetDataspaceProfile, ListCells, ListProfiles,
           GetActivityDefinitions, GetOrchestrationDefinitions, LookUpTenant, getProfilesForTenant
    <3> QED
      BY <2>2, <3>1, CountedPage, ReadPage
  <2>3. CASE Truncate(q)
    BY <2>3, TruncatedPage
  <2> QED
    BY <1>3, <2>1, <2>2, <2>3, PagesDoNotStep DEF ActsOf, Serve
<1>4. ASSUME NEW r \in DOMAIN db, Respond(r) \/ Indexed(r), Watched
      PROVE  PageOK(q)'
  <2>1. trx'[q].pc = trx[q].pc
    BY <1>4, RespondIsTame DEF PcsStay, Indexed
  <2> QED
    BY <1>a, <1>4, <2>1, WatchedPage DEF Tame
<1> QED
  BY <1>1, <1>2, <1>3, <1>4 DEF ApiNext, ActsOf

LEMMA InitPagesOK == ApiInit => PagesOK
  BY DEF ApiInit, Init, New, PagesOK, PageOK

LEMMA NextPagesOK == SInv /\ SInv' /\ PagesOK /\ [ApiNext]_apiVars => PagesOK'
<1> SUFFICES ASSUME SInv, SInv', PagesOK, [ApiNext]_apiVars, NEW q \in DOMAIN trx', Pages(q)'
             PROVE  PageOK(q)'
  BY DEF PagesOK
<1>1. q \in DOMAIN trx /\ Pages(q)
  BY ApiIsTame DEF SInv, Tame, Pages
<1> QED
  BY <1>1, PageStays DEF SInv, PagesOK

\* A client that follows the "next" links of a listing or a query to the end has seen every
\* row that was selected all the time, unless the selection shrank or grew between the
\* count and the SELECT of a page; no row twice unless it grew; and all of them, in order,
\* as many as the total, if nothing changed.  WriteLinkHeaders compares the offset with
\* the count of the page before.
THEOREM PagesCompleteHolds == ApiSpec => []PagesComplete
<1>1. PagesOK => PagesComplete
  BY Zenon DEF PagesOK, PageOK, PagesComplete, Complete
<1>2. ApiSpec => []PagesOK
  BY InitPagesOK, NextPagesOK, ApiInvariant, PTL DEF ApiSpec
<1> QED
  BY <1>1, <1>2, PTL

-----------------------------------------------------------------------------
\* References, and what was added: with or without the requests that only read.

THEOREM Invariant == Spec => []RInv
  BY InitRInv, NextKeeps, PTL DEF Spec

\* No request, whatever others it overlaps with, leaves a participant without its tenant,
\* cell or dataspace profiles, a dataspace profile deployed to a cell that is not there, or
\* an orchestration definition without its activity definitions: the row locks of
\* lockReferences, deployDataspaceProfile and the deletions see to it, but for rows that
\* were written from an unlocked read that was out of date.
THEOREM NoDanglingHolds == (Spec => []NoDangling) /\ (ApiSpec => []NoDangling)
<1>1. RInv => NoDangling
  BY DEF RInv
<1>2. SInv => NoDangling
  BY DEF SInv, RInv
<1>3. Spec => []NoDangling
  BY <1>1, Invariant, PTL
<1>4. ApiSpec => []NoDangling
  BY <1>2, ApiInvariant, PTL
<1> QED
  BY <1>3, <1>4

\* What PatchTenant and DeployProfile added stays until it is removed, its row is deleted,
\* or a request that read the row before overwrites it.
THEOREM UpdatesKeptHolds == (Spec => []UpdatesKept) /\ (ApiSpec => []UpdatesKept)
<1>1. RInv => UpdatesKept
  <2> SUFFICES ASSUME RInv, NEW k \in kept
               PROVE  k[2] \in IF db[k[1]].kind = "dprofile" THEN db[k[1]].deployments
                               ELSE db[k[1]].properties
    BY DEF UpdatesKept
  <2>1. k[1] \in DOMAIN db /\ db[k[1]].kind = TableOf[k[1]]
    BY KindIsTable DEF RInv, KeptOK, RowsOK
  <2> QED
    BY <2>1 DEF RInv, KeptOK
<1>2. SInv => UpdatesKept
  BY <1>1 DEF SInv
<1>3. Spec => []UpdatesKept
  BY <1>1, Invariant, PTL
<1>4. ApiSpec => []UpdatesKept
  BY <1>2, ApiInvariant, PTL
<1> QED
  BY <1>3, <1>4
=============================================================================
