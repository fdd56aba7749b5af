----------------------------- MODULE References -----------------------------
(***************************************************************************)
(* The requests that create, change and delete what refers to each other:  *)
(* participants to their tenant, cell and dataspace profiles, dataspace    *)
(* profiles to the cells they are deployed to, orchestration definitions   *)
(* to activity definitions.  Each request is a transaction of one          *)
(* goroutine on a database that isolates no more than READ COMMITTED: a    *)
(* statement sees what is committed, and rows are locked only by FOR       *)
(* SHARE, FOR UPDATE, and writes.                                          *)
(***************************************************************************)
EXTENDS FiniteSets, Naturals, SequencesExt

CONSTANTS
  Scenarios,  \* requests made at once, and the rows they find
  Callers,    \* the requests of a scenario are numbered by these, not by 0
  TableOf     \* the table of each id: no two tables have an id in common

IsTenant(row) == DOMAIN row = {"kind", "owner", "properties"} /\ row.kind = "tenant"

IsProfile(row) ==
  /\ DOMAIN row = {"kind", "deployments"} /\ row.kind = "dprofile"
  /\ \A c \in row.deployments : TableOf[c] = "cell"

IsParticipant(row) ==
  /\ DOMAIN row = {"kind", "tenant", "owner", "cell", "dprofiles", "roles", "properties", "state", "pending"}
  /\ row.kind = "participant"
  /\ TableOf[row.tenant] = "tenant"
  /\ TableOf[row.cell] = "cell"
  /\ \A d \in row.dprofiles : TableOf[d] = "dprofile"

IsODef(row) == row.kind = "odef" /\ \A a \in row.types : TableOf[a] = "adef"

\* A row of the table t.
IsRow(row, t) ==
  CASE t = "tenant" -> IsTenant(row)
    [] t = "dprofile" -> IsProfile(row)
    [] t = "participant" -> IsParticipant(row)
    [] t = "odef" -> IsODef(row)
    [] OTHER -> row.kind = t /\ t \in {"cell", "adef"}

\* The keys of orchestration definitions, present or not.
ODefs == {o \in DOMAIN TableOf : TableOf[o] = "odef"}

\* What a row refers to is there.
Refers(rows, row) ==
  CASE row.kind = "dprofile" -> row.deployments \subseteq DOMAIN rows
    [] row.kind = "odef" -> row.types \subseteq DOMAIN rows
    [] row.kind = "participant" ->
         /\ row.tenant \in DOMAIN rows
         /\ row.owner = rows[row.tenant].owner
         /\ row.state # "disposed" => {row.cell} \union row.dprofiles \subseteq DOMAIN rows
    [] OTHER -> TRUE

\* Requests that create a row generate its id.
Creates(r) == r.op \in {"createTenant", "deployParticipant", "createCell", "createProfile"}

\* The rows that a request names are of the tables that its handler finds them in.
IsRequest(r) ==
  /\ r.op \in {"createTenant", "patchTenant", "deleteTenant"} => TableOf[r.id] = "tenant"
  /\ r.op \in {"deployParticipant", "dispose"} => TableOf[r.id] = "participant"
  /\ r.op \in {"createCell", "deleteCell"} => TableOf[r.id] = "cell"
  /\ r.op \in {"createProfile", "deployProfile", "deleteProfile"} => TableOf[r.id] = "dprofile"
  /\ r.op = "deleteADef" => TableOf[r.id] = "adef"
  /\ r.op = "deployParticipant" => TableOf[r.tenant] = "tenant"
  /\ r.op = "deployProfile" => TableOf[r.cell] = "cell"
  /\ r.op = "createODef" => \A o \in DOMAIN r.defs : o \in ODefs /\ IsODef(r.defs[o])
  /\ r.op = "createADef" => \A a \in DOMAIN r.defs : TableOf[a] = "adef" /\ r.defs[a].kind = "adef"

\* The database that the requests find is consistent, and waits for no orchestration.
ASSUME ReferencesAssumption ==
  \A s \in Scenarios :
    /\ DOMAIN s.requests \subseteq Callers /\ 0 \notin Callers
    /\ IsFiniteSet(DOMAIN s.rows) /\ DOMAIN s.rows \subseteq DOMAIN TableOf
    /\ \A r \in DOMAIN s.rows :
         /\ IsRow(s.rows[r], TableOf[r]) /\ Refers(s.rows, s.rows[r])
         /\ TableOf[r] = "participant" => s.rows[r].pending = 0
    /\ \A q \in DOMAIN s.requests :
         /\ IsRequest(s.requests[q])
         /\ Creates(s.requests[q]) =>
              /\ s.requests[q].id \in DOMAIN TableOf \ DOMAIN s.rows
              /\ \A p \in DOMAIN s.requests \ {q} :
                   Creates(s.requests[p]) => s.requests[p].id # s.requests[q].id

VARIABLES
  req,      \* the requests
  trx,      \* the transaction of each request
  db,       \* committed rows
  inUse,    \* orchestration definitions with an entry in the index
  tainted,  \* history: rows that a transaction wrote or deleted whose unlocked reads were
            \* out of date, unless created or deleted since
  kept      \* history: <<row, element>> that successful requests added

vars == <<req, trx, db, inUse, tainted, kept>>

Rows(kind) == {r \in DOMAIN db : db[r].kind = kind}

\* A request that was not served yet, and one that is over: it is done, or failed with
\* ErrNotFound, with an error that is the client's, or with any other.
New == [pc |-> "begin", share |-> {}, excl |-> {}, read |-> {}, stale |-> FALSE,
        value |-> << >>, lock |-> <<>>, stored |-> {}]
Over(how) == [New EXCEPT !.pc = how]
IsOver(q) == trx[q].pc \in {"done", "notFound", "client", "internal", "refused"}

CanShare(q, r) == \A p \in DOMAIN trx \ {q} : r \notin trx[p].excl
CanExclude(q, r) == \A p \in DOMAIN trx \ {q} : r \notin trx[p].excl \union trx[p].share

-----------------------------------------------------------------------------
\* Execute: every error rolls back, which releases the locks.
Rollback(q, error) ==
  /\ trx' = [trx EXCEPT ![q] = Over(error)]
  /\ UNCHANGED <<req, db, inUse, tainted, kept>>

\* The transaction goes on, having written nothing yet.
Continue(q, t) ==
  /\ trx' = [trx EXCEPT ![q] = t]
  /\ UNCHANGED <<req, db, inUse, tainted, kept>>

\* What a change of rows does to the transactions that read them.
Outdated(t, rows) == IF t.read \intersect rows # {} THEN [t EXCEPT !.stale = TRUE] ELSE t

Removed(q) == IF req[q].op = "patchTenant" THEN {req[q].id} \X req[q].remove ELSE {}

\* Commit of a transaction that leaves the database as d; the request goes on as t.
CommitTo(q, d, t, added) ==
  LET rows == {r \in DOMAIN d \union DOMAIN db :
                 ~(r \in DOMAIN d /\ r \in DOMAIN db /\ d[r] = db[r])}
  IN  /\ db' = d
      /\ trx' = [p \in DOMAIN trx |-> IF p = q THEN t ELSE Outdated(trx[p], rows)]
      /\ tainted' = IF trx[q].stale THEN tainted \union rows
                    ELSE tainted \ {r \in rows : r \notin DOMAIN d \/ r \notin DOMAIN db}
      /\ kept' = ({k \in kept : ~(k[1] \in rows /\ (trx[q].stale \/ k[1] \notin DOMAIN d))}
                    \ Removed(q)) \union added
      /\ UNCHANGED <<req, inUse>>

\* INSERT, which a row with the key makes fail.
Create(q, r, value, t) ==
  IF r \in DOMAIN db THEN Rollback(q, "internal")
  ELSE CommitTo(q, [x \in DOMAIN db \union {r} |-> IF x = r THEN value ELSE db[x]], t, {})

\* UPDATE of all columns; it waits for the locks on the row, and a row that is gone
\* is ErrNotFound.
Update(q, r, value, t, added) ==
  IF r \notin DOMAIN db THEN Rollback(q, "notFound")
  ELSE CanExclude(q, r) /\ CommitTo(q, [db EXCEPT ![r] = value], t, added)

\* DELETE, like Update, with the error for rows that are gone.
Delete(q, rows, how, error) ==
  IF ~(rows \subseteq DOMAIN db) THEN Rollback(q, error)
  ELSE /\ \A r \in rows : CanExclude(q, r)
       /\ CommitTo(q, [x \in DOMAIN db \ rows |-> db[x]], Over(how), {})

\* FindByIDAndLock, which waits for the locks of others.
FindAndShare(q, r, ok, t, error) ==
  /\ CanShare(q, r)
  /\ IF r \in DOMAIN db /\ ok
     THEN Continue(q, [t EXCEPT !.share = @ \union {r}])
     ELSE Rollback(q, error)

\* Mutant: the row is read without a lock.
FindAndExclude_Unlocked(q, r, ok, t, error) ==
  IF r \in DOMAIN db /\ ok THEN Continue(q, t) ELSE Rollback(q, error)

FindAndExclude(q, r, ok, t, error) ==
  /\ CanExclude(q, r)
  /\ IF r \in DOMAIN db /\ ok
     THEN Continue(q, [t EXCEPT !.excl = @ \union {r}])
     ELSE Rollback(q, error)

-----------------------------------------------------------------------------
\* TenantAccess.Allows: an administrator has access to all tenants, others to their own.
IsRestricted(by) == "tm:admin" \notin by.scopes
Allows(by, owner) == ~IsRestricted(by) \/ (by.subject # "" /\ owner = by.subject)

\* checkTenantAccess, checkProfileAccess: the row of another owner is not found.
Accessible(q, r) == r \in DOMAIN db /\ Allows(req[q].by, db[r].owner)

At(q, op, pc) == req[q].op = op /\ trx[q].pc = pc

-----------------------------------------------------------------------------
\* Participants.

LockTenant(q) ==
  /\ At(q, "deployParticipant", "begin")
  /\ FindAndShare(q, req[q].tenant, Accessible(q, req[q].tenant), [trx[q] EXCEPT !.pc = "cells"],
                  "notFound")

ReadCells(q) ==
  /\ At(q, "deployParticipant", "cells")
  /\ Continue(q, [trx[q] EXCEPT !.pc = "profiles", !.value = [x \in Rows("cell") |-> db[x]]])

\* The dataspace profiles asked for, or all; none is an error.
getFilteredProfiles(wanted) ==
  {d \in Rows("dprofile") : wanted = {} \/ d \in wanted}

\* The first active cell with a deployment of one of the profiles, in the order the
\* database returned the cells in, which is any order.
defaultCellSelector(cells, profiles) ==
  {c \in DOMAIN cells : cells[c].active /\ \E d \in profiles : c \in db[d].deployments}

\* The participant with its VPAs, which share a cell and a state, and the request whose
\* orchestration it waits for; its owner is the owner of its tenant.
Generate(q, c, profiles) ==
  [kind |-> "participant", tenant |-> req[q].tenant, owner |-> db[req[q].tenant].owner, cell |-> c,
   dprofiles |-> profiles, roles |-> req[q].roles, properties |-> req[q].properties,
   state |-> "pending", pending |-> q]

ReadProfiles(q) ==
  /\ At(q, "deployParticipant", "profiles")
  /\ LET profiles == getFilteredProfiles(req[q].wanted)
         cells == defaultCellSelector(trx[q].value, profiles)
     IN  \/ /\ cells = {}
            /\ Rollback(q, "internal")
         \/ \E c \in cells : \E ds \in SetToSeqs(profiles) :
              Continue(q, [trx[q] EXCEPT !.pc = "references", !.lock = <<c>> \o ds,
                                         !.value = Generate(q, c, profiles)])

\* Mutant: the references are locked for an update.
lockReferences_Exclusive(q) ==
  /\ At(q, "deployParticipant", "references") /\ trx[q].lock # <<>>
  /\ FindAndExclude(q, Head(trx[q].lock), TRUE, [trx[q] EXCEPT !.lock = Tail(@)], "client")

\* lockReferences, one at a time; one that was deleted since is an error.
lockReferences(q) ==
  /\ At(q, "deployParticipant", "references") /\ trx[q].lock # <<>>
  /\ FindAndShare(q, Head(trx[q].lock), TRUE, [trx[q] EXCEPT !.lock = Tail(@)], "client")

\* The profile is committed; then the orchestration is requested.
StoreParticipant(q) ==
  /\ At(q, "deployParticipant", "references") /\ trx[q].lock = <<>>
  /\ Create(q, req[q].id, trx[q].value, Over("send"))

\* The request for the orchestration is sent, or not: then the profile is removed again.
Send(q) ==
  /\ At(q, "deployParticipant", "send")
  /\ \/ Continue(q, Over("done"))
     \/ Delete(q, {req[q].id}, "internal", "internal")

\* DisposeProfile reads without a lock.
ReadParticipant(q) ==
  /\ At(q, "dispose", "begin")
  /\ LET p == req[q].id
     IN  IF ~Accessible(q, p) THEN Rollback(q, "notFound")
         ELSE IF db[p].tenant # req[q].tenant THEN Rollback(q, "notFound")
         ELSE IF db[p].state # "active" \/ getFilteredProfiles(db[p].dprofiles) = {}
         THEN Rollback(q, "internal")
         ELSE Continue(q, [trx[q] EXCEPT !.pc = "write", !.read = {p},
                             !.value = [db[p] EXCEPT !.state = "disposing", !.pending = q]])

WriteParticipant(q) ==
  /\ At(q, "dispose", "write")
  /\ Update(q, req[q].id, trx[q].value, Over("send"), {})

\* The request is sent, or not, and then the participant is active again, unless it
\* waits for another orchestration by now.
revertDispose(q) ==
  /\ At(q, "dispose", "send")
  /\ \/ Continue(q, Over("done"))
     \/ IF req[q].id \in DOMAIN db /\ db[req[q].id].pending = q
        THEN Update(q, req[q].id, [db[req[q].id] EXCEPT !.state = "active", !.pending = 0],
                    Over("internal"), {})
        ELSE Rollback(q, "internal")

\* The response to the orchestration that a participant waits for, once it is sent.  A
\* disposal ends disposed, failed or not, and so does the compensation of a failed
\* deployment, which stays pending.
Respond(p) ==
  /\ p \in Rows("participant") /\ db[p].pending # 0
  /\ trx[db[p].pending].pc = "done"
  /\ \E s \in CASE db[p].state = "pending" -> {"active", "error"}
                [] db[p].state \in {"disposing", "error"} -> {"disposed"}
                [] OTHER -> {} :
       \E answered \in IF s = "active" THEN {TRUE} ELSE IF s = "error" THEN {FALSE} ELSE BOOLEAN :
         db' = [db EXCEPT ![p].state = s, ![p].pending = IF answered THEN 0 ELSE @]
  /\ trx' = [q \in DOMAIN trx |-> Outdated(trx[q], {p})]
  /\ UNCHANGED <<req, inUse, tainted, kept>>

-----------------------------------------------------------------------------
\* Tenants.

CreateTenant(q) ==
  /\ At(q, "createTenant", "begin")
  /\ Create(q, req[q].id, [kind |-> "tenant", owner |-> req[q].by.subject, properties |-> {}],
            Over("done"))

\* PatchTenant reads without a lock.
ReadTenant(q) ==
  /\ At(q, "patchTenant", "begin")
  /\ IF Accessible(q, req[q].id)
     THEN Continue(q, [trx[q] EXCEPT !.pc = "write", !.read = {req[q].id},
                         !.value = [db[req[q].id] EXCEPT !.properties = (@ \union req[q].add) \ req[q].remove]])
     ELSE Rollback(q, "notFound")

PatchTenant(q) ==
  /\ At(q, "patchTenant", "write")
  /\ Update(q, req[q].id, trx[q].value, Over("done"), {req[q].id} \X (req[q].add \ req[q].remove))

-----------------------------------------------------------------------------
\* Cells and dataspace profiles.

\* RecordExternalDeployment counts the cells with the external id, if there is one, by a
\* field that the SQL store has no column for: the statement fails.
RecordExternalDeployment(q) ==
  /\ At(q, "createCell", "begin")
  /\ IF req[q].externalID # "" THEN Rollback(q, "internal")
     ELSE Create(q, req[q].id, [kind |-> "cell", active |-> req[q].active], Over("done"))

CreateProfile(q) ==
  /\ At(q, "createProfile", "begin")
  /\ Create(q, req[q].id, [kind |-> "dprofile", deployments |-> {}], Over("done"))

\* Mutant: the deployment replaces the earlier ones.
ReadProfile_Replaced(q) ==
  /\ At(q, "deployProfile", "begin")
  /\ IF req[q].id \in DOMAIN db
     THEN Continue(q, [trx[q] EXCEPT !.pc = "cell", !.read = {req[q].id},
                                     !.value = [db[req[q].id] EXCEPT !.deployments = {req[q].cell}]])
     ELSE Rollback(q, "notFound")

\* DeployProfile reads the dataspace profile without a lock, locks the cell, and
\* writes the profile.
ReadProfile(q) ==
  /\ At(q, "deployProfile", "begin")
  /\ IF req[q].id \in DOMAIN db
     THEN Continue(q, [trx[q] EXCEPT !.pc = "cell", !.read = {req[q].id},
                                     !.value = [db[req[q].id] EXCEPT !.deployments = @ \union {req[q].cell}]])
     ELSE Rollback(q, "notFound")

LockCell(q) ==
  /\ At(q, "deployProfile", "cell")
  /\ FindAndShare(q, req[q].cell, TRUE, [trx[q] EXCEPT !.pc = "write"], "notFound")

DeployProfile(q) ==
  /\ At(q, "deployProfile", "write")
  /\ Update(q, req[q].id, trx[q].value, Over("done"), {<<req[q].id, req[q].cell>>})

-----------------------------------------------------------------------------
\* Deletions lock the row, look for what uses it, and delete it.

LockAndCheck(q) ==
  /\ req[q].op \in {"deleteTenant", "deleteCell", "deleteProfile"} /\ trx[q].pc = "begin"
  /\ FindAndExclude(q, req[q].id, req[q].op = "deleteTenant" => Accessible(q, req[q].id),
                    [trx[q] EXCEPT !.pc = "check"], "notFound")

\* DeleteTenant counts disposed participants too.
TenantInUse(t) == \E p \in Rows("participant") : db[p].tenant = t

participantUsesCell(p, c) == db[p].cell = c /\ db[p].state # "disposed"

dataspaceProfileUsesCell(d, c) == c \in db[d].deployments

participantIsDisposed(p) == db[p].state = "disposed"

CellInUse(c) ==
  \/ \E p \in Rows("participant") : participantUsesCell(p, c)
  \/ \E d \in Rows("dprofile") : dataspaceProfileUsesCell(d, c)

ProfileInUse(d) == \E p \in Rows("participant") : d \in db[p].dprofiles /\ ~participantIsDisposed(p)

CheckUse(q) ==
  /\ trx[q].pc = "check"
  /\ IF CASE req[q].op = "deleteTenant"  -> TenantInUse(req[q].id)
          [] req[q].op = "deleteCell"    -> CellInUse(req[q].id)
          [] req[q].op = "deleteProfile" -> ProfileInUse(req[q].id)
     THEN Rollback(q, "client")
     ELSE Continue(q, [trx[q] EXCEPT !.pc = "delete"])

DeleteRow(q) ==
  /\ req[q].op \in {"deleteTenant", "deleteCell", "deleteProfile"} /\ trx[q].pc = "delete"
  /\ Delete(q, {req[q].id}, "done", "notFound")

-----------------------------------------------------------------------------
\* The definitions of the Provision Manager, which take no locks but those of writes.

\* A template's orchestration definitions are created in any order, one transaction
\* each, up to the first that fails.
Left(q) == DOMAIN req[q].defs \ trx[q].stored

\* CreateOrchestrationDefinition finds the activity definitions; then it and
\* CreateActivityDefinition ask whether the definition exists.
FindDefinitions(q) ==
  /\ req[q].op \in {"createODef", "createADef"} /\ trx[q].pc = "begin"
  /\ \E d \in Left(q) :
       LET types == IF req[q].op = "createODef" THEN req[q].defs[d].types ELSE {}
       IN  IF ~(types \subseteq DOMAIN db) THEN Rollback(q, "client")
           ELSE Continue(q, [trx[q] EXCEPT !.pc = IF d \in DOMAIN db THEN "update" ELSE "insert",
                                           !.read = types, !.value = [def |-> d]])

\* StoreOrchestrationDefinition, StoreActivityDefinition: an UPDATE and an INSERT wait for
\* a deletion of the row.
StoreDefinition(q) ==
  /\ req[q].op \in {"createODef", "createADef"} /\ trx[q].pc \in {"update", "insert"}
  /\ CanExclude(q, trx[q].value.def)
  /\ LET d == trx[q].value.def
         then == IF Left(q) = {d} THEN Over("done")
                 ELSE [New EXCEPT !.stored = trx[q].stored \union {d}]
     IN  IF trx[q].pc = "update" THEN Update(q, d, req[q].defs[d], then, {})
         ELSE Create(q, d, req[q].defs[d], then)

ActivityDefinitionReferences(a) == {o \in Rows("odef") : a \in db[o].types}

\* DeleteActivityDefinition looks at all orchestration definitions.
FindReferences(q) ==
  /\ At(q, "deleteADef", "begin")
  /\ IF req[q].id \notin DOMAIN db THEN Rollback(q, "notFound")
     ELSE IF ActivityDefinitionReferences(req[q].id) # {} THEN Rollback(q, "client")
     ELSE Continue(q, [trx[q] EXCEPT !.pc = "delete", !.read = {req[q].id} \union ODefs])

DeleteActivityDefinition(q) ==
  /\ At(q, "deleteADef", "delete")
  /\ Delete(q, {req[q].id}, "done", "client")

\* DeleteOrchestrationDefinition deletes all definitions of a template in one
\* transaction, one at a time, in the order that the database returned them in, which is
\* any order.
FindTemplate(q) ==
  /\ At(q, "deleteODef", "begin")
  /\ LET defs == {o \in Rows("odef") : db[o].template = req[q].template}
     IN  IF defs = {} THEN Rollback(q, "notFound")
         ELSE \E ds \in SetToSeqs(defs) :
                Continue(q, [trx[q] EXCEPT !.pc = "lookUp", !.lock = ds])

\* The next definition may not have an orchestration in the index.
LookUpOrchestration(q) ==
  /\ At(q, "deleteODef", "lookUp") /\ trx[q].lock # <<>>
  /\ IF Head(trx[q].lock) \in inUse THEN Rollback(q, "client")
     ELSE Continue(q, [trx[q] EXCEPT !.pc = "deleteNext"])

\* Its DELETE waits for the locks of others and locks the row, which others see until
\* the commit; a row that is gone by then is an error.
DeleteNext(q) ==
  /\ At(q, "deleteODef", "deleteNext")
  /\ FindAndExclude(q, Head(trx[q].lock), TRUE,
                    [trx[q] EXCEPT !.pc = "lookUp", !.lock = Tail(@)], "client")

CommitDeletions(q) ==
  /\ At(q, "deleteODef", "lookUp") /\ trx[q].lock = <<>>
  /\ CommitTo(q, [x \in DOMAIN db \ trx[q].excl |-> db[x]], Over("done"), {})

\* The entry of an orchestration reaches the index.
Indexed(o) ==
  /\ o \in Rows("odef") \ inUse
  /\ inUse' = inUse \union {o}
  /\ UNCHANGED <<req, trx, db, tainted, kept>>

-----------------------------------------------------------------------------
Init ==
  \E s \in Scenarios :
    /\ db = s.rows
    /\ req = s.requests
    /\ trx = [q \in DOMAIN req |-> New]
    /\ inUse = {} /\ tainted = {} /\ kept = {}

\* The connection fails, or the caller cancels: the database rolls back.
Abort(q) == trx[q].pc \notin {"begin", "send"} /\ ~IsOver(q) /\ Rollback(q, "internal")

Step(q) ==
  \/ LockTenant(q) \/ ReadCells(q) \/ ReadProfiles(q) \/ lockReferences(q)
  \/ StoreParticipant(q) \/ Send(q) \/ ReadParticipant(q) \/ WriteParticipant(q)
  \/ CreateTenant(q) \/ ReadTenant(q) \/ PatchTenant(q)
  \/ revertDispose(q) \/ RecordExternalDeployment(q)
  \/ CreateProfile(q) \/ ReadProfile(q) \/ LockCell(q) \/ DeployProfile(q)
  \/ LockAndCheck(q) \/ CheckUse(q) \/ DeleteRow(q)
  \/ FindDefinitions(q) \/ StoreDefinition(q) \/ FindReferences(q)
  \/ DeleteActivityDefinition(q)
  \/ FindTemplate(q) \/ LookUpOrchestration(q) \/ DeleteNext(q) \/ CommitDeletions(q)

Next ==
  \/ \E q \in DOMAIN trx : Step(q) \/ Abort(q)
  \/ \E r \in DOMAIN db : Respond(r) \/ Indexed(r)

Spec == Init /\ [][Next]_vars

-----------------------------------------------------------------------------
\* Properties.

\* Whatever requests overlap, what a row refers to is there: the tenant of every
\* participant, with the same owner; the cell and the dataspace profiles of every
\* participant that is not disposed; the cells of a dataspace profile's deployments;
\* the activity definitions of an orchestration definition.  The last three hold
\* but for rows that were written from an unlocked read that was out of date.
NoDangling ==
  /\ \A p \in Rows("participant") :
       /\ db[p].tenant \in Rows("tenant")
       /\ db[p].owner = db[db[p].tenant].owner
       /\ db[p].state = "disposed" \/ p \in tainted
            \/ {db[p].cell} \union db[p].dprofiles \subseteq DOMAIN db
  /\ \A d \in Rows("dprofile") \ tainted : db[d].deployments \subseteq DOMAIN db
  /\ \A o \in Rows("odef") \ tainted : db[o].types \subseteq DOMAIN db \union tainted

\* A deployment of a dataspace profile or a property of a tenant that a successful
\* request added stays, through all later requests, until the row is deleted, the
\* property is removed, or a request overwrites the row that read it before.
UpdatesKept ==
  \A k \in kept :
    LET row == db[k[1]] IN k[2] \in IF row.kind = "dprofile" THEN row.deployments ELSE row.properties

\* The definition that the next statement of a request writes.
Writes(q) ==
  CASE trx[q].pc = "deleteNext"           -> {Head(trx[q].lock)}
    [] trx[q].pc \in {"update", "insert"} -> {trx[q].value.def}
    [] OTHER                              -> {}

WaitsFor(q, p) == p # q /\ Writes(q) \intersect trx[p].excl # {}

\* Deletions of templates that have each deleted a definition that another is to delete
\* next, having found them in other orders, and the requests that wait for one of them.
InDeadlock(q) ==
  \E S \in SUBSET {p \in DOMAIN trx : req[p].op = "deleteODef"} \ {{}} :
    \A p \in S \union {q} : \E x \in S : WaitsFor(p, x)

\* Every request that is served ends, without the database's deadlock detection: no
\* requests wait for each other's locks but deletions of templates.
TransactionsEnd ==
  \A q \in Callers :
    (q \in DOMAIN trx /\ trx[q].pc # "begin") ~> (q \in DOMAIN trx /\ (IsOver(q) \/ InDeadlock(q)))
=============================================================================
