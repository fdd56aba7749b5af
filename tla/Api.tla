-------------------------------- MODULE Api --------------------------------
(***************************************************************************)
(* The HTTP APIs of the two managers: the checks that a request passes     *)
(* before it is served, the requests that read, with their queries and     *)
(* pages, next to the requests of References that write, and the status    *)
(* that a request ends with.  A page is two statements, a count and a      *)
(* SELECT, between which others commit; a client that pages follows the    *)
(* "next" links.                                                           *)
(***************************************************************************)
EXTENDS References, Query

CONSTANTS
  Order,     \* the ids in the order of ORDER BY id
  MaxLimit   \* the rows of a page of a query, at most

\* Order has the ids of the tables of which there are pages, and a client that pages
\* through a listing gives a limit.  A request names rows of the tables of its path.
ASSUME ApiAssumption ==
  /\ Order \in Seq(ToSet(Order)) /\ IsInjective(Order) /\ MaxLimit \in Nat \ {0}
  /\ \A i \in DOMAIN TableOf : TableOf[i] \in {"tenant", "participant"} => i \in ToSet(Order)
  /\ \A s \in Scenarios : \A q \in DOMAIN s.requests :
       LET r == s.requests[q]
       IN  /\ r.op = "list" => r.kind = "tenant" /\ r.limit \in Nat \ {0}
           /\ r.op = "query" => r.kind \in {"tenant", "participant"} /\ r.limit \in Nat
           /\ r.op = "profilesOf" => r.kind = "participant" /\ TableOf[r.id] = "tenant"
           /\ r.op = "getTenant" => TableOf[r.id] = "tenant"
           /\ r.op = "getParticipant" => TableOf[r.id] = "participant"
           /\ r.op = "getProfile" => TableOf[r.id] = "dprofile"

VARIABLES
  http  \* the response of each request that reads, and history about it

apiVars == <<req, trx, db, inUse, tainted, kept, http>>

\* Nothing is read yet.  The history: the caller's own rows when they were counted, the
\* rows that were selected from then on, and how the selection changed.
NoResponse ==
  [items |-> <<>>, total |-> 0, offset |-> 0, last |-> 0, cut |-> FALSE,
   mine |-> {}, stays |-> {}, changes |-> {}]

-----------------------------------------------------------------------------
\* What a request passes before it is served.

\* Middleware of the validator: a token that verifies, for this audience.
Authenticated(r) == r.by.valid

ToTenantManager(r) == r.op \notin {"createODef", "createADef", "deleteODef", "deleteADef",
                                   "getActivityDefinitions", "getOrchestrationDefinitions"}

\* tenantAccessMiddleware: a caller who is no administrator has a subject.
tenantAccess(r) == ToTenantManager(r) => ~IsRestricted(r.by) \/ r.by.subject # ""

\* The scope that a route requires.
TenantScope(r) ==
  CASE r.op \in {"createCell", "deleteCell", "createProfile", "deployProfile", "deleteProfile"} -> "tm:admin"
    [] r.op \in {"createTenant", "patchTenant", "deleteTenant", "deployParticipant", "dispose"} -> "tm:write"
    [] OTHER -> "tm:read"
DefinitionScope(r) ==
  IF r.op \in {"createODef", "createADef", "deleteODef", "deleteADef"} THEN "pm:admin" ELSE "pm:read"

IsAuthorized(r) == (IF ToTenantManager(r) THEN TenantScope(r) ELSE DefinitionScope(r)) \in r.by.scopes

\* ReadPayload; the parse of a predicate; the profile that deployDataspaceProfile's body
\* names is the path's.
ReadPayload(r) == r.payload = "valid"

Admitted(q) ==
  Authenticated(req[q]) /\ tenantAccess(req[q]) /\ IsAuthorized(req[q]) /\ ReadPayload(req[q])

Refuse(q) ==
  /\ trx[q].pc = "begin" /\ ~Admitted(q)
  /\ trx' = [trx EXCEPT ![q] = Over("refused")]
  /\ UNCHANGED <<req, db, inUse, tainted, kept, http>>

Success(op) ==
  CASE op \in {"createTenant", "createCell", "createProfile", "createODef", "createADef"} -> 201
    [] op \in {"deployParticipant", "dispose", "deployProfile"} -> 202
    [] OTHER -> 200

\* The status of a request that is over: what refused it, or HandleError.
Status(q) ==
  CASE trx[q].pc = "refused" ->
         (CASE ~Authenticated(req[q]) -> 401
            [] Authenticated(req[q]) /\ (~tenantAccess(req[q]) \/ ~IsAuthorized(req[q])) -> 403
            [] OTHER -> 400)
    [] trx[q].pc = "notFound" -> 404
    [] trx[q].pc = "client"   -> 400
    [] trx[q].pc = "internal" -> 500
    [] trx[q].pc = "done"     -> Success(req[q].op)

-----------------------------------------------------------------------------
\* Rows as the stores see them.

Str(x) == <<"str", x>>
Texts(s) == <<"list", [i \in DOMAIN s |-> Str(s[i])]>>

\* The four VPAs of a participant.
vpas(row) ==
  <<"list", [i \in 1 .. 4 |->
     <<"struct", [type   |-> Str(<<"connector", "credentialService", "dataPlane", "issuerService">>[i]),
                  cellId |-> Str(row.cell), state |-> Str(row.state)]>>]>>

TenantEntity(r, row) ==
  [id |-> Str(r), owner |-> Str(row.owner), properties |-> <<"map", [n \in row.properties |-> Str(n)]>>]

ParticipantEntity(r, row) ==
  [id |-> Str(r), tenantId |-> Str(row.tenant), owner |-> Str(row.owner),
   dataspaceProfileIds |-> Texts(SetToSeq(row.dprofiles)),
   participantRoles |-> <<"map", [x \in DOMAIN row.roles |-> Texts(row.roles[x])]>>,
   vpas |-> vpas(row), properties |-> <<"map", row.properties>>]

\* The entity of a row, as an in-memory store holds it.
Entity(r) ==
  IF db[r].kind = "tenant" THEN TenantEntity(r, db[r]) ELSE ParticipantEntity(r, db[r])

\* The builders of newTenantStore and newParticipantProfileStore.
TenantTable == [types |-> [properties |-> "scalar"], mappings |-> << >>]
ParticipantTable ==
  [types |-> [dataspaceProfileIds |-> "arrayOfScalars", vpas |-> "arrayOfObjects",
              participantRoles |-> "mapOfArrays", properties |-> "scalar"],
   mappings |-> [tenantId |-> "tenant_id", dataspaceProfileIds |-> "dataspace_profile_ids",
                 participantRoles |-> "participant_roles"]]

Table(kind) == IF kind = "tenant" THEN TenantTable ELSE ParticipantTable

\* tenantEntityToRecord, pProfileEntityToRecord: the columns of a row.
Record(r) ==
  LET e == Entity(r)
      t == Table(db[r].kind)
  IN  [c \in {Column(t, f) : f \in DOMAIN e} |-> e[CHOOSE f \in DOMAIN e : Column(t, f) = c]]

-----------------------------------------------------------------------------
\* What a request selects.

Nil == [kind |-> "nil"]

\* TenantAccess.Restrict.
RestrictTo(by, p) ==
  LET ofOwner == Eq(<<"owner">>, Str(by.subject))
  IN  IF ~IsRestricted(by) THEN p
      ELSE IF p.kind = "nil" THEN ofOwner
      ELSE And(<<p, ofOwner>>)

Predicate(r) ==
  CASE r.op = "list"       -> Nil
    [] r.op = "profilesOf" -> Eq(<<"tenantId">>, Str(r.id))
    [] r.op = "query"      -> ParsePredicate(r.predicate)

\* The predicate p is v on a row.
Where(q, p, r, v) ==
  \E x \in {p} : \E c \in {buildSQL(Table(req[q].kind), x)} : \E row \in {Record(r)} : Eval(c, row) = v

RowsWhere(q, p) == {r \in Rows(req[q].kind) : Where(q, p, r, "T")}

\* The statement fails: of syntax, a column or a cast.
IsError(q, p) == \E r \in Rows(req[q].kind) : Where(q, p, r, "E")

QueryProfiles(q) == RowsWhere(q, RestrictTo(req[q].by, Predicate(req[q])))

GetTenants(q) ==
  IF IsRestricted(req[q].by) THEN RowsWhere(q, RestrictTo(req[q].by, Nil)) ELSE Rows("tenant")

Selected(q) == IF req[q].op = "list" THEN GetTenants(q) ELSE QueryProfiles(q)

\* Mutant: the tenants of all owners are counted.
GetTenantsCount_All(q) == Cardinality(Rows("tenant"))

GetTenantsCount(q) ==
  IF IsRestricted(req[q].by) THEN Cardinality(RowsWhere(q, RestrictTo(req[q].by, Nil)))
  ELSE Cardinality(Rows("tenant"))

QueryProfilesCount(q) == Cardinality(RowsWhere(q, RestrictTo(req[q].by, Predicate(req[q]))))

-----------------------------------------------------------------------------
\* Reading one row, or all.

\* The transaction commits and the response is written.
Respond200(q, items) ==
  /\ trx' = [trx EXCEPT ![q] = Over("done")]
  /\ http' = [http EXCEPT ![q].items = items]
  /\ UNCHANGED <<req, db, inUse, tainted, kept>>

Fails(q, error) == Rollback(q, error) /\ UNCHANGED http

GetTenant(q) ==
  /\ At(q, "getTenant", "begin")
  /\ IF Accessible(q, req[q].id) THEN Respond200(q, <<req[q].id>>) ELSE Fails(q, "notFound")

GetParticipantProfile(q) ==
  /\ At(q, "getParticipant", "begin")
  /\ IF Accessible(q, req[q].id) /\ db[req[q].id].tenant = req[q].tenant
     THEN Respond200(q, <<req[q].id>>)
     ELSE Fails(q, "notFound")

GetDataspaceProfile(q) ==
  /\ At(q, "getProfile", "begin")
  /\ IF req[q].id \in DOMAIN db THEN Respond200(q, <<req[q].id>>) ELSE Fails(q, "notFound")

ListCells(q) == At(q, "getCells", "begin") /\ Respond200(q, SetToSeq(Rows("cell")))

ListProfiles(q) == At(q, "getProfiles", "begin") /\ Respond200(q, SetToSeq(Rows("dprofile")))

GetActivityDefinitions(q) ==
  At(q, "getActivityDefinitions", "begin") /\ Respond200(q, SetToSeq(Rows("adef")))

\* All, or those of a template.
GetOrchestrationDefinitions(q) ==
  /\ At(q, "getOrchestrationDefinitions", "begin")
  /\ Respond200(q, SetToSeq({o \in Rows("odef") : req[q].template \in {"", db[o].template}}))

\* getProfilesForTenant looks the tenant up in one transaction, and its participants in
\* another.
LookUpTenant(q) ==
  /\ At(q, "profilesOf", "begin")
  /\ IF Accessible(q, req[q].id)
     THEN Continue(q, [trx[q] EXCEPT !.pc = "profilesOf"]) /\ UNCHANGED http
     ELSE Fails(q, "notFound")

getProfilesForTenant(q) ==
  /\ At(q, "profilesOf", "profilesOf")
  /\ \/ Respond200(q, SetToSeq(QueryProfiles(q)))
     \/ Fails(q, "internal")

-----------------------------------------------------------------------------
\* Pages: ListEntities and QueryEntities.

Pages(q) == req[q].op \in {"list", "query"}
UnderWay(q) == Pages(q) /\ trx[q].pc \in {"rows", "page"}

\* A query without a limit, or with too great a one, has the greatest.
Limit(r) == IF r.op = "query" /\ (r.limit = 0 \/ r.limit > MaxLimit) THEN MaxLimit ELSE r.limit

\* The first statement.  An error of it is the response.
CountRows(q) ==
  /\ Pages(q) /\ trx[q].pc \in {"begin", "page"}
  /\ \/ Fails(q, "internal")
     \/ /\ ~IsError(q, RestrictTo(req[q].by, Predicate(req[q])))
        /\ LET total == IF req[q].op = "list" THEN GetTenantsCount(q) ELSE QueryProfilesCount(q)
               counted == [http[q] EXCEPT !.total = total,
                                          !.mine = {r \in Rows(req[q].kind) : Allows(req[q].by, db[r].owner)}]
           IN  http' = [http EXCEPT ![q] =
                          IF trx[q].pc = "begin" THEN [counted EXCEPT !.stays = Selected(q)] ELSE counted]
        /\ Continue(q, [New EXCEPT !.pc = "rows"])

\* Mutant: a page with a single row is not linked.
HasNext_Plus(offset, limit, total) == offset + limit + 1 < total

\* WriteLinkHeaders: is there a "next" link.
HasNext(offset, limit, total) == offset + limit < total

\* The offset of the "last" link.
LastOffset(limit, total) == IF total = 0 THEN 0 ELSE ((total - 1) \div limit) * limit

\* ORDER BY id: the ids of rows, each after those that come before it.
Earlier(x, r) == \E i, j \in DOMAIN Order : i < j /\ Order[i] = x /\ Order[j] = r
Place(r, rows) == Cardinality({x \in rows : Earlier(x, r)})
Sorted(rows) == [k \in 1 .. Cardinality(rows) |-> CHOOSE r \in rows : Place(r, rows) = k - 1]

\* ORDER BY id LIMIT OFFSET.  (The choice, of one value, has TLC select the rows once.)
Page(q) ==
  LET rows == CHOOSE s \in {Sorted(S) : S \in {Selected(q)}} : TRUE
      offset == http[q].offset
      end == offset + Limit(req[q])
  IN  SubSeq(rows, offset + 1, IF end < Len(rows) THEN end ELSE Len(rows))

\* The second statement, and the response, whose status is sent by now.
ReadRows(q) ==
  /\ Pages(q) /\ trx[q].pc = "rows"
  /\ LET h == http[q]
         limit == Limit(req[q])
         more == HasNext(h.offset, limit, h.total)
     IN  /\ http' = [http EXCEPT ![q].items = @ \o Page(q),
                                 ![q].last = LastOffset(limit, h.total),
                                 ![q].offset = IF more THEN @ + limit ELSE @]
         /\ Continue(q, IF more THEN [New EXCEPT !.pc = "page"] ELSE Over("done"))

\* An error in the middle ends the array, which the client cannot tell from the end.
Truncate(q) ==
  /\ Pages(q) /\ trx[q].pc = "rows"
  /\ \E n \in 0 .. Len(Page(q)) :
       http' = [http EXCEPT ![q].items = @ \o SubSeq(Page(q), 1, n), ![q].cut = TRUE]
  /\ Continue(q, Over("done"))

\* History of the pages under way when rows change.
Watched ==
  http' = IF db' = db THEN http
          ELSE [q \in DOMAIN http |->
                 IF ~UnderWay(q) THEN http[q]
                 ELSE LET after == Selected(q)'
                          shrunk == IF Selected(q) \ after # {} THEN {"shrunk"} ELSE {}
                          grown == IF after \ Selected(q) = {} THEN {}
                                   ELSE IF trx[q].pc = "rows" THEN {"grown", "grownInPage"} ELSE {"grown"}
                      IN  [http[q] EXCEPT !.stays = @ \intersect after,
                                          !.changes = @ \union shrunk \union grown]]

-----------------------------------------------------------------------------
ApiInit == Init /\ http = [q \in DOMAIN req |-> NoResponse]

Read(q) ==
  \/ GetTenant(q) \/ GetParticipantProfile(q) \/ GetDataspaceProfile(q)
  \/ ListCells(q) \/ ListProfiles(q) \/ GetActivityDefinitions(q) \/ GetOrchestrationDefinitions(q)
  \/ LookUpTenant(q) \/ getProfilesForTenant(q)
  \/ CountRows(q) \/ ReadRows(q)

Serve(q) == Refuse(q) \/ (Admitted(q) /\ (Read(q) \/ (Step(q) /\ Watched)))

ApiNext ==
  \/ \E q \in DOMAIN trx :
       \/ Serve(q)
       \/ Truncate(q)
       \/ ~Pages(q) /\ Abort(q) /\ Watched
  \/ \E r \in DOMAIN db : (Respond(r) \/ Indexed(r)) /\ Watched

ApiSpec == ApiInit /\ [][ApiNext]_apiVars

\* A goroutine that can go on does, and a client that pages follows the links.
FairApiSpec == ApiSpec /\ \A q \in Callers : WF_apiVars(q \in DOMAIN trx /\ Serve(q))

-----------------------------------------------------------------------------
\* Properties.

\* A client that follows the "next" links to the end has every row that was selected all
\* the time, unless the selection shrank, or grew between the count and the SELECT of a
\* page; it has no row twice unless the selection grew; and if nothing changed it has all
\* rows in order, as many as the total, and the last page was the one of the "last" link.
PagesComplete ==
  \A q \in DOMAIN trx : Pages(q) /\ trx[q].pc = "done" /\ ~http[q].cut =>
    LET h == http[q]
    IN  /\ h.changes \intersect {"shrunk", "grownInPage"} = {} => h.stays \subseteq ToSet(h.items)
        /\ "grown" \notin h.changes => IsInjective(h.items)
        /\ h.changes = {} =>
             /\ h.items = Sorted(h.stays)
             /\ Len(h.items) = h.total
             /\ h.last = h.offset

\* The tenant that a request names, or the participant.
Named(r) ==
  CASE r.op \in {"getTenant", "patchTenant", "deleteTenant", "profilesOf", "getParticipant", "dispose"} -> {r.id}
    [] r.op = "deployParticipant" -> {r.tenant}
    [] OTHER -> {}

\* A caller without the admin scope finds nothing of the tenants and participants of
\* other owners: whatever it asks, and whoever changes them meanwhile, they are in no
\* response and in no total, and a request that names one ends as if it did not exist.
OthersAreInvisible ==
  \A q \in DOMAIN trx : IsRestricted(req[q].by) =>
    /\ \A r \in ToSet(http[q].items) \intersect (Rows("tenant") \union Rows("participant")) : Accessible(q, r)
    /\ http[q].total <= Cardinality(http[q].mine)
    /\ IsOver(q) => \A r \in Named(req[q]) \intersect DOMAIN db :
                      Accessible(q, r) \/ trx[q].pc = "refused" \/ Status(q) = 404
=============================================================================
