------------------------------- MODULE MCApi -------------------------------
EXTENDS Stores

Claims(subject, scopes) == [valid |-> TRUE, subject |-> subject, scopes |-> scopes]
Admin == Claims("admin", {"tm:admin", "tm:write", "tm:read", "pm:admin", "pm:read"})
Operator == Claims("operator", {"pm:admin"})
Client(subject) == Claims(subject, {"tm:write", "tm:read"})
NoToken == [valid |-> FALSE, subject |-> "", scopes |-> {}]

Req(by, r) == [by |-> by, payload |-> "valid"] @@ r

Ids == <<"p1", "p2", "p3", "p4", "t0", "t1", "t2", "t3">>
SortsBefore == {<<Ids[x[1]], Ids[x[2]]>> : x \in {y \in (DOMAIN Ids) \X (DOMAIN Ids) : y[1] < y[2]}}

Tables ==
  [i \in {"t0", "t1", "t2", "t3"} |-> "tenant"] @@ [i \in {"c1", "c2", "c3"} |-> "cell"]
  @@ [i \in {"d1", "d2", "d3"} |-> "dprofile"] @@ [i \in {"p1", "p2", "p3", "p4"} |-> "participant"]
  @@ [i \in {"a1", "a2"} |-> "adef"] @@ [i \in {"o1", "o2"} |-> "odef"]

Participant(tenant, owner, ds, roles, properties) ==
  [kind |-> "participant", tenant |-> tenant, owner |-> owner, cell |-> "c1", dprofiles |-> ds,
   roles |-> roles, properties |-> properties, state |-> "active", pending |-> 0]

\* Two tenants, a participant of one, two cells, two dataspace profiles of which the
\* first is deployed to the first cell.
TenantRows ==
  [t1 |-> [kind |-> "tenant", owner |-> "own", properties |-> {}],
   t2 |-> [kind |-> "tenant", owner |-> "other", properties |-> {"x"}],
   c1 |-> [kind |-> "cell", active |-> TRUE],
   c2 |-> [kind |-> "cell", active |-> TRUE],
   d1 |-> [kind |-> "dprofile", deployments |-> {"c1"}],
   d2 |-> [kind |-> "dprofile", deployments |-> {}],
   p1 |-> Participant("t1", "own", {"d1"}, [d1 |-> <<"member">>], [size |-> <<"num", 2>>])]

Deploy(p, t, wanted) ==
  [op |-> "deployParticipant", id |-> p, tenant |-> t, wanted |-> wanted, roles |-> << >>,
   properties |-> << >>]
Dispose == [op |-> "dispose", id |-> "p1", tenant |-> "t1"]
NewTenant(t) == [op |-> "createTenant", id |-> t]
Patch(t, add, remove) == [op |-> "patchTenant", id |-> t, add |-> add, remove |-> remove]
On(op, r) == [op |-> op, id |-> r]

Writers ==
  {Req(Admin, Deploy("p2", "t1", {})), Req(Client("other"), Deploy("p3", "t2", {"d1", "d2"})),
   Req(Client("own"), Dispose), Req(Admin, Dispose),
   Req(Client("own"), Patch("t1", {"x"}, {"y"})), Req(Admin, Patch("t1", {"y"}, {})),
   Req(Client("own"), On("deleteTenant", "t1")), Req(Admin, On("deleteTenant", "t2")),
   Req(Admin, On("deleteCell", "c1")),
   Req(Admin, [op |-> "deployProfile", id |-> "d2", cell |-> "c1"]),
   Req(Admin, [op |-> "deployProfile", id |-> "d2", cell |-> "c2"]),
   Req(Admin, On("deleteProfile", "d1")), Req(Admin, On("deleteProfile", "d2"))}

MoreWriters ==
  {Req(Admin, On("deleteCell", "c2")), Req(Admin, [op |-> "deployProfile", id |-> "d1", cell |-> "c2"])}

DefinitionRows ==
  [a1 |-> [kind |-> "adef"], o1 |-> [kind |-> "odef", types |-> {"a1"}, template |-> "m"]]

ODef(types) == [kind |-> "odef", types |-> types, template |-> "m"]

\* The rows have one definition of the template "m" at first, or two.
TemplateRows == DefinitionRows @@ [o2 |-> ODef({"a1"})]

\* With a deletion of the template by another caller.
DefinitionRequests ==
  {Req(Operator, [op |-> "deleteODef", template |-> "m"])} \union
  {Req(Admin, r) : r \in
    {[op |-> "createODef", defs |-> [o1 |-> ODef({"a1", "a2"}), o2 |-> ODef({"a2"})]],
     [op |-> "createODef", defs |-> [o2 |-> ODef({"a1"})]],
     [op |-> "createADef", defs |-> [a1 |-> [kind |-> "adef"]]],
     [op |-> "createADef", defs |-> [a2 |-> [kind |-> "adef"]]],
     [op |-> "deleteADef", id |-> "a1"],
     [op |-> "deleteADef", id |-> "a2"],
     [op |-> "deleteODef", template |-> "m"]}}

\* Reads of one manager, each made alone and next to a write.
Reads ==
  {Req(by, r) : by \in {Admin, Client("own"), Client("other")}, r \in
    {On("getTenant", "t1"), [op |-> "profilesOf", id |-> "t1", kind |-> "participant"],
     [op |-> "getParticipant", id |-> "p1", tenant |-> "t1"],
     [op |-> "getParticipant", id |-> "p1", tenant |-> "t2"],
     On("getProfile", "d2"), [op |-> "getCells"], [op |-> "getProfiles"]}}
DefinitionReads ==
  {Req(Admin, r) : r \in {[op |-> "getActivityDefinitions"],
                          [op |-> "getOrchestrationDefinitions", template |-> ""],
                          [op |-> "getOrchestrationDefinitions", template |-> "n"]}}

\* Requests that are refused, or that another owner's row or a cell's id makes fail.
Unserved ==
  {Req(NoToken, [op |-> "getCells"]), Req(Claims("", {"tm:read"}), [op |-> "getCells"]),
   Req(Client("own"), On("deleteCell", "c2")), Req(Claims("own", {"pm:read"}), On("deleteODef", "o1")),
   [Req(Admin, NewTenant("t3")) EXCEPT !.payload = "invalid"],
   Req(Client("own"), Deploy("p4", "t2", {})), Req(Client("other"), Dispose),
   Req(Client("other"), Patch("t1", {"x"}, {})), Req(Client("other"), On("deleteTenant", "t1")),
   Req(Admin, [Dispose EXCEPT !.tenant = "t2"])}
Creations ==
  {Req(Admin, [op |-> "createCell", id |-> "c3", externalID |-> e, active |-> TRUE]) : e \in {"", "x"}}
  \union {Req(Admin, On("createProfile", "d3")), Req(Client("own"), NewTenant("t3"))}

-----------------------------------------------------------------------------
Cmp(field, op, value) == [form |-> "cmp", not |-> FALSE, field |-> field, op |-> op, value |-> value]
In(not, field, texts) == [form |-> "in", not |-> not, field |-> field, value |-> Texts(texts)]
Null(not, field) == [form |-> "null", not |-> not, field |-> field]
Source(atoms, connectives) == [atoms |-> atoms, connectives |-> connectives]
One(atom) == Source(<<atom>>, <<>>)

Query(kind, predicate, limit) ==
  [op |-> "query", kind |-> kind, predicate |-> predicate, limit |-> limit]

ManyParticipants ==
  TenantRows @@
  [p2 |-> Participant("t2", "other", {"d1", "d2"}, [d1 |-> <<"member", "host">>], [size |-> <<"num", 3>>, tag |-> Str("x")]),
   p3 |-> [Participant("t1", "own", {"d2"}, << >>, << >>) EXCEPT !.state = "error", !.cell = "c2"]]

ParticipantPredicates ==
  {One(a) : a \in
    {Cmp(f, op, Str("p1")) : f \in {<<"id">>}, op \in {"=", "!=", "STARTS_WITH", "LIKE"}}
    \union {In(not, <<"tenantId">>, <<"t2", "t3">>) : not \in BOOLEAN}
    \union {Cmp(<<"vpas", f>>, op, Str(v)) : f \in {"cellId", "state", "type"}, op \in {"=", "!="}, v \in {"c2", "error", "connector"}}
    \union {In(not, <<"vpas", "cellId">>, <<"c2">>) : not \in BOOLEAN}
    \union {Null(not, <<"vpas", "cellId">>) : not \in BOOLEAN}
    \union {Cmp(<<"dataspaceProfileIds">>, op, Str("d2")) : op \in {"=", "!="}}
    \union {Cmp(<<"participantRoles", "d1">>, op, Str("host")) : op \in {"=", "!="}}
    \union {Cmp(<<"properties", "size">>, op, <<"num", 2>>) : op \in {"=", "!=", "<", "<=", ">", ">="}}
    \union {Cmp(<<"properties", "tag">>, op, Str("x")) : op \in {"=", "CONTAINS"}}
    \union {In(not, <<"properties", "tag">>, <<"x", "y">>) : not \in BOOLEAN}
    \union {Null(not, <<"properties", "tag">>) : not \in BOOLEAN}}
  \union
  {Source(<<Cmp(<<"tenantId">>, "=", Str("t2")), Null(FALSE, <<"properties", "tag">>),
            Cmp(<<"vpas", "state">>, "=", Str("error"))>>, c) :
     c \in {<<"OR", "OR">>, <<"AND", "OR">>, <<"AND", "AND">>}}
  \union {Source(<<>>, <<>>)}

Queries ==
  {Req(by, Query("participant", p, 0)) : by \in {Admin, Client("own")}, p \in ParticipantPredicates}

\* Pages of tenants, while tenants come, change and go.
EitherTenant == Source(<<Cmp(<<"id">>, "!=", Str("t1")), Null(FALSE, <<"properties", "y">>)>>, <<"OR">>)

Pagers ==
  {Req(by, [op |-> "list", kind |-> "tenant", limit |-> n]) : by \in {Admin, Client("own")}, n \in {1, 2}}
  \union {Req(by, Query("tenant", EitherTenant, 1)) : by \in {Admin, Client("own")}}

TenantWriters ==
  {Req(Client("own"), NewTenant("t0")), Req(Client("other"), NewTenant("t3")),
   Req(Admin, On("deleteTenant", "t2")), Req(Client("own"), Patch("t1", {"y"}, {}))}

Run(sets, rows) == {[requests |-> SetToSeq(s), rows |-> rows] : s \in sets}

SomeScenarios ==
  Run(kSubset(3, Writers), TenantRows)
  \union Run({{u, w} : u \in Unserved \union Creations \union Reads, w \in Writers \union MoreWriters}, TenantRows)
  \union Run(kSubset(3, DefinitionRequests), DefinitionRows)
  \union Run({s \in kSubset(3, DefinitionRequests) : Cardinality({r \in s : r.op = "deleteODef"}) = 2},
             TemplateRows)
  \union Run({{r, w} : r \in DefinitionReads, w \in DefinitionRequests}, DefinitionRows)
  \union Run({{q} : q \in Queries}, ManyParticipants)
  \union Run({{p} \union w : p \in Pagers, w \in kSubset(2, TenantWriters)}, TenantRows)
=============================================================================
