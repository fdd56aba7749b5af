------------------------ MODULE LifecycleAgentProofs ------------------------
(***************************************************************************)
(* What LifecycleAgent promises of the events and the token, proved for    *)
(* any agents, events, number of deliveries, faults and ticks; what the    *)
(* comparisons of subjects mean, and what LifecycleAgent promises of the   *)
(* stream they are made for.                                               *)
(***************************************************************************)
EXTENDS LifecycleAgent, WellFoundedInduction, TLAPS

Active == op \notin {"none", "done"}
Decisive(i) == Script[i].kind # "rotated"
KeyAfter(i) == IF Script[i].kind = "activated" THEN Script[i].key ELSE NoKey

\* The calls that the handling of an event is at.
Ops(kind) ==
  CASE kind = "activated" -> {"get", "create", "update", "patch", "done"}
    [] kind = "revoked" -> {"delete", "done"}
    [] OTHER -> {"done"}

-----------------------------------------------------------------------------
\* The inductive invariant.

TypeOK ==
  /\ scenario \in Scenarios
  /\ DOMAIN pc = Agents
  /\ status \in [DOMAIN Script -> {"none", "queued", "delayed", "held", "acked",
                                   "dropped", "dead", "lost"}]
  /\ delivered \in [DOMAIN Script -> Nat]
  /\ cur \in {0} \union DOMAIN Script
  /\ cache \in [recorded : 0..2, real : 0..2]

\* The recorded life of a cached token is never longer than its real one; a call
\* has one token or asks for one, and takes at most one tick from then on.
TokenOK ==
  /\ cache.recorded <= cache.real
  /\ hand \in {1, 2, NoToken} /\ asked \in {1, 2, NoToken}
  /\ hand = NoToken \/ asked = NoToken
  /\ hand # NoToken \/ asked # NoToken => Active
  /\ hand = 1 \/ asked = 1 => slow

\* The event in hand is at one of its calls, and once its key is mapped Siglet has it.
HandOK ==
  /\ cur # 0 <=> pc[Me] = "handle"
  /\ cur = 0 <=> op = "none"
  /\ cur # 0 =>
       /\ status[cur] \in {"held", "lost"}
       /\ delivered[cur] >= 1
       /\ op \in Ops(Script[cur].kind)
       /\ op \in {"patch", "done"} /\ Decisive(cur) => siglet = KeyAfter(cur)
       /\ op = "done" /\ Script[cur].kind = "activated" => sts = Key
  /\ \A i \in DOMAIN Script : status[i] = "held" => i = cur

\* Events are first delivered in the order of their publication.
QueueOK ==
  /\ \A i \in DOMAIN Script :
       /\ status[i] \in {"none", "queued"} => delivered[i] = 0
       /\ status[i] \in {"delayed", "held", "acked"} => delivered[i] >= 1
  /\ \A i \in DOMAIN Script : \A j \in 1..i - 1 :
       /\ status[i] # "none" => status[j] # "none"
       /\ delivered[i] > 0 => status[j] \notin {"none", "queued"}
  /\ cur # 0 /\ delivered[cur] = 1 =>
       \A i \in DOMAIN Script : i > cur => delivered[i] = 0

\* Siglet maps a key the control plane does not sign with only while an event
\* that is begun is not over.
MappedOK ==
  \/ siglet \in {NoKey, sts}
  \/ \E i \in DOMAIN Script :
       Decisive(i) /\ status[i] \notin {"none", "queued", "acked"}

\* No event was delivered again, and all that were delivered are handled, but for
\* the one in hand.
Smooth ==
  \A i \in DOMAIN Script :
    /\ delivered[i] <= 1
    /\ delivered[i] = 1 => status[i] = "acked" \/ i = cur

\* The events that have determined what Siglet maps.
Past ==
  {i \in DOMAIN Script :
     Decisive(i) /\ (status[i] = "acked" \/ (i = cur /\ op \in {"patch", "done"}))}

\* Then Siglet maps what the last of them asks for.
LastCounts ==
  Smooth =>
    \/ Past = {} /\ siglet = NoKey
    \/ \E i \in Past : (\A j \in Past : j <= i) /\ siglet = KeyAfter(i)

LInv == TypeOK /\ TokenOK /\ HandOK /\ QueueOK /\ MappedOK /\ LastCounts

-----------------------------------------------------------------------------

\* The events are numbered.
LEMMA ScriptIs ==
  ASSUME TypeOK
  PROVE  /\ Len(Script) \in Nat /\ DOMAIN Script = 1..Len(Script)
         /\ \A i \in DOMAIN Script :
              /\ i \in Nat /\ i > 0
              /\ Script[i].kind \in {"activated", "rotated", "revoked"} /\ Script[i].key # NoKey
BY AgentAssumption DEF TypeOK, Script

\* A step that leaves the events and the keys alone.
LEMMA EventsStay ==
  ASSUME LInv, UNCHANGED <<scenario, events, siglet, sts>>,
         DOMAIN pc' = Agents, pc'[Me] = "handle" <=> pc[Me] = "handle",
         cache' \in [recorded : 0..2, real : 0..2]
  PROVE  TypeOK' /\ HandOK' /\ QueueOK' /\ MappedOK' /\ LastCounts'
<1>1. /\ scenario' = scenario /\ Script' = Script /\ status' = status /\ delivered' = delivered
      /\ cur' = cur /\ op' = op /\ siglet' = siglet /\ sts' = sts
  BY DEF events, Script
<1>2. TypeOK'
  BY <1>1 DEF LInv, TypeOK
<1>3. HandOK'
  BY <1>1 DEF LInv, HandOK, Ops, Key, Decisive, KeyAfter
<1>4. QueueOK'
  BY <1>1 DEF LInv, QueueOK
<1>5. MappedOK'
  BY <1>1 DEF LInv, MappedOK, Decisive
<1>6. Past' = Past /\ (Smooth' <=> Smooth) /\ \A i : KeyAfter(i)' = KeyAfter(i)
  BY <1>1 DEF Past, Smooth, Decisive, KeyAfter
<1>7. LastCounts'
  BY <1>1, <1>6 DEF LInv, LastCounts
<1>8. QED
  BY <1>2, <1>3, <1>4, <1>5, <1>7

\* A step that leaves the token and the call alone.
LEMMA TokenStays ==
  ASSUME TokenOK, UNCHANGED token, Active => Active'
  PROVE  TokenOK'
BY DEF TokenOK, token

-----------------------------------------------------------------------------
\* The steps, one after the other.

\* An agent sets up its stream and its consumer.
LEMMA SetUpKeeps ==
  ASSUME LInv, NEW a \in Agents, SetUp(a)
  PROVE  LInv'
<1>1. UNCHANGED <<scenario, events, siglet, sts>> /\ UNCHANGED token /\ op' = op
  BY DEF SetUp, LookUp, createStream, ReadSubjects, UpdateSubjects, SetupConsumer, Goto,
         events, remote, token
<1>2. \E here, next \in {"look", "create", "info", "update", "consumer", "fetch"} :
        Goto(a, here, next)
  BY DEF SetUp, LookUp, createStream, ReadSubjects, UpdateSubjects, SetupConsumer, Goto
<1>3. DOMAIN pc' = Agents /\ (pc'[Me] = "handle" <=> pc[Me] = "handle")
  BY <1>2 DEF Goto, LInv, TypeOK, Agents
<1>4. cache' \in [recorded : 0..2, real : 0..2]
  BY <1>1 DEF LInv, TypeOK, token
<1>5. QED
  BY <1>1, <1>3, <1>4, EventsStay, TokenStays DEF LInv, Active

\* The loop finds the consumer gone, or fails and backs off.
LEMMA GoneKeeps ==
  ASSUME LInv, FetchGone \/ FetchFails \/ Backoff
  PROVE  LInv'
<1>1. UNCHANGED <<scenario, events, siglet, sts>> /\ UNCHANGED token /\ op' = op
  BY DEF FetchGone, FetchFails, Backoff, Goto, events, remote, token
<1>2. \E here, next \in {"look", "backoff", "fetch"} : Goto(Me, here, next)
  BY DEF FetchGone, FetchFails, Backoff, Goto
<1>3. DOMAIN pc' = Agents /\ (pc'[Me] = "handle" <=> pc[Me] = "handle")
  BY <1>2 DEF Goto, LInv, TypeOK, Agents
<1>4. cache' \in [recorded : 0..2, real : 0..2]
  BY <1>1 DEF LInv, TypeOK, token
<1>5. QED
  BY <1>1, <1>3, <1>4, EventsStay, TokenStays DEF LInv, Active

\* The token is taken from the cache, fetched, and ages.
LEMMA TokenKeeps ==
  ASSUME LInv, GetToken \/ TokenArrives \/ Tick
  PROVE  LInv'
<1>1. UNCHANGED <<scenario, events, siglet, sts>> /\ op' = op /\ pc' = pc
  BY DEF GetToken, TokenArrives, Tick, events, remote, setup
<1>2. TokenOK' /\ cache' \in [recorded : 0..2, real : 0..2]
  <2>0. /\ cache = [recorded |-> cache.recorded, real |-> cache.real]
        /\ cache.recorded \in 0..2 /\ cache.real \in 0..2 /\ cache.recorded <= cache.real
        /\ hand \in {1, 2, 3} /\ asked \in {1, 2, 3}
    BY DEF LInv, TypeOK, TokenOK, NoToken
  <2>1. CASE GetToken
    BY <1>1, <2>0, <2>1 DEF GetToken, LInv, TokenOK, Active, NoToken
  <2>2. CASE TokenArrives
    BY <1>1, <2>0, <2>2 DEF TokenArrives, store, LInv, TokenOK, Active, NoToken
  <2>3. CASE Tick
    <3>1. /\ ~slow /\ slow' = (Active /\ (hand # NoToken \/ asked # NoToken))
          /\ cache' = [recorded |-> Less(cache.recorded), real |-> Less(cache.real)]
          /\ asked' = Less(asked) /\ hand' = Less(hand)
      BY <2>3 DEF Tick, Active
    <3>2. /\ Less(cache.recorded) \in 0..2 /\ Less(cache.real) \in 0..2
          /\ Less(cache.recorded) <= Less(cache.real)
          /\ Less(1) = 0 /\ Less(2) = 1 /\ Less(3) = 3
      BY <2>0 DEF Less, NoToken
    <3>3. hand \in {2, 3} /\ asked \in {2, 3}
      BY <2>0, <3>1 DEF LInv, TokenOK
    <3>4. Active' = Active
      BY <1>1 DEF Active
    <3>5. QED
      BY <2>0, <3>1, <3>2, <3>3, <3>4 DEF LInv, TypeOK, TokenOK, NoToken
  <2>4. QED
    BY <2>1, <2>2, <2>3
<1>3. QED
  BY <1>1, <1>2, EventsStay DEF LInv, TypeOK

\* The config appears.
LEMMA ProvisionKeeps ==
  ASSUME LInv, Provision
  PROVE  LInv'
<1>1. UNCHANGED <<scenario, events, siglet, sts>> /\ UNCHANGED token /\ op' = op /\ pc' = pc
  BY DEF Provision, events, token, setup
<1>2. cache' \in [recorded : 0..2, real : 0..2]
  BY <1>1 DEF LInv, TypeOK, token
<1>3. QED
  BY <1>1, <1>2, EventsStay, TokenStays DEF LInv, TypeOK, Active

-----------------------------------------------------------------------------
\* The steps of the events.

\* The next event is published, or lost.
LEMMA PublishKeeps ==
  ASSUME LInv, Publish
  PROVE  LInv'
<1>1. PICK n \in DOMAIN Script :
        /\ status[n] = "none" /\ \A j \in 1..n - 1 : status[j] # "none"
        /\ \E s \in {"queued", "lost"} : status' = [status EXCEPT ![n] = s]
  BY DEF Publish
<1>2. /\ scenario' = scenario /\ Script' = Script /\ delivered' = delivered /\ pc' = pc
      /\ cur' = cur /\ op' = op /\ siglet' = siglet /\ sts' = sts /\ UNCHANGED token
  BY DEF Publish, setup, remote, Script
<1>3. /\ DOMAIN status' = DOMAIN Script /\ status'[n] \in {"queued", "lost"}
      /\ \A i \in DOMAIN Script : i # n => status'[i] = status[i]
  BY <1>1 DEF LInv, TypeOK
<1>4. n # cur /\ delivered[n] = 0
  BY <1>1, ScriptIs DEF LInv, HandOK, QueueOK
<1>5. TypeOK'
  BY <1>1, <1>2, <1>3 DEF LInv, TypeOK, token
<1>6. HandOK'
  BY <1>2, <1>3, <1>4 DEF LInv, TypeOK, HandOK, Ops, Key, Decisive, KeyAfter
<1>7. QueueOK'
  <2>1. \A i \in DOMAIN Script : \A j \in 1..i - 1 : j \in DOMAIN Script
    BY ScriptIs DEF LInv
  <2>2. \A i \in DOMAIN Script : n \in 1..i - 1 => status[i] = "none" /\ delivered[i] = 0
    BY <1>1 DEF LInv, QueueOK, TypeOK
  <2>3. \A i \in DOMAIN Script : \A j \in 1..i - 1 :
          /\ status'[i] # "none" => status'[j] # "none"
          /\ delivered[i] > 0 => status'[j] \notin {"none", "queued"}
    BY <1>1, <1>3, <1>4, <2>1, <2>2 DEF LInv, QueueOK
  <2>4. QED
    BY <1>2, <1>3, <1>4, <2>3 DEF LInv, QueueOK
<1>8. MappedOK'
  BY <1>1, <1>2, <1>3 DEF LInv, MappedOK, Decisive
<1>9. Past' = Past /\ (Smooth' <=> Smooth) /\ \A i : KeyAfter(i)' = KeyAfter(i)
  BY <1>1, <1>2, <1>3, <1>4 DEF Past, Smooth, Decisive, KeyAfter
<1>10. LastCounts'
  BY <1>2, <1>9 DEF LInv, LastCounts
<1>11. QED
  BY <1>2, <1>5, <1>6, <1>7, <1>8, <1>10, TokenStays DEF LInv, Active

\* The consumer or the stream is deleted, with the events it holds.
LEMMA DeleteKeeps ==
  ASSUME LInv, Delete
  PROVE  LInv'
<1>1. /\ scenario' = scenario /\ Script' = Script /\ delivered' = delivered /\ pc' = pc
      /\ cur' = cur /\ op' = op /\ siglet' = siglet /\ sts' = sts /\ UNCHANGED token
  BY DEF Delete, remote, Script
<1>2. /\ DOMAIN status' = DOMAIN Script
      /\ \A i \in DOMAIN Script :
           status'[i] = IF status[i] \in {"queued", "delayed", "held"} THEN "lost" ELSE status[i]
  BY DEF Delete, LInv, TypeOK
<1>3. TypeOK'
  BY <1>1, <1>2 DEF Delete, LInv, TypeOK, token
<1>4. HandOK'
  BY <1>1, <1>2 DEF LInv, TypeOK, HandOK, Ops, Key, Decisive, KeyAfter
<1>5. QueueOK'
  <2>1. \A i \in DOMAIN Script : \A j \in 1..i - 1 : j \in DOMAIN Script
    BY ScriptIs DEF LInv
  <2>2. QED
    BY <1>1, <1>2, <2>1 DEF LInv, QueueOK
<1>6. MappedOK'
  BY <1>1, <1>2 DEF LInv, MappedOK, Decisive
<1>7. Past' = Past /\ (Smooth' <=> Smooth) /\ \A i : KeyAfter(i)' = KeyAfter(i)
  BY <1>1, <1>2 DEF Past, Smooth, Decisive, KeyAfter
<1>8. LastCounts'
  BY <1>1, <1>7 DEF LInv, LastCounts
<1>9. QED
  BY <1>1, <1>3, <1>4, <1>5, <1>6, <1>8, TokenStays DEF LInv, Active

\* The loop takes the next event, or one again.
LEMMA FetchKeeps ==
  ASSUME LInv, NEW n \in DOMAIN Script, Fetch(n)
  PROVE  LInv'
<1>1. /\ pc[Me] = "fetch" /\ pc' = [pc EXCEPT ![Me] = "handle"]
      /\ \/ status[n] = "queued" /\ \A j \in 1..n - 1 : status[j] # "queued"
         \/ status[n] = "delayed"
      /\ status' = [status EXCEPT ![n] = "held"]
      /\ delivered' = [delivered EXCEPT ![n] = @ + 1]
      /\ cur' = n /\ op' = FirstCall(Script[n])
      /\ scenario' = scenario /\ Script' = Script /\ siglet' = siglet /\ sts' = sts
      /\ UNCHANGED token
  BY DEF Fetch, remote, Script
<1>2. cur = 0 /\ op = "none" /\ n # 0
  BY <1>1, ScriptIs DEF LInv, HandOK
<1>3. /\ DOMAIN status' = DOMAIN Script /\ status'[n] = "held"
      /\ \A i \in DOMAIN Script : i # n => status'[i] = status[i] /\ delivered'[i] = delivered[i]
      /\ delivered[n] \in Nat /\ delivered'[n] = delivered[n] + 1
  BY <1>1 DEF LInv, TypeOK
<1>4. op' \in Ops(Script[n].kind) /\ op' # "none" /\ op' # "patch" /\ (op' = "done" => ~Decisive(n))
  BY <1>1, ScriptIs DEF LInv, FirstCall, Ops, Decisive
<1>5. TypeOK'
  BY <1>1 DEF LInv, TypeOK, token
<1>6. HandOK'
  <2>1. pc'[Me] = "handle"
    BY <1>1 DEF LInv, TypeOK, Agents
  <2>2. ~Decisive(n) => Script[n].kind = "rotated"
    BY DEF Decisive
  <2>3. Decisive(n)' = Decisive(n) /\ \A i \in DOMAIN Script : status'[i] = "held" => i = n
    BY <1>1, <1>2, <1>3, ScriptIs DEF LInv, HandOK, Decisive
  <2>4. Ops(Script'[n].kind) = Ops(Script[n].kind)
    BY <1>1
  <2>5. QED
    BY <1>1, <1>2, <1>3, <1>4, <2>1, <2>2, <2>3, <2>4 DEF HandOK, Ops
<1>7. QueueOK'
  <2>1. \A i \in DOMAIN Script : \A j \in 1..i - 1 : j \in DOMAIN Script /\ j < i
    BY ScriptIs DEF LInv
  <2>2. \A j \in 1..n - 1 : status[j] \notin {"none", "queued"}
    BY <1>1, <1>3 DEF LInv, QueueOK
  <2>3. delivered[n] = 0 => status[n] = "queued"
    BY <1>1, <1>3 DEF LInv, QueueOK
  <2>4. ASSUME delivered'[n] = 1, NEW i \in DOMAIN Script, i > n
        PROVE  delivered'[i] = 0
    <3>1. n \in 1..i - 1 /\ delivered[i] \in Nat /\ i # n
      BY <2>4, ScriptIs DEF LInv, TypeOK
    <3>2. status[n] = "queued"
      BY <1>3, <2>3, <2>4
    <3>3. QED
      BY <1>3, <3>1, <3>2 DEF LInv, QueueOK
  <2>5. \A i \in DOMAIN Script :
          /\ status'[i] \in {"none", "queued"} => delivered'[i] = 0
          /\ status'[i] \in {"delayed", "held", "acked"} => delivered'[i] >= 1
    BY <1>3 DEF LInv, QueueOK
  <2>6. \A i \in DOMAIN Script : \A j \in 1..i - 1 :
          /\ status'[i] # "none" => status'[j] # "none"
          /\ delivered'[i] > 0 => status'[j] \notin {"none", "queued"}
    BY <1>1, <1>3, <2>1, <2>2 DEF LInv, QueueOK
  <2>7. QED
    BY <1>1, <2>4, <2>5, <2>6 DEF QueueOK
<1>8. MappedOK'
  BY <1>1, <1>3 DEF LInv, MappedOK, Decisive
<1>9. Past' = Past /\ \A i : KeyAfter(i)' = KeyAfter(i)
  BY <1>1, <1>2, <1>3, <1>4, ScriptIs DEF LInv, Past, Decisive, KeyAfter
<1>10. Smooth' => Smooth
  BY <1>1, <1>2, <1>3 DEF Smooth
<1>11. LastCounts'
  BY <1>1, <1>9, <1>10 DEF LInv, LastCounts
<1>12. TokenOK'
  BY <1>1, <1>2, TokenStays DEF LInv, Active
<1>13. QED
  BY <1>5, <1>6, <1>7, <1>8, <1>11, <1>12 DEF LInv

\* The handling of the event in hand is over.
Ends(s) ==
  /\ status' = [status EXCEPT ![cur] = s]
  /\ cur' = 0 /\ op' = "none" /\ delivered' = delivered /\ scenario' = scenario
  /\ \E next \in {"fetch", "look"} : pc' = [pc EXCEPT ![Me] = next]
  /\ cache' \in [recorded : 0..2, real : 0..2]

\* An event that settles without being acked has changed neither Siglet nor the
\* token service, unless it is a decisive one.
LEMMA SettledKeeps ==
  ASSUME LInv, NEW s \in {"acked", "delayed", "dead", "dropped", "lost"}, cur # 0, Ends(s),
         s = "acked" => op = "done" /\ siglet' = siglet /\ sts' = sts,
         s # "acked" => (~Decisive(cur) => siglet' = siglet /\ sts' = sts)
  PROVE  TypeOK' /\ HandOK' /\ QueueOK' /\ MappedOK' /\ LastCounts'
<1>1. /\ Script' = Script /\ delivered' = delivered /\ cur' = 0 /\ op' = "none"
      /\ status' = [status EXCEPT ![cur] = s] /\ scenario' = scenario
      /\ \E next \in {"fetch", "look"} : pc' = [pc EXCEPT ![Me] = next]
      /\ cache' \in [recorded : 0..2, real : 0..2]
  BY DEF Ends, Script
<1>2. /\ cur \in DOMAIN Script /\ DOMAIN status' = DOMAIN Script /\ status'[cur] = s
      /\ \A i \in DOMAIN Script : i # cur => status'[i] = status[i]
      /\ status[cur] \in {"held", "lost"} /\ delivered[cur] >= 1 /\ delivered[cur] \in Nat
      /\ op # "none"
  BY <1>1 DEF LInv, TypeOK, HandOK
<1>3. TypeOK'
  BY <1>1 DEF LInv, TypeOK
<1>4. HandOK'
  <2>1. pc'[Me] # "handle"
    BY <1>1 DEF LInv, TypeOK, Agents
  <2>2. \A i \in DOMAIN Script : status'[i] # "held"
    BY <1>2 DEF LInv, HandOK
  <2>3. QED
    BY <1>1, <2>1, <2>2 DEF HandOK
<1>5. QueueOK'
  <2>1. \A i \in DOMAIN Script : \A j \in 1..i - 1 : j \in DOMAIN Script
    BY ScriptIs DEF LInv
  <2>2. \A i \in DOMAIN Script :
          /\ status'[i] \in {"none", "queued"} => delivered[i] = 0
          /\ status'[i] \in {"delayed", "held", "acked"} => delivered[i] >= 1
    BY <1>2 DEF LInv, QueueOK
  <2>3. \A i \in DOMAIN Script : \A j \in 1..i - 1 :
          /\ status'[i] # "none" => status'[j] # "none"
          /\ delivered[i] > 0 => status'[j] \notin {"none", "queued"}
    BY <1>2, <2>1 DEF LInv, QueueOK
  <2>4. QED
    BY <1>1, <2>2, <2>3 DEF QueueOK
<1>6. MappedOK'
  <2>1. \A i : Decisive(i)' = Decisive(i)
    BY <1>1 DEF Decisive
  <2>2. CASE s # "acked" /\ Decisive(cur)
    BY <1>1, <1>2, <2>1, <2>2 DEF MappedOK
  <2>3. CASE s = "acked" /\ Decisive(cur)
    BY <1>1, <1>2, <2>3, ScriptIs DEF LInv, HandOK, MappedOK, KeyAfter, Key, Decisive
  <2>4. CASE ~Decisive(cur)
    BY <1>1, <1>2, <2>1, <2>4 DEF LInv, MappedOK
  <2>5. QED
    BY <2>2, <2>3, <2>4
<1>7. LastCounts'
  <2>1. CASE s # "acked"
    <3>1. Smooth' => delivered[cur] = 1 /\ (status'[cur] = "acked" \/ cur = 0)
      BY <1>1, <1>2 DEF Smooth
    <3>2. QED
      BY <1>2, <2>1, <3>1 DEF LastCounts
  <2>2. CASE s = "acked"
    <3>1. Past' = Past
      BY <1>1, <1>2, <2>2 DEF Past, Decisive
    <3>2. Smooth' => Smooth
      BY <1>1, <1>2, ScriptIs DEF LInv, Smooth
    <3>3. \A i : KeyAfter(i)' = KeyAfter(i)
      BY <1>1 DEF KeyAfter
    <3>4. QED
      BY <2>2, <3>1, <3>2, <3>3 DEF LInv, LastCounts
  <2>3. QED
    BY <2>1, <2>2
<1>8. QED
  BY <1>3, <1>4, <1>5, <1>6, <1>7

\* A call is made for an event only, and a rotated key needs none.
LEMMA ActiveIs ==
  ASSUME LInv, Active
  PROVE  /\ cur # 0 /\ cur \in DOMAIN Script /\ Decisive(cur)
         /\ op \in {"get", "create", "update", "patch"} => Script[cur].kind = "activated"
         /\ op \in {"get", "create", "update", "patch", "delete"}
         /\ op = "delete" => Script[cur].kind = "revoked"
<1>1. cur # 0 /\ cur \in DOMAIN Script /\ op \in Ops(Script[cur].kind)
  BY DEF LInv, TypeOK, HandOK, Active
<1>2. Script[cur].kind \in {"activated", "rotated", "revoked"}
  BY <1>1, ScriptIs DEF LInv
<1>3. QED
  BY <1>1, <1>2 DEF Ops, Active, Decisive

\* A call is over with its token.
LEMMA CallEnds ==
  ASSUME LInv, CallOver, hand # NoToken
  PROVE  TokenOK' /\ cache' = cache
BY DEF LInv, TokenOK, CallOver, NoToken

\* A call is answered.
LEMMA CallKeeps ==
  ASSUME LInv, Call
  PROVE  LInv'
<1>1. /\ Active /\ hand # NoToken /\ CallOver
      /\ op' = AfterCall(op) /\ siglet' = SigletAfter(op)
      /\ sts' = IF op = "patch" THEN Key ELSE sts
      /\ scenario' = scenario /\ Script' = Script /\ pc' = pc
      /\ status' = status /\ delivered' = delivered /\ cur' = cur
  BY DEF Call, Active, NoToken, setup, Script
<1>2. /\ cur # 0 /\ cur \in DOMAIN Script /\ Decisive(cur)
      /\ \/ /\ op \in {"get", "create", "update", "patch"} /\ Script[cur].kind = "activated"
            /\ Ops(Script[cur].kind) = {"get", "create", "update", "patch", "done"}
            /\ KeyAfter(cur) = Key
         \/ /\ op = "delete" /\ Script[cur].kind = "revoked"
            /\ Ops(Script[cur].kind) = {"delete", "done"}
            /\ KeyAfter(cur) = NoKey
  BY <1>1, ActiveIs DEF Ops, KeyAfter, Key
<1>3. \/ op = "get" /\ op' \in {"create", "update"} /\ siglet' = siglet /\ sts' = sts
      \/ op \in {"create", "update"} /\ op' = "patch" /\ siglet' = Key /\ sts' = sts
      \/ op = "patch" /\ op' = "done" /\ siglet' = siglet /\ sts' = Key
      \/ op = "delete" /\ op' = "done" /\ siglet' = NoKey /\ sts' = sts
  BY <1>1, <1>2 DEF AfterCall, SigletAfter
<1>4. /\ status[cur] \in {"held", "lost"} /\ delivered[cur] >= 1 /\ delivered[cur] \in Nat
      /\ op = "patch" => siglet = KeyAfter(cur)
  BY <1>2 DEF LInv, HandOK, TypeOK
<1>5. \A i : Decisive(i)' = Decisive(i) /\ KeyAfter(i)' = KeyAfter(i)
  BY <1>1 DEF Decisive, KeyAfter
<1>6. TypeOK' /\ TokenOK'
  BY <1>1, CallEnds DEF LInv, TypeOK
<1>7. HandOK'
  <2>1. op' \in Ops(Script[cur].kind) /\ op' # "none"
    BY <1>2, <1>3
  <2>2. op' \in {"patch", "done"} => siglet' = KeyAfter(cur)
    BY <1>2, <1>3, <1>4
  <2>3. op' = "done" /\ Script[cur].kind = "activated" => sts' = Key
    BY <1>2, <1>3
  <2>4. Key' = Key
    BY <1>1 DEF Key
  <2>5. op # "none"
    BY <1>1 DEF Active
  <2>6. QED
    BY <1>1, <1>2, <1>4, <1>5, <2>1, <2>2, <2>3, <2>4, <2>5 DEF LInv, HandOK
<1>8. QueueOK'
  BY <1>1 DEF LInv, QueueOK
<1>9. MappedOK'
  BY <1>1, <1>2, <1>4, <1>5 DEF MappedOK
<1>10. LastCounts'
  <2>1. SUFFICES ASSUME Smooth
                 PROVE  \/ Past' = {} /\ siglet' = NoKey
                        \/ \E i \in Past' : (\A j \in Past' : j <= i) /\ siglet' = KeyAfter(i)
    BY <1>1, <1>5 DEF LastCounts, Smooth
  <2>2. delivered[cur] = 1
    BY <1>2, <1>4, <2>1 DEF Smooth
  <2>3. \A j \in Past : j <= cur
    <3>1. SUFFICES ASSUME NEW j \in DOMAIN Script, status[j] = "acked", j > cur PROVE FALSE
      BY <1>2, ScriptIs DEF LInv, Past
    <3>2. delivered[j] = 0 /\ delivered[j] >= 1
      BY <1>2, <2>2, <3>1 DEF LInv, QueueOK
    <3>3. QED
      BY <3>2
  <2>4. Past' = IF op' \in {"patch", "done"} THEN Past \union {cur} ELSE Past
    BY <1>1, <1>2, <1>3, <1>4, <1>5 DEF Past
  <2>5. CASE op = "get"
    BY <1>3, <2>1, <2>4, <2>5 DEF LInv, LastCounts
  <2>6. CASE op # "get"
    <3>1. op' \in {"patch", "done"} /\ siglet' = KeyAfter(cur)
      BY <1>2, <1>3, <1>4, <2>6
    <3>2. cur <= cur
      BY <1>2, ScriptIs DEF LInv
    <3>3. QED
      BY <2>3, <2>4, <3>1, <3>2
  <2>7. QED
    BY <2>5, <2>6
<1>11. QED
  BY <1>6, <1>7, <1>8, <1>9, <1>10 DEF LInv

\* A call fails, or the config is not there yet: the event is settled.
LEMMA CallFailsKeeps ==
  ASSUME LInv, CallFails \/ NotProvisioned
  PROVE  LInv'
<1>1. /\ Active /\ hand # NoToken /\ CallOver /\ scenario' = scenario
      /\ \E s \in {Redelivered, "dropped"} : Settled(s)
  BY DEF CallFails, NotProvisioned, Active, NoToken, Settled, remote
<1>2. Redelivered \in {"lost", "delayed", "dead"}
  BY DEF Redelivered
<1>3. PICK s \in {"delayed", "dead", "dropped", "lost"} : Settled(s)
  BY <1>1, <1>2
<1>4. cur # 0 /\ Decisive(cur)
  BY <1>1, ActiveIs
<1>5. TokenOK' /\ cache' = cache
  BY <1>1, CallEnds
<1>6. Ends(s)
  BY <1>1, <1>3, <1>5 DEF Ends, Settled, LInv, TypeOK
<1>7. QED
  BY <1>3, <1>4, <1>5, <1>6, SettledKeeps DEF LInv

\* An event is acked.
LEMMA DoneKeeps ==
  ASSUME LInv, Done
  PROVE  LInv'
<1>1. /\ op = "done" /\ Settled("acked") /\ scenario' = scenario
      /\ siglet' = siglet /\ sts' = sts /\ UNCHANGED token
  BY DEF Done, Settled, remote
<1>2. cur # 0
  BY <1>1 DEF LInv, HandOK
<1>3. TokenOK' /\ cache' = cache
  BY <1>1, TokenStays DEF LInv, Active, token
<1>4. Ends("acked")
  BY <1>1, <1>3 DEF Ends, Settled, LInv, TypeOK
<1>5. QED
  BY <1>1, <1>2, <1>3, <1>4, SettledKeeps DEF LInv

\* The process dies.
LEMMA CrashKeeps ==
  ASSUME LInv, Crash
  PROVE  LInv'
<1>1. /\ cur # 0 /\ status' = [status EXCEPT ![cur] = Redelivered]
      /\ cur' = 0 /\ op' = "none" /\ pc' = [pc EXCEPT ![Me] = "look"]
      /\ cache' = [recorded |-> 0, real |-> 0] /\ asked' = NoToken /\ hand' = NoToken
      /\ scenario' = scenario /\ Script' = Script /\ delivered' = delivered
      /\ siglet' = siglet /\ sts' = sts
  BY DEF Crash, remote, Script
<1>2. Redelivered \in {"lost", "delayed", "dead"}
  BY DEF Redelivered
<1>3. PICK s \in {"lost", "delayed", "dead"} : s = Redelivered
  BY <1>2
<1>4. TokenOK'
  BY <1>1 DEF TokenOK, NoToken
<1>5. Ends(s)
  BY <1>1, <1>3 DEF Ends
<1>6. QED
  BY <1>1, <1>3, <1>4, <1>5, SettledKeeps DEF LInv

-----------------------------------------------------------------------------

\* The invariant holds when the agent starts ...
LEMMA InitHolds == Init => LInv
<1>1. SUFFICES ASSUME Init PROVE LInv
  OBVIOUS
<1>2. /\ scenario \in Scenarios /\ DOMAIN pc = Agents /\ pc[Me] # "handle"
      /\ status = [i \in DOMAIN Script |-> "none"] /\ delivered = [i \in DOMAIN Script |-> 0]
      /\ cur = 0 /\ op = "none" /\ siglet = NoKey /\ sts = NoKey
      /\ cache = [recorded |-> 0, real |-> 0] /\ asked = NoToken /\ hand = NoToken
  BY <1>1 DEF Init, Agents
<1>3. TypeOK
  BY <1>2 DEF TypeOK
<1>4. TokenOK
  BY <1>2 DEF TokenOK, NoToken
<1>5. HandOK /\ MappedOK
  BY <1>2 DEF HandOK, MappedOK
<1>6. QueueOK
  <2>1. \A i \in DOMAIN Script : \A j \in 1..i - 1 : j \in DOMAIN Script
    BY <1>3, ScriptIs
  <2>2. QED
    BY <1>2, <2>1 DEF QueueOK
<1>7. LastCounts
  BY <1>2, <1>3, ScriptIs DEF LastCounts, Past
<1>8. QED
  BY <1>3, <1>4, <1>5, <1>6, <1>7 DEF LInv

\* ... and every step keeps it.
LEMMA NextKeeps == LInv /\ [Next]_vars => LInv'
<1>1. SUFFICES ASSUME LInv, [Next]_vars PROVE LInv'
  OBVIOUS
<1>2. CASE \E a \in Agents : SetUp(a)
  BY <1>1, <1>2, SetUpKeeps
<1>3. CASE Loop
  BY <1>1, <1>3, FetchKeeps, GoneKeeps DEF Loop
<1>4. CASE Handle
  BY <1>1, <1>4, TokenKeeps, CallKeeps, CallFailsKeeps, DoneKeeps DEF Handle
<1>5. CASE Publish \/ Provision \/ Tick
  BY <1>1, <1>5, PublishKeeps, ProvisionKeeps, TokenKeeps
<1>6. CASE Delete \/ FetchFails \/ CallFails \/ Crash
  BY <1>1, <1>6, DeleteKeeps, GoneKeeps, CallFailsKeeps, CrashKeeps
<1>7. CASE UNCHANGED vars
  <2>1. /\ UNCHANGED <<scenario, events, siglet, sts>> /\ UNCHANGED token /\ op' = op
        /\ pc' = pc
    BY <1>7 DEF vars, setup, events, remote, token
  <2>2. cache' \in [recorded : 0..2, real : 0..2]
    BY <1>1, <2>1 DEF LInv, TypeOK, token
  <2>3. QED
    BY <1>1, <2>1, <2>2, EventsStay, TokenStays DEF LInv, TypeOK, Active
<1>8. QED
  BY <1>1, <1>2, <1>3, <1>4, <1>5, <1>6, <1>7 DEF Next

\* LInv holds of every reachable state, however deliveries, calls, deletions and
\* crashes interleave.
THEOREM Invariant == Spec => []LInv
<1>1. QED
  BY InitHolds, NextKeeps, PTL DEF Spec

\* TokenIsValid: a call never uses a token that has expired in the cache or while
\* it was fetched, for any number of ticks and faults.
THEOREM TokenIsValidHolds == Spec => []TokenIsValid
<1>1. LInv => TokenIsValid
  BY DEF LInv, TokenOK, TokenIsValid, NoToken
<1>2. QED
  BY <1>1, Invariant, PTL

\* KeysAgree: once every event was handled, in whatever order they were delivered
\* again, Siglet maps no other key than the control plane signs with, and the one
\* that was asked for last if none was repeated; for any events.
THEOREM KeysAgreeHolds == Spec => []KeysAgree
<1>1. LInv => KeysAgree
  <2>1. SUFFICES ASSUME LInv, \A i \in DOMAIN Script : status[i] = "acked"
                 PROVE  /\ siglet \in {NoKey, sts}
                        /\ (\A i \in DOMAIN Script : delivered[i] = 1) => siglet = Expected
    BY DEF KeysAgree
  <2>2. siglet \in {NoKey, sts}
    BY <2>1 DEF LInv, MappedOK
  <2>3. ASSUME \A i \in DOMAIN Script : delivered[i] = 1 PROVE siglet = Expected
    <3> DEFINE decisive == {i \in DOMAIN Script : Script[i].kind # "rotated"}
               last == CHOOSE i \in decisive : \A j \in decisive : j <= i
    <3>1. Smooth
      BY <2>1, <2>3 DEF Smooth
    <3>2. Past = decisive
      BY <2>1 DEF Past, Decisive
    <3>3. CASE Past = {} /\ siglet = NoKey
      BY <3>2, <3>3 DEF Expected
    <3>4. CASE \E i \in Past : (\A j \in Past : j <= i) /\ siglet = KeyAfter(i)
      <4>1. PICK i \in decisive : (\A j \in decisive : j <= i) /\ siglet = KeyAfter(i)
        BY <3>2, <3>4
      <4>2. last \in decisive /\ \A j \in decisive : j <= last
        BY <4>1
      <4>3. last = i
        <5>1. i \in Nat /\ last \in Nat /\ i <= last /\ last <= i
          BY <2>1, <4>1, <4>2, ScriptIs DEF LInv
        <5>2. QED
          BY <5>1
      <4>4. Expected = IF decisive # {} /\ Script[last].kind = "activated"
                       THEN Script[last].key ELSE NoKey
        BY DEF Expected
      <4>5. QED
        BY <4>1, <4>3, <4>4 DEF KeyAfter
    <3>5. QED
      BY <2>1, <3>1, <3>3, <3>4 DEF LInv, LastCounts
  <2>4. QED
    BY <2>2, <2>3
<1>2. QED
  BY <1>1, Invariant, PTL

-----------------------------------------------------------------------------
\* Subjects.  subjectCovers and subjectsCollide look at two subjects token by token.
\* What they answer is what JetStream means: whether every concrete subject of one
\* is of the other, and whether the two share one.  For subjects of any length, of
\* any tokens.

\* A subject's tokens, and what it means to match it.
LEMMA SubjectTokens ==
  ASSUME NEW Token, NEW s \in Subjects(Token)
  PROVE  /\ Len(s) \in Nat \ {0} /\ DOMAIN s = 1..Len(s)
         /\ \A i \in 1..Len(s) : s[i] \in Token \union Wildcards
         /\ \A i \in 1..Len(s) : s[i] = ">" => i = Len(s)
  BY DEF Subjects

LEMMA MatchesIff ==
  ASSUME NEW Token, Token \intersect Wildcards = {},
         NEW s \in Subjects(Token), NEW c \in ConcreteSubjects(Token)
  PROVE  Matches(s, c) <=>
           /\ Len(c) >= Len(s)
           /\ s[Len(s)] # ">" => Len(c) = Len(s)
           /\ \A i \in 1..Len(s) : s[i] # ">" => s[i] \in {"*", c[i]}
<1>1. Len(c) \in Nat \ {0}
  BY DEF ConcreteSubjects
<1>2. CASE s[Len(s)] = ">"
  BY <1>1, <1>2, SubjectTokens DEF Matches
<1>3. CASE s[Len(s)] # ">"
  BY <1>1, <1>3, SubjectTokens DEF Matches
<1> QED
  BY <1>2, <1>3

-----------------------------------------------------------------------------
\* subjectCovers.

\* What matches a subject that is covered matches the one that covers it.
LEMMA CoveredMatches ==
  ASSUME NEW Token, Token \intersect Wildcards = {},
         NEW super \in Subjects(Token), NEW sub \in Subjects(Token),
         subjectCovers(super, sub),
         NEW c \in ConcreteSubjects(Token), Matches(sub, c)
  PROVE  Matches(super, c)
<1>1. /\ Len(c) >= Len(sub)
      /\ sub[Len(sub)] # ">" => Len(c) = Len(sub)
      /\ \A i \in 1..Len(sub) : sub[i] # ">" => sub[i] \in {"*", c[i]}
  BY MatchesIff
<1>2. Len(c) \in Nat \ {0}
  BY DEF ConcreteSubjects
<1>3. CASE super[Len(super)] = ">"
  <2>1. /\ Len(sub) >= Len(super)
        /\ \A i \in 1..Len(super) - 1 : TokenCovers(super[i], sub[i])
    BY <1>3 DEF subjectCovers
  <2>2. \A i \in 1..Len(super) : super[i] # ">" => super[i] \in {"*", c[i]}
    BY <1>1, <1>3, <2>1, SubjectTokens DEF TokenCovers
  <2>3. Len(c) >= Len(super)
    BY <1>1, <1>2, <2>1, SubjectTokens
  <2> QED
    BY <1>3, <2>2, <2>3, MatchesIff
<1>4. CASE super[Len(super)] # ">"
  <2>1. /\ Len(sub) = Len(super)
        /\ \A i \in 1..Len(super) : TokenCovers(super[i], sub[i])
    BY <1>4 DEF subjectCovers
  <2>2. sub[Len(sub)] # ">"
    BY <1>4, <2>1, SubjectTokens DEF TokenCovers
  <2>3. \A i \in 1..Len(super) : super[i] \in {"*", c[i]}
    BY <1>1, <2>1, <2>2, SubjectTokens DEF TokenCovers
  <2> QED
    BY <1>1, <1>2, <2>1, <2>2, <2>3, MatchesIff
<1> QED
  BY <1>3, <1>4

\* A subject matches the concrete one that has t for each wildcard.
LEMMA FillMatches ==
  ASSUME NEW Token, Token \intersect Wildcards = {}, NEW s \in Subjects(Token), NEW t \in Token
  PROVE  \E c \in ConcreteSubjects(Token) :
           /\ Len(c) = Len(s) /\ Matches(s, c)
           /\ \A i \in 1..Len(s) : c[i] \in {t, s[i]}
<1>1. PICK n : n = Len(s)
  OBVIOUS
<1>2. n \in Nat \ {0} /\ \A i \in 1..n : s[i] \in Token \union Wildcards
  BY <1>1, SubjectTokens
<1>3. PICK c : c = [i \in 1..n |-> IF s[i] \in Wildcards THEN t ELSE s[i]]
  OBVIOUS
<1>4. \A i \in 1..n : c[i] \in Token /\ c[i] \in {t, s[i]} /\ (s[i] \notin Wildcards => c[i] = s[i])
  BY <1>2, <1>3
<1>5. c \in Seq(Token) /\ Len(c) = n
  BY <1>2, <1>3, <1>4
<1>6. \A i \in 1..n : s[i] # ">" => s[i] \in {"*", c[i]}
  BY <1>4 DEF Wildcards
<1>7. c \in ConcreteSubjects(Token) /\ Matches(s, c)
  <2>1. c \in ConcreteSubjects(Token)
    BY <1>2, <1>5 DEF ConcreteSubjects
  <2> QED
    BY <1>1, <1>2, <1>5, <1>6, <2>1, MatchesIff
<1> QED
  BY <1>1, <1>4, <1>5, <1>7

\* ... and a longer one, if it ends in ">".
LEMMA LongerMatches ==
  ASSUME NEW Token, Token \intersect Wildcards = {}, NEW s \in Subjects(Token), NEW t \in Token,
         s[Len(s)] = ">"
  PROVE  \E d \in ConcreteSubjects(Token) : Len(d) = Len(s) + 1 /\ Matches(s, d)
<1>1. PICK c \in ConcreteSubjects(Token) : Len(c) = Len(s) /\ Matches(s, c)
  BY FillMatches
<1>2. PICK d : d = Append(c, t)
  OBVIOUS
<1>3. Len(s) \in Nat \ {0} /\ c \in Seq(Token)
  BY SubjectTokens DEF ConcreteSubjects
<1>4. d \in Seq(Token) /\ Len(d) = Len(s) + 1 /\ \A i \in 1..Len(s) : d[i] = c[i]
  BY <1>1, <1>2, <1>3
<1>5. d \in ConcreteSubjects(Token)
  BY <1>3, <1>4 DEF ConcreteSubjects
<1>6. \A i \in 1..Len(s) : s[i] # ">" => s[i] \in {"*", c[i]}
  BY <1>1, MatchesIff
<1>7. Matches(s, d)
  BY <1>3, <1>4, <1>5, <1>6, MatchesIff
<1> QED
  BY <1>4, <1>5, <1>7

\* A subject that is not covered matches a concrete one that the other does not,
\* if there is a token that the other does not name.
LEMMA UncoveredDiffers ==
  ASSUME NEW Token, Token \intersect Wildcards = {},
         NEW super \in Subjects(Token), NEW sub \in Subjects(Token),
         NEW t \in Token, \A i \in 1..Len(super) : super[i] # t,
         ~subjectCovers(super, sub)
  PROVE  \E c \in ConcreteSubjects(Token) : Matches(sub, c) /\ ~Matches(super, c)
<1>1. PICK c \in ConcreteSubjects(Token) :
        /\ Len(c) = Len(sub) /\ Matches(sub, c)
        /\ \A i \in 1..Len(sub) : c[i] \in {t, sub[i]}
  BY FillMatches
<1>2. /\ Len(super) \in Nat \ {0} /\ Len(sub) \in Nat \ {0}
      /\ \A i \in 1..Len(super) : super[i] = ">" => i = Len(super)
      /\ \A i \in 1..Len(sub) : sub[i] = ">" => i = Len(sub)
  BY SubjectTokens
<1>3. ASSUME NEW i \in 1..Len(super), i <= Len(sub),
             super[i] \notin {"*", ">"}, super[i] # sub[i]
      PROVE  ~Matches(super, c)
  <2>1. super[i] # c[i]
    BY <1>1, <1>2, <1>3
  <2> QED
    BY <1>3, <2>1, MatchesIff
<1>4. CASE Len(sub) < Len(super) \/ (super[Len(super)] # ">" /\ Len(sub) # Len(super))
  <2>1. ~(Len(c) >= Len(super) /\ (super[Len(super)] # ">" => Len(c) = Len(super)))
    BY <1>1, <1>2, <1>4
  <2>2. ~Matches(super, c)
    BY <2>1, MatchesIff
  <2> QED
    BY <1>1, <2>2
<1>5. CASE super[Len(super)] = ">" /\ Len(sub) >= Len(super)
  <2>1. PICK i \in 1..Len(super) - 1 : ~TokenCovers(super[i], sub[i])
    BY <1>5 DEF subjectCovers
  <2>2. super[i] \notin {"*", ">"} /\ super[i] # sub[i]
    BY <1>2, <1>5, <2>1 DEF TokenCovers
  <2>3. ~Matches(super, c)
    BY <1>2, <1>3, <1>5, <2>2
  <2> QED
    BY <1>1, <2>3
<1>6. CASE super[Len(super)] # ">" /\ Len(sub) = Len(super)
  <2>1. PICK i \in 1..Len(super) : ~TokenCovers(super[i], sub[i])
    BY <1>6 DEF subjectCovers
  <2>2. CASE super[i] = "*"
    \* sub ends in ">" here, and matches what is longer than super.
    <3>1. sub[i] = ">" /\ i = Len(sub)
      BY <1>2, <1>6, <2>1, <2>2 DEF TokenCovers
    <3>2. PICK d \in ConcreteSubjects(Token) : Len(d) = Len(sub) + 1 /\ Matches(sub, d)
      BY <3>1, LongerMatches
    <3>3. ~(super[Len(super)] # ">" => Len(d) = Len(super))
      BY <1>2, <1>6, <3>2
    <3>4. ~Matches(super, d)
      BY <3>3, MatchesIff
    <3> QED
      BY <3>2, <3>4
  <2>3. CASE super[i] # "*"
    <3>1. super[i] \notin {"*", ">"} /\ super[i] # sub[i]
      BY <1>2, <1>6, <2>1, <2>3 DEF TokenCovers
    <3>2. ~Matches(super, c)
      BY <1>2, <1>3, <1>6, <3>1
    <3> QED
      BY <1>1, <3>2
  <2> QED
    BY <2>2, <2>3
<1> QED
  BY <1>2, <1>4, <1>5, <1>6

\* subjectCovers is inclusion.  (Without a token that super does not name there
\* might be nothing to tell "*" from the names of all tokens.)
THEOREM CoversIsInclusion ==
  ASSUME NEW Token, Token \intersect Wildcards = {},
         NEW super \in Subjects(Token), NEW sub \in Subjects(Token),
         NEW t \in Token, \A i \in 1..Len(super) : super[i] # t
  PROVE  subjectCovers(super, sub)
           <=> Language(sub, ConcreteSubjects(Token)) \subseteq Language(super, ConcreteSubjects(Token))
  BY CoveredMatches, UncoveredDiffers DEF Language

-----------------------------------------------------------------------------
\* subjectsCollide.

\* Behind a subject, or at its ">".
End(s) == IF s[Len(s)] = ">" THEN Len(s) ELSE Len(s) + 1

LEMMA EndOfSubject ==
  ASSUME NEW Token, NEW s \in Subjects(Token)
  PROVE  /\ Len(s) \in Nat \ {0} /\ End(s) \in Nat \ {0}
         /\ End(s) = Len(s) \/ End(s) = Len(s) + 1
         /\ End(s) = Len(s) <=> s[Len(s)] = ">"
         /\ \A i \in 1..Len(s) : s[i] = ">" <=> i = End(s)
  BY SubjectTokens DEF End

\* The comparison of two subjects stops at the first end of one.
LEMMA CollideAtEnd ==
  ASSUME NEW Token, NEW a \in Subjects(Token), NEW b \in Subjects(Token)
  PROVE  \E e \in Nat \ {0} :
           /\ e <= End(a) /\ e <= End(b) /\ e \in {End(a), End(b)}
           /\ subjectsCollide(a, b) <=>
                /\ e > Len(a) <=> e > Len(b)
                /\ \A j \in 1..e - 1 : a[j] = "*" \/ b[j] = "*" \/ a[j] = b[j]
<1>1. PICK e : e = IF End(a) <= End(b) THEN End(a) ELSE End(b)
  OBVIOUS
<1>2. /\ e \in 1..Len(a) + 1 /\ e \in Nat \ {0}
      /\ e <= End(a) /\ e <= End(b) /\ e \in {End(a), End(b)}
  BY <1>1, EndOfSubject
<1>3. Stops(a, b, e)
  BY <1>2, EndOfSubject DEF Stops
<1>4. ASSUME NEW j \in 1..e - 1
      PROVE  ~Stops(a, b, j)
  <2>1. ASSUME NEW s \in Subjects(Token), e <= End(s)
        PROVE  ~(j > Len(s)) /\ s[j] # ">"
    <3>1. j < End(s) /\ j \in 1..Len(s)
      BY <1>2, <2>1, EndOfSubject
    <3> QED
      BY <3>1, EndOfSubject
  <2> QED
    BY <1>2, <2>1 DEF Stops
<1>5. (CHOOSE i \in 1..Len(a) + 1 :
         Stops(a, b, i) /\ \A j \in 1..i - 1 : ~Stops(a, b, j)) = e
  <2>1. ASSUME NEW i \in 1..Len(a) + 1, Stops(a, b, i), \A j \in 1..i - 1 : ~Stops(a, b, j)
        PROVE  i = e
    <3>1. ~(i < e) /\ ~(e < i)
      BY <1>2, <1>3, <1>4, <2>1, EndOfSubject
    <3> QED
      BY <1>2, <2>1, <3>1, EndOfSubject
  <2> QED
    BY <1>2, <1>3, <1>4, <2>1
<1> QED
  BY <1>2, <1>5 DEF subjectsCollide

\* Subjects that share a concrete one collide.
LEMMA SharedCollide ==
  ASSUME NEW Token, Token \intersect Wildcards = {},
         NEW a \in Subjects(Token), NEW b \in Subjects(Token),
         NEW c \in ConcreteSubjects(Token), Matches(a, c), Matches(b, c)
  PROVE  subjectsCollide(a, b)
<1>1. PICK e \in Nat \ {0} :
        /\ e <= End(a) /\ e <= End(b) /\ e \in {End(a), End(b)}
        /\ subjectsCollide(a, b) <=>
             /\ e > Len(a) <=> e > Len(b)
             /\ \A j \in 1..e - 1 : a[j] = "*" \/ b[j] = "*" \/ a[j] = b[j]
  BY CollideAtEnd
<1>2. ASSUME NEW s \in Subjects(Token), Matches(s, c)
      PROVE  /\ Len(c) >= Len(s) /\ (End(s) > Len(s) => Len(c) = Len(s))
             /\ \A j \in 1..End(s) - 1 : s[j] \in {"*", c[j]}
  <2>1. /\ Len(c) >= Len(s)
        /\ s[Len(s)] # ">" => Len(c) = Len(s)
        /\ \A i \in 1..Len(s) : s[i] # ">" => s[i] \in {"*", c[i]}
    BY <1>2, MatchesIff
  <2> QED
    BY <2>1, EndOfSubject
<1>3. Len(c) \in Nat
  BY DEF ConcreteSubjects
<1>4. \A j \in 1..e - 1 : a[j] \in {"*", c[j]} /\ b[j] \in {"*", c[j]}
  BY <1>1, <1>2, EndOfSubject
<1>5. e > Len(a) <=> e > Len(b)
  BY <1>1, <1>2, <1>3, EndOfSubject
<1> QED
  BY <1>1, <1>4, <1>5

\* Subjects that collide share a concrete one: the tokens that either names, up to
\* the end of the longer one.
LEMMA CollidersShare ==
  ASSUME NEW Token, Token \intersect Wildcards = {}, NEW t \in Token,
         NEW a \in Subjects(Token), NEW b \in Subjects(Token),
         subjectsCollide(a, b)
  PROVE  \E c \in ConcreteSubjects(Token) : Matches(a, c) /\ Matches(b, c)
<1>1. PICK e \in Nat \ {0} :
        /\ e <= End(a) /\ e <= End(b) /\ e \in {End(a), End(b)}
        /\ e > Len(a) <=> e > Len(b)
        /\ \A j \in 1..e - 1 : a[j] = "*" \/ b[j] = "*" \/ a[j] = b[j]
  BY CollideAtEnd
<1>2. PICK k : k = IF Len(a) >= Len(b) THEN Len(a) ELSE Len(b)
  OBVIOUS
<1>3. k \in Nat \ {0} /\ k >= Len(a) /\ k >= Len(b) /\ k \in {Len(a), Len(b)}
  BY <1>2, SubjectTokens
<1>4. PICK c : c = [j \in 1..k |-> IF j <= Len(a) /\ a[j] \in Token THEN a[j]
                                   ELSE IF j <= Len(b) /\ b[j] \in Token THEN b[j] ELSE t]
  OBVIOUS
<1>5. c \in ConcreteSubjects(Token) /\ Len(c) = k
  <2>1. \A j \in 1..k : c[j] \in Token
    BY <1>4
  <2>2. c \in Seq(Token) /\ Len(c) = k
    BY <1>3, <1>4, <2>1
  <2> QED
    BY <1>3, <2>2 DEF ConcreteSubjects
<1>6. ASSUME NEW j \in 1..Len(a), a[j] # ">"
      PROVE  a[j] \in {"*", c[j]}
  <2>1. a[j] \in Token \union Wildcards /\ j \in 1..k
    BY <1>3, <1>6, SubjectTokens
  <2> QED
    BY <1>4, <1>6, <2>1, SubjectTokens DEF Wildcards
<1>7. ASSUME NEW j \in 1..Len(b), b[j] # ">"
      PROVE  b[j] \in {"*", c[j]}
  <2>1. b[j] \in Token \union Wildcards /\ j \in 1..k
    BY <1>3, <1>7, SubjectTokens
  <2>2. CASE b[j] \in Token
    <3>1. j <= Len(a) /\ a[j] \in Token => a[j] = b[j]
      <4>1. CASE j < e
        BY <1>1, <2>2, <4>1 DEF Wildcards
      \* a has ended, with ">" if at all.
      <4>2. CASE ~(j < e)
        <5>1. e = End(a)
          BY <1>1, <1>7, <4>2, EndOfSubject
        <5>2. j <= Len(a) => a[j] = ">"
          BY <1>1, <4>2, <5>1, EndOfSubject
        <5> QED
          BY <5>2 DEF Wildcards
      <4> QED
        BY <4>1, <4>2
    <3> QED
      BY <1>4, <2>1, <2>2, <3>1
  <2> QED
    BY <1>7, <2>1, <2>2 DEF Wildcards
<1>8. ASSUME NEW s \in {a, b}
      PROVE  s[Len(s)] = ">" \/ Len(s) = k
  BY <1>1, <1>3, EndOfSubject
<1>9. Matches(a, c)
  BY <1>3, <1>5, <1>6, <1>8, MatchesIff
<1>10. Matches(b, c)
  BY <1>3, <1>5, <1>7, <1>8, MatchesIff
<1> QED
  BY <1>5, <1>9, <1>10

\* subjectsCollide is overlap: NATS would refuse a stream with two subjects exactly
\* if the code does.
THEOREM CollideIsOverlap ==
  ASSUME NEW Token, Token \intersect Wildcards = {}, NEW t \in Token,
         NEW a \in Subjects(Token), NEW b \in Subjects(Token)
  PROVE  subjectsCollide(a, b)
           <=> Language(a, ConcreteSubjects(Token)) \intersect Language(b, ConcreteSubjects(Token)) # {}
  BY SharedCollide, CollidersShare DEF Language

-----------------------------------------------------------------------------
\* mergeStreamSubjects.

LEMMA Least ==
  ASSUME NEW S, S \subseteq Nat, S # {}
  PROVE  \E n \in S : \A m \in S : n <= m
<1>1. PICK n \in S : \A m \in S : <<m, n>> \notin OpToRel(<, Nat)
  BY NatLessThanWellFounded, WFMin, Zenon
<1>2. \A m \in S : ~(m < n)
  BY <1>1, Zenon DEF OpToRel
<1>3. n \in S /\ n \in Nat /\ \A m \in S : m \in Nat
  OBVIOUS
<1> HIDE <1>1
<1> QED
  BY <1>2, <1>3

\* What n steps, one function after the other, make of base.
Steps(X, step, base, n) ==
  {g \in [0..n -> X] : g[0] = base /\ \A k \in 1..n : g[k] = step[k][g[k - 1]]}

LEMMA StepsExist ==
  ASSUME NEW X, NEW n \in Nat, NEW step \in [1..n -> [X -> X]], NEW base \in X
  PROVE  Steps(X, step, base, n) # {}
<1> DEFINE Missed == {m \in 0..n : Steps(X, step, base, m) = {}}
<1>1. SUFFICES ASSUME Missed # {} PROVE FALSE
  OBVIOUS
<1>2. PICK m \in Missed : \A k \in Missed : m <= k
  <2>1. Missed \subseteq Nat
    OBVIOUS
  <2> QED
    BY <1>1, <2>1, Least
<1>3. m # 0
  <2> DEFINE g == [k \in 0..0 |-> base]
  <2>1. g \in [0..0 -> X] /\ g[0] = base /\ \A k \in 1..0 : g[k] = step[k][g[k - 1]]
    OBVIOUS
  <2> HIDE DEF g
  <2>2. g \in Steps(X, step, base, 0)
    BY <2>1 DEF Steps
  <2> QED
    BY <2>2
<1>4. m - 1 \in 0..n /\ m - 1 \notin Missed /\ m \in 1..n
  BY <1>2, <1>3
<1>5. PICK g : g \in Steps(X, step, base, m - 1)
  BY <1>4
<1>6. /\ g \in [0..m - 1 -> X] /\ g[0] = base
      /\ \A k \in 1..m - 1 : g[k] = step[k][g[k - 1]]
  BY <1>5 DEF Steps
<1> DEFINE last == step[m][g[m - 1]]
           h == [k \in 0..m |-> IF k = m THEN last ELSE g[k]]
<1>7. last \in X
  BY <1>4, <1>6
<1> HIDE DEF last
<1>8. h \in [0..m -> X] /\ h[0] = base
  BY <1>3, <1>4, <1>6, <1>7
<1>9. ASSUME NEW k \in 1..m PROVE h[k] = step[k][h[k - 1]]
  <2>1. CASE k = m
    BY <1>4, <2>1 DEF last
  <2>2. CASE k # m
    <3>1. k \in 1..m - 1 /\ k - 1 \in 0..m /\ k - 1 # m /\ k \in 0..m
      BY <1>4, <2>2
    <3> QED
      BY <1>6, <2>2, <3>1
  <2> QED
    BY <2>1, <2>2
<1> HIDE DEF h
<1>10. h \in Steps(X, step, base, m)
  BY <1>8, <1>9 DEF Steps
<1> QED
  BY <1>2, <1>10

\* Subjects that do not overlap and carry what they are to carry.
Merges(carried) ==
  {acc \in [ok : BOOLEAN, subjects : SUBSET Subjects(Tokens)] :
     NoOverlap(acc.subjects, Concrete) /\ carried \subseteq Carries(acc.subjects, Concrete)}

LEMMA CoverCarries ==
  ASSUME NEW super \in Subjects(Tokens), NEW sub \in Subjects(Tokens), subjectCovers(super, sub)
  PROVE  Language(sub, Concrete) \subseteq Language(super, Concrete)
BY SubjectAssumption, CoveredMatches DEF Language

LEMMA ApartUnlessCollide ==
  ASSUME NEW a \in Subjects(Tokens), NEW b \in Subjects(Tokens), ~subjectsCollide(a, b)
  PROVE  Language(a, Concrete) \intersect Language(b, Concrete) = {}
BY SubjectAssumption, SharedCollide DEF Language

LEMMA MergeStep ==
  ASSUME NEW carried, NEW acc \in Merges(carried), NEW a \in Subjects(Tokens)
  PROVE  mergeSubject(acc, a) \in Merges(carried)
<1> DEFINE kept == {e \in acc.subjects : ~subjectCovers(a, e)}
<1>1. /\ acc \in [ok : BOOLEAN, subjects : SUBSET Subjects(Tokens)]
      /\ NoOverlap(acc.subjects, Concrete) /\ carried \subseteq Carries(acc.subjects, Concrete)
  BY DEF Merges
<1>2. \/ mergeSubject(acc, a) = acc
      \/ mergeSubject(acc, a) = [ok |-> FALSE, subjects |-> acc.subjects]
      \/ /\ mergeSubject(acc, a) = [ok |-> TRUE, subjects |-> kept \union {a}]
         /\ \A e \in kept : ~subjectsCollide(a, e)
  BY DEF mergeSubject, Merged
<1>3. CASE \/ mergeSubject(acc, a) = acc
           \/ mergeSubject(acc, a) = [ok |-> FALSE, subjects |-> acc.subjects]
  <2> DEFINE r == [ok |-> FALSE, subjects |-> acc.subjects]
  <2>1. r \in [ok : BOOLEAN, subjects : SUBSET Subjects(Tokens)] /\ r.subjects = acc.subjects
    BY <1>1
  <2> HIDE DEF r
  <2>2. r \in Merges(carried)
    BY <1>1, <2>1 DEF Merges
  <2> QED
    BY <1>3, <2>2 DEF r
<1>4. CASE /\ mergeSubject(acc, a) = [ok |-> TRUE, subjects |-> kept \union {a}]
           /\ \A e \in kept : ~subjectsCollide(a, e)
  <2>1. kept \subseteq Subjects(Tokens) /\ kept \subseteq acc.subjects
    BY <1>1
  <2>2. \A e \in kept : Language(a, Concrete) \intersect Language(e, Concrete) = {}
    BY <1>4, <2>1, ApartUnlessCollide
  <2>3. NoOverlap(kept \union {a}, Concrete)
    <3> SUFFICES ASSUME NEW s \in kept \union {a}, NEW t \in kept \union {a}, s # t
                 PROVE  Language(s, Concrete) \intersect Language(t, Concrete) = {}
      BY DEF NoOverlap
    <3>1. CASE s \in kept /\ t \in kept
      BY <1>1, <2>1, <3>1 DEF NoOverlap
    <3>2. CASE s = a \/ t = a
      BY <2>2, <3>2
    <3> QED
      BY <3>1, <3>2
  <2>4. carried \subseteq Carries(kept \union {a}, Concrete)
    <3> SUFFICES ASSUME NEW c \in carried
                 PROVE  \E s \in kept \union {a} : c \in Language(s, Concrete)
      BY DEF Carries
    <3>1. PICK e \in acc.subjects : c \in Language(e, Concrete)
      BY <1>1 DEF Carries
    <3>2. CASE e \in kept
      BY <3>1, <3>2
    <3>3. CASE subjectCovers(a, e)
      BY <1>1, <3>1, <3>3, CoverCarries
    <3> QED
      BY <3>2, <3>3
  <2> HIDE DEF kept
  <2> QED
    BY <1>4, <2>1, <2>3, <2>4 DEF Merges
<1> QED
  BY <1>2, <1>3, <1>4

\* A subject that is merged without an error is carried from then on.
LEMMA MergeStepCarries ==
  ASSUME NEW carried, NEW acc \in Merges(carried), NEW a \in Subjects(Tokens),
         mergeSubject(acc, a).ok
  PROVE  /\ acc.ok
         /\ Carries(acc.subjects, Concrete) \subseteq Carries(mergeSubject(acc, a).subjects, Concrete)
         /\ Language(a, Concrete) \subseteq Carries(mergeSubject(acc, a).subjects, Concrete)
<1>1. /\ acc \in [ok : BOOLEAN, subjects : SUBSET Subjects(Tokens)]
      /\ NoOverlap(acc.subjects, Concrete)
  BY DEF Merges
<1>2. acc \in Merges(Carries(acc.subjects, Concrete))
  BY <1>1 DEF Merges
<1>3. Carries(acc.subjects, Concrete) \subseteq Carries(mergeSubject(acc, a).subjects, Concrete)
  BY <1>2, MergeStep DEF Merges
<1>4. CASE mergeSubject(acc, a) = acc /\ anySubjectCovers(acc.subjects, a)
  <2>1. PICK e \in acc.subjects : subjectCovers(e, a)
    BY <1>4 DEF anySubjectCovers
  <2>2. Language(a, Concrete) \subseteq Language(e, Concrete)
    BY <1>1, <2>1, CoverCarries
  <2>3. Language(a, Concrete) \subseteq Carries(acc.subjects, Concrete)
    BY <2>1, <2>2 DEF Carries
  <2> QED
    BY <1>3, <1>4, <2>3
<1>5. CASE a \in mergeSubject(acc, a).subjects /\ acc.ok
  BY <1>3, <1>5 DEF Carries
<1>6. \/ mergeSubject(acc, a) = acc /\ anySubjectCovers(acc.subjects, a)
      \/ a \in mergeSubject(acc, a).subjects /\ acc.ok
  BY DEF mergeSubject, Merged
<1> QED
  BY <1>3, <1>4, <1>5, <1>6

\* mergeStreamSubjects, whatever the subjects and however many are merged in: the
\* result does not overlap and carries what was carried, and without an error it
\* carries the additional subjects as well.
THEOREM MergeIsSound ==
  ASSUME NEW existing \in SUBSET Subjects(Tokens), NoOverlap(existing, Concrete),
         NEW additional \in Seq(Subjects(Tokens))
  PROVE  LET m == mergeStreamSubjects(existing, additional)
         IN  /\ m.subjects \in SUBSET Subjects(Tokens) /\ NoOverlap(m.subjects, Concrete)
             /\ Carries(existing, Concrete) \subseteq Carries(m.subjects, Concrete)
             /\ m.ok => Carries(Range(additional), Concrete) \subseteq Carries(m.subjects, Concrete)
<1> DEFINE n == Len(additional)
           X == Merges(Carries(existing, Concrete))
           base == Merged(TRUE, existing)
           step == [k \in 1..n |-> [acc \in X |-> mergeSubject(acc, additional[k])]]
           Is(g) == g = [k \in 0..n |-> IF k = 0 THEN base ELSE mergeSubject(g[k - 1], additional[k])]
           merged == CHOOSE g : Is(g)
<1>1. n \in Nat /\ \A k \in 1..n : additional[k] \in Subjects(Tokens)
  OBVIOUS
<1>2. base \in X
  BY DEF Merged, Merges
<1> HIDE DEF n, base, X
<1>3. step \in [1..n -> [X -> X]]
  BY <1>1, MergeStep DEF X
<1>4. Is(merged)
  <2> HIDE DEF step
  <2>1. PICK g : g \in Steps(X, step, base, n)
    BY <1>1, <1>2, <1>3, StepsExist
  <2>2. /\ g \in [0..n -> X] /\ g[0] = base
        /\ \A k \in 1..n : g[k] = step[k][g[k - 1]]
    BY <2>1 DEF Steps
  <2>3. ASSUME NEW k \in 0..n
        PROVE  g[k] = IF k = 0 THEN base ELSE mergeSubject(g[k - 1], additional[k])
    <3>1. CASE k = 0
      BY <2>2, <3>1
    <3>2. CASE k # 0
      <4>1. k \in 1..n /\ k - 1 \in 0..n
        BY <1>1, <3>2
      <4>2. g[k - 1] \in X /\ g[k] = step[k][g[k - 1]]
        BY <2>2, <4>1
      <4>3. step[k][g[k - 1]] = mergeSubject(g[k - 1], additional[k])
        BY <4>1, <4>2 DEF step
      <4> QED
        BY <3>2, <4>2, <4>3
    <3> QED
      BY <3>1, <3>2
  <2>4. g = [k \in 0..n |-> IF k = 0 THEN base ELSE mergeSubject(g[k - 1], additional[k])]
    BY <2>2, <2>3
  <2> QED
    BY <2>4
<1>5. mergeStreamSubjects(existing, additional) = merged[n]
  BY DEF mergeStreamSubjects, n, base
<1> HIDE DEF merged
<1>6. \A k \in 0..n : merged[k] = IF k = 0 THEN base ELSE mergeSubject(merged[k - 1], additional[k])
  BY <1>4
<1>7. \A k \in 0..n : merged[k] \in X
  <2> DEFINE Missed == {k \in 0..n : merged[k] \notin X}
  <2>1. SUFFICES ASSUME Missed # {} PROVE FALSE
    OBVIOUS
  <2>2. PICK k \in Missed : \A j \in Missed : k <= j
    <3>1. Missed \subseteq Nat
      OBVIOUS
    <3> QED
      BY <2>1, <3>1, Least
  <2>3. k # 0
    BY <1>1, <1>2, <1>6
  <2>4. k \in 1..n /\ k - 1 \in 0..n /\ k - 1 \notin Missed
    BY <1>1, <2>2, <2>3
  <2>5. merged[k - 1] \in X
    BY <2>4
  <2>6. merged[k] \in X
    BY <1>1, <1>6, <2>3, <2>4, <2>5, MergeStep DEF X
  <2> QED
    BY <2>6
<1>8. merged[n] \in X
  BY <1>1, <1>7
<1> DEFINE Carried(k) ==
             merged[k].ok => \A j \in 1..k :
               Language(additional[j], Concrete) \subseteq Carries(merged[k].subjects, Concrete)
<1>9. \A k \in 0..n : Carried(k)
  <2> DEFINE Missed == {k \in 0..n : ~Carried(k)}
  <2>1. SUFFICES ASSUME Missed # {} PROVE FALSE
    OBVIOUS
  <2>2. PICK k \in Missed : \A j \in Missed : k <= j
    <3>1. Missed \subseteq Nat
      OBVIOUS
    <3> QED
      BY <2>1, <3>1, Least
  <2>3. k # 0
    OBVIOUS
  <2>4. k \in 1..n /\ k - 1 \in 0..n /\ Carried(k - 1)
    BY <1>1, <2>2, <2>3
  <2>5. merged[k] = mergeSubject(merged[k - 1], additional[k]) /\ additional[k] \in Subjects(Tokens)
    BY <1>1, <1>6, <2>3, <2>4
  <2>6. ASSUME merged[k].ok
        PROVE  /\ merged[k - 1].ok
               /\ Carries(merged[k - 1].subjects, Concrete) \subseteq Carries(merged[k].subjects, Concrete)
               /\ Language(additional[k], Concrete) \subseteq Carries(merged[k].subjects, Concrete)
    BY <1>7, <2>4, <2>5, <2>6, MergeStepCarries DEF X
  <2>7. \A j \in 1..k : j \in 1..k - 1 \/ j = k
    BY <2>4
  <2>8. Carried(k)
    BY <2>4, <2>6, <2>7
  <2> QED
    BY <2>2, <2>8
<1>10. ASSUME merged[n].ok
       PROVE  Carries(Range(additional), Concrete) \subseteq Carries(merged[n].subjects, Concrete)
  <2>1. \A j \in 1..n : Language(additional[j], Concrete) \subseteq Carries(merged[n].subjects, Concrete)
    <3>1. n \in 0..n
      BY <1>1
    <3>2. Carried(n)
      <4> HIDE DEF Carried
      <4> QED
        BY <1>9, <3>1
    <3> QED
      BY <1>10, <3>2
  <2>2. \A s \in Range(additional) : \E j \in 1..n : s = additional[j]
    BY DEF Range, n
  <2> QED
    BY <2>1, <2>2 DEF Carries
<1> QED
  BY <1>5, <1>8, <1>10 DEF X, Merges

-----------------------------------------------------------------------------
\* The stream.

StreamType == [exists : BOOLEAN, subjects : SUBSET Subjects(Tokens)]

\* What the stream has, and what an agent has read of it and will write back, does
\* not overlap; who has a consumer has its subjects carried if no update was lost.
StreamInv ==
  /\ stream \in StreamType /\ NoOverlap(stream.subjects, Concrete)
  /\ seen \in [Agents -> StreamType] /\ \A a \in Agents : NoOverlap(seen[a].subjects, Concrete)
  /\ raced \in BOOLEAN
  /\ consumers \subseteq Agents /\ (consumers # {} => stream.exists)
  /\ ~raced => \A a \in consumers :
       Carries(Range(SubjectsOf[a]), Concrete) \subseteq Carries(stream.subjects, Concrete)

LEMMA AgentSubjectsAre ==
  ASSUME NEW a \in Agents
  PROVE  /\ SubjectsOf[a] \in Seq(Subjects(Tokens))
         /\ Range(SubjectsOf[a]) \in SUBSET Subjects(Tokens)
         /\ NoOverlap(Range(SubjectsOf[a]), Concrete)
<1>1. SubjectsOf[a] \in Seq(Subjects(Tokens)) /\ NoOverlap(Range(SubjectsOf[a]), Concrete)
  BY SubjectAssumption
<1>2. \A i \in DOMAIN SubjectsOf[a] : SubjectsOf[a][i] \in Subjects(Tokens)
  BY <1>1
<1> QED
  BY <1>1, <1>2 DEF Range

\* EnsureStreamSubjects may write back what is no longer so, but nothing that overlaps.
LEMMA UpdateSubjectsKeeps ==
  ASSUME StreamInv, NEW a \in Agents, UpdateSubjects(a)
  PROVE  StreamInv'
<1> DEFINE m == mergeStreamSubjects(seen[a].subjects, SubjectsOf[a])
<1>1. seen' = seen /\ consumers' = consumers
  BY DEF UpdateSubjects
<1>2. /\ m.subjects \in SUBSET Subjects(Tokens) /\ NoOverlap(m.subjects, Concrete)
      /\ Carries(seen[a].subjects, Concrete) \subseteq Carries(m.subjects, Concrete)
  <2>1. seen[a].subjects \in SUBSET Subjects(Tokens) /\ NoOverlap(seen[a].subjects, Concrete)
    BY DEF StreamInv, StreamType
  <2> QED
    BY <2>1, AgentSubjectsAre, MergeIsSound
<1>3. CASE ~stream.exists
  BY <1>1, <1>3 DEF StreamInv, UpdateSubjects
<1>4. CASE stream.exists
  <2>1. /\ stream' = [stream EXCEPT !.subjects = m.subjects]
        /\ raced' = (raced \/ stream # seen[a])
    BY <1>4 DEF UpdateSubjects
  <2> HIDE DEF m
  <2>2. stream' \in StreamType /\ stream'.subjects = m.subjects /\ stream'.exists = stream.exists
    BY <1>2, <2>1 DEF StreamInv, StreamType
  <2>3. ASSUME ~raced', NEW b \in consumers
        PROVE  Carries(Range(SubjectsOf[b]), Concrete) \subseteq Carries(m.subjects, Concrete)
    <3>1. ~raced /\ stream = seen[a]
      BY <2>1, <2>3
    <3>2. Carries(Range(SubjectsOf[b]), Concrete) \subseteq Carries(stream.subjects, Concrete)
      BY <2>3, <3>1 DEF StreamInv
    <3> QED
      BY <1>2, <3>1, <3>2
  <2>4. raced' \in BOOLEAN
    BY <2>1 DEF StreamInv
  <2> QED
    BY <1>1, <1>2, <2>2, <2>3, <2>4 DEF StreamInv
<1> QED
  BY <1>3, <1>4

LEMMA createStreamKeeps ==
  ASSUME StreamInv, NEW a \in Agents, createStream(a)
  PROVE  StreamInv'
<1>1. /\ seen' = seen /\ consumers' = consumers /\ raced' = raced
      /\ stream' = IF stream.exists THEN stream
                   ELSE [exists |-> TRUE, subjects |-> Range(SubjectsOf[a])]
  BY DEF createStream
<1>2. CASE stream.exists
  BY <1>1, <1>2 DEF StreamInv
<1>3. CASE ~stream.exists
  <2>1. /\ stream' \in StreamType /\ stream'.exists
        /\ stream'.subjects = Range(SubjectsOf[a]) /\ NoOverlap(stream'.subjects, Concrete)
    BY <1>1, <1>3, AgentSubjectsAre DEF StreamType
  <2>2. consumers = {}
    BY <1>3 DEF StreamInv
  <2> QED
    BY <1>1, <2>1, <2>2 DEF StreamInv
<1> QED
  BY <1>2, <1>3

\* The server has looked whether the stream carries what a new consumer wants.
LEMMA SetupConsumerKeeps ==
  ASSUME StreamInv, NEW a \in Agents, SetupConsumer(a)
  PROVE  StreamInv'
<1> DEFINE ok == /\ stream.exists
                 /\ \A s \in Range(SubjectsOf[a]) : anySubjectCovers(stream.subjects, s)
<1>1. /\ stream' = stream /\ seen' = seen /\ raced' = raced
      /\ consumers' = IF ok THEN consumers \union {a} ELSE consumers
  BY DEF SetupConsumer
<1>2. CASE ~ok
  BY <1>1, <1>2 DEF StreamInv
<1>3. CASE ok
  <2>1. ASSUME NEW c \in Carries(Range(SubjectsOf[a]), Concrete)
        PROVE  c \in Carries(stream.subjects, Concrete)
    <3>1. PICK s \in Range(SubjectsOf[a]) : c \in Language(s, Concrete)
      BY <2>1 DEF Carries
    <3>2. PICK e \in stream.subjects : subjectCovers(e, s)
      BY <1>3, <3>1 DEF anySubjectCovers
    <3>3. s \in Subjects(Tokens) /\ e \in Subjects(Tokens)
      BY <3>1, <3>2, AgentSubjectsAre DEF StreamInv, StreamType
    <3>4. c \in Language(e, Concrete)
      BY <3>1, <3>2, <3>3, CoverCarries
    <3> QED
      BY <3>4 DEF Carries
  <2>2. consumers' = consumers \union {a} /\ stream.exists
    BY <1>1, <1>3
  <2>3. ~raced => \A b \in consumers' :
          Carries(Range(SubjectsOf[b]), Concrete) \subseteq Carries(stream.subjects, Concrete)
    BY <2>1, <2>2 DEF StreamInv
  <2> QED
    BY <1>1, <2>2, <2>3 DEF StreamInv
<1> QED
  BY <1>2, <1>3

LEMMA ReadSubjectsKeeps ==
  ASSUME StreamInv, NEW a \in Agents, ReadSubjects(a)
  PROVE  StreamInv'
<1>1. /\ stream' = stream /\ consumers' = consumers /\ raced' = raced
      /\ seen' = [seen EXCEPT ![a] = stream]
  BY DEF ReadSubjects
<1>2. /\ seen' \in [Agents -> StreamType]
      /\ \A b \in Agents : seen'[b] = IF b = a THEN stream ELSE seen[b]
  BY <1>1 DEF StreamInv
<1> QED
  BY <1>1, <1>2 DEF StreamInv

LEMMA DeleteKeepsStream ==
  ASSUME StreamInv, Delete
  PROVE  StreamInv'
<1>1. seen' = seen
  BY DEF Delete
<1>2. CASE consumers' = consumers \ {Me} /\ UNCHANGED <<stream, raced>>
  BY <1>1, <1>2 DEF StreamInv
<1>3. CASE /\ stream' = [stream EXCEPT !.exists = FALSE, !.subjects = {}]
           /\ consumers' = {} /\ raced' = FALSE
  <2>1. stream' \in StreamType /\ stream'.subjects = {}
    BY <1>3 DEF StreamInv, StreamType
  <2>2. NoOverlap({}, Concrete)
    BY DEF NoOverlap
  <2> QED
    BY <1>1, <1>3, <2>1, <2>2 DEF StreamInv
<1> QED
  BY <1>2, <1>3 DEF Delete

LEMMA NextKeepsStream == StreamInv /\ [Next]_vars => StreamInv'
<1> SUFFICES ASSUME StreamInv, [Next]_vars PROVE StreamInv'
  OBVIOUS
<1>1. ASSUME UNCHANGED <<stream, seen, consumers, raced>> PROVE StreamInv'
  BY <1>1 DEF StreamInv
<1>2. ASSUME NEW a \in Agents, SetUp(a) PROVE StreamInv'
  <2>1. CASE LookUp(a)
    BY <1>1, <2>1 DEF LookUp
  <2> QED
    BY <1>2, <2>1, createStreamKeeps, ReadSubjectsKeeps, UpdateSubjectsKeeps, SetupConsumerKeeps
    DEF SetUp
<1>3. CASE Loop
  BY <1>1, <1>3 DEF Loop, Fetch, FetchGone, Backoff
<1>4. CASE Handle
  BY <1>1, <1>4 DEF Handle, GetToken, TokenArrives, Call, NotProvisioned, Done, Settled, setup
<1>5. CASE Publish \/ Provision \/ Tick
  BY <1>1, <1>5 DEF Publish, Provision, Tick, setup
<1>6. CASE FetchFails \/ CallFails \/ Crash
  BY <1>1, <1>6 DEF FetchFails, CallFails, Crash, Settled
<1>7. CASE Delete
  BY <1>7, DeleteKeepsStream
<1>8. CASE UNCHANGED vars
  BY <1>1, <1>8 DEF vars, setup
<1> QED
  BY <1>2, <1>3, <1>4, <1>5, <1>6, <1>7, <1>8 DEF Next

LEMMA InitHoldsStream == Init => StreamInv
<1> SUFFICES ASSUME Init PROVE StreamInv
  OBVIOUS
<1>1. /\ scenario \in Scenarios /\ stream = scenario.stream /\ consumers = scenario.running
      /\ seen = [a \in Agents |-> stream] /\ raced = FALSE
  BY DEF Init
<1>2. /\ stream \in StreamType /\ NoOverlap(stream.subjects, Concrete)
      /\ consumers \subseteq Agents /\ (consumers # {} => stream.exists)
      /\ \A a \in consumers :
           Carries(Range(SubjectsOf[a]), Concrete) \subseteq Carries(stream.subjects, Concrete)
  BY <1>1, SubjectAssumption DEF StreamType
<1> QED
  BY <1>1, <1>2 DEF StreamInv

\* StreamIsSound: EnsureStreamSubjects never leaves the stream with subjects that
\* overlap, and every agent that has its consumer has its subjects carried unless an
\* update has overwritten another; for any agents, subjects and wildcards.
THEOREM StreamIsSoundHolds == Spec => []StreamIsSound
<1>1. StreamInv => StreamIsSound
  BY DEF StreamInv, StreamIsSound
<1> QED
  BY <1>1, InitHoldsStream, NextKeepsStream, PTL DEF Spec
=============================================================================
