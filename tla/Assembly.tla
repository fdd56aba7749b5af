------------------------------ MODULE Assembly ------------------------------
(***************************************************************************)
(* The two users of the dependency graph.  The service assembler starts    *)
(* and stops the assemblies of a process, after the services they require  *)
(* of each other.  The Provision Manager accepts the definition of an      *)
(* orchestration and makes a plan of it, after the activities' dependsOn.  *)
(***************************************************************************)
EXTENDS Dag

CONSTANTS
  Systems,     \* assemblies: the order they are registered in, what each provides
               \* and requires
  Definitions, \* definitions: their type, and what each activity depends on, outputs,
               \* requires and takes with another type than it is output with
  Given        \* the fields of every orchestration's manifest

\* Assemblies are registered one after another, and a definition is of finitely many
\* activities.
ASSUME AssemblyAssumption ==
  /\ \A s \in Systems : s.order \in Seq(Range(s.order))
  /\ \A d \in Definitions : IsFiniteSet(DOMAIN d.dependsOn)

VARIABLES
  use,      \* "assemble" or "plan"
  input,    \* the system or the definition
  done,     \* the assemblies that went through each of the calls, in order
  registry, \* services that are registered
  signal,   \* the process was told to stop
  steps     \* the plan: Orchestration.Steps

user == <<use, input>>
runtime == <<done, registry, signal>>
sorting == <<phase, edges, search, order, grouping>>
vars == <<user, runtime, steps, sorting>>

Calls == <<"init", "prepare", "start", "finalize", "shutdown">>

-----------------------------------------------------------------------------
\* ServiceAssembler.

\* The assembly that provides a service: the one registered last.
mappedAssemblies(s, service) ==
  LET i == CHOOSE i \in DOMAIN s.order :
             /\ service \in s.provides[s.order[i]]
             /\ \A j \in i + 1..Len(s.order) : service \notin s.provides[s.order[j]]
  IN  s.order[i]

\* A service that nobody provides.
MissingService(s) ==
  \E a \in Range(s.order) : \E service \in s.requires[a] :
    \A b \in Range(s.order) : service \notin s.provides[b]

AssemblyGraph(s) ==
  Graph(Range(s.order), [a \in Range(s.order) |->
                           {mappedAssemblies(s, service) : service \in s.requires[a]}])

\* Mutant: the assemblies are called in the order of the sort.
CallOrder_Unreversed == sorted

\* Dependencies come last in the sort.
CallOrder == Reverse(sorted)

\* The call of the next assembly in line; Init registers its services.
CallNext(call) ==
  LET a == CallOrder[Len(done[call]) + 1]
  IN  /\ phase = call
      /\ Len(done[call]) < Len(CallOrder)
      /\ done' = [done EXCEPT ![call] = Append(@, a)]
      /\ registry' = IF call = "init" THEN registry \union input.provides[a] ELSE registry
      /\ UNCHANGED <<user, signal, steps, sorting>>

\* The call fails: the others are not made, and what was started stays.
CallFails(call) ==
  /\ phase = call
  /\ Len(done[call]) < Len(CallOrder)
  /\ phase' = IF call \in {"finalize", "shutdown"} THEN "down" ELSE "panic"
  /\ UNCHANGED <<user, runtime, steps, edges, search, order, grouping>>

\* Assemble goes on with the next phase, AssembleAndLaunch waits for the signal,
\* Shutdown finalizes and then shuts down.
Following(call) ==
  [init |-> "prepare", prepare |-> "start", start |-> "running",
   finalize |-> "shutdown", shutdown |-> "down"][call]

EndCalls(call) ==
  /\ phase = call
  /\ Len(done[call]) = Len(CallOrder)
  /\ phase' = Following(call)
  /\ UNCHANGED <<user, runtime, steps, edges, search, order, grouping>>

\* Assemble, once it has sorted.
BeginCalls ==
  /\ use = "assemble" /\ phase \in {"sorted", "cycle"}
  /\ phase' = IF phase = "sorted" THEN "init" ELSE "panic"
  /\ UNCHANGED <<user, runtime, steps, edges, search, order, grouping>>

\* The shutdown channel is closed, at any time; nobody looks before the start is
\* complete.
Signal ==
  /\ use = "assemble" /\ ~signal
  /\ signal' = TRUE
  /\ UNCHANGED <<user, done, registry, steps, sorting>>

BeginShutdown ==
  /\ phase = "running" /\ signal
  /\ phase' = "finalize"
  /\ UNCHANGED <<user, runtime, steps, edges, search, order, grouping>>

-----------------------------------------------------------------------------
\* Definitions and plans.

Unknown(d) == \E a \in DOMAIN d.dependsOn : ~(d.dependsOn[a] \subseteq DOMAIN d.dependsOn)

\* Two dependencies output one field, or one that is given.
Duplicated(d, a) ==
  \/ \E b \in d.dependsOn[a] : d.outputs[b] \intersect Given # {}
  \/ \E b, c \in d.dependsOn[a] : b # c /\ d.outputs[b] \intersect d.outputs[c] # {}

\* The fields that an activity can count on.
mergedOutputs(d, a) == Given \union UNION {d.outputs[b] : b \in d.dependsOn[a]}

\* Mutant: required fields are looked for in the outputs of all activities.
validateActivitySchema_AllOutputs(d) ==
  \A a \in DOMAIN d.dependsOn :
    /\ ~Duplicated(d, a)
    /\ d.required[a] \subseteq Given \union UNION {d.outputs[b] : b \in DOMAIN d.dependsOn}
    /\ d.mistyped[a] \intersect mergedOutputs(d, a) = {}

\* validateActivitySchema finds no error.
validateActivitySchema(d) ==
  \A a \in DOMAIN d.dependsOn :
    /\ ~Duplicated(d, a)
    /\ d.required[a] \subseteq mergedOutputs(d, a)
    /\ d.mistyped[a] \intersect mergedOutputs(d, a) = {}

\* InstantiateOrchestration: the levels in reverse are the steps.
Instantiate ==
  /\ use = "plan" /\ phase \in {"sorted", "cycle"}
  /\ phase' = IF phase = "sorted" THEN "planned" ELSE "refused"
  /\ steps' = IF phase = "sorted" THEN Reverse(levels) ELSE <<>>
  /\ UNCHANGED <<user, runtime, edges, search, order, grouping>>

-----------------------------------------------------------------------------
Idle ==
  /\ done = [c \in Range(Calls) |-> <<>>]
  /\ registry = {}
  /\ signal = FALSE
  /\ steps = <<>>
  /\ NewSearch

\* Assemble refuses a service that is missing.
InitSystem ==
  /\ use = "assemble"
  /\ input \in Systems
  /\ edges = IF MissingService(input) THEN << >> ELSE AssemblyGraph(input)
  /\ phase = IF MissingService(input) THEN "panic" ELSE "detect"

\* CreateOrchestrationDefinition validates a deploy definition, which panics on an
\* activity that is not there.  Nothing else checks for those, or for cycles,
\* before a definition is instantiated.
InitDefinition ==
  /\ use = "plan"
  /\ input \in Definitions
  /\ edges = Graph(DOMAIN input.dependsOn, input.dependsOn)
  /\ phase = IF ~Unknown(input) /\ (input.type = "deploy" => validateActivitySchema(input))
             THEN "detect" ELSE "refused"

Init == (InitSystem \/ InitDefinition) /\ Idle

Sort ==
  /\ SortStep(use = "plan")
  /\ UNCHANGED <<user, runtime, steps>>

\* A process that panicked or stopped, or a plan that is made or refused.
Terminated == phase \in {"panic", "down", "planned", "refused"} /\ UNCHANGED vars

Next ==
  \/ Sort \/ BeginCalls \/ Signal \/ BeginShutdown \/ Instantiate \/ Terminated
  \/ \E call \in Range(Calls) : CallNext(call) \/ CallFails(call) \/ EndCalls(call)

Spec == Init /\ [][Next]_vars

-----------------------------------------------------------------------------
\* Properties.

IsPath(p) == \A i \in 1..Len(p) - 1 : p[i + 1] \in edges[p[i]]

\* Whatever order the map is iterated in, a cycle is reported exactly if there is
\* one, the reported path is one, and a sort has every vertex once and before the
\* vertices it depends on.
SortIsRight ==
  /\ phase = "cycle" =>
       /\ Cyclic
       /\ IsPath(cyclePath) /\ Len(cyclePath) > 1 /\ cyclePath[1] = Last(cyclePath)
  /\ phase \in {"sorted", "level"} =>
       /\ ~Cyclic
       /\ IsInjective(sorted) /\ Range(sorted) = Vertices
       /\ \A v \in Vertices : \A u \in edges[v] : IndexIn(v) < IndexIn(u)

Before(call, a) == a \in Range(done[call])

\* Init, Prepare and Start of an assembly find done what they may rely on: the
\* same call of every assembly it requires, directly or not, all earlier calls of
\* all assemblies, and its services registered.  Each call is made once, and none
\* to shut down before the start is complete.
CalledInOrder ==
  use = "assemble" =>
    \A i \in DOMAIN Calls :
      /\ IsInjective(done[Calls[i]])
      /\ \A a \in Range(done[Calls[i]]) :
           /\ input.requires[a] \subseteq registry
           /\ i <= 3 => \A b \in Reaches(a) : Before(Calls[i], b)
           /\ \A j \in 1..i - 1 : \A b \in Vertices : Before(Calls[j], b)

\* A plan has every activity in one step, the activities it depends on in earlier
\* steps, and in a deployment each field that it requires is given or output by an
\* activity of an earlier step.
PlanIsSound ==
  phase = "planned" =>
    LET StepOf(a) == CHOOSE i \in DOMAIN steps : a \in steps[i]
    IN  /\ UNION Range(steps) = Vertices
        /\ \A i, j \in DOMAIN steps : i # j => steps[i] \intersect steps[j] = {}
        /\ \A i \in DOMAIN steps : steps[i] # {}
        /\ \A a \in Vertices : \A b \in Reaches(a) : StepOf(b) < StepOf(a)
        /\ input.type = "deploy" => \A a \in Vertices : input.required[a] \subseteq
             Given \union UNION {input.outputs[b] : b \in UNION {steps[i] : i \in 1..StepOf(a) - 1}}
=============================================================================
