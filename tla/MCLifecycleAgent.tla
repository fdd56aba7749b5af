-------------------------- MODULE MCLifecycleAgent --------------------------
EXTENDS LifecycleAgent

Two == {"a", "b"}
SomeConcrete == {<<s>> : s \in Two} \union {<<s, t>> : s, t \in Two}
                \union {<<s, t, u>> : s, t, u \in Two}

\* The key agent and a second one, one of whose subjects is broader.
AgentSubjects == (Me :> <<<<"a", "a">>, <<"a", "b">>>>) @@ ("other" :> <<<<"b", ">">>, <<"a", "*">>>>)

Stream(exists, subjects) == [exists |-> exists, subjects |-> subjects]
Event(kind, key) == [kind |-> kind, key |-> key]

\* The agents set up a stream that does not exist, has subjects of others, has
\* broader ones, or has one that overlaps.
SetUps ==
  {[stream |-> s, running |-> {}, creators |-> c, events |-> <<Event("activated", "k1")>>] :
     s \in {Stream(FALSE, {}), Stream(TRUE, {<<"a", "b">>, <<"b", "a", "b">>}),
            Stream(TRUE, {<<"a", ">">>}), Stream(TRUE, {<<"*", "b">>})},
     c \in {{Me, "other"}, {Me}, {"other"}}}

\* Keys are activated, rotated and revoked, on a stream that is set up.
KeyEvents ==
  {[stream |-> Stream(TRUE, {<<"b", ">">>, <<"a", "*">>}), running |-> Agents,
    creators |-> Agents, events |-> e] :
     e \in {<<Event("activated", "k1"), Event("rotated", "k1"), Event("activated", "k2")>>,
            <<Event("activated", "k1"), Event("revoked", "k1")>>}}

AllScenarios == SetUps \union KeyEvents
=============================================================================
