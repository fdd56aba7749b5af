CONSTANTS
  Systems <- SomeSystems
  Definitions <- SomeDefinitions
  Given = {"g"}
SPECIFICATION Spec
INVARIANTS SortIsRight CalledInOrder PlanIsSound
