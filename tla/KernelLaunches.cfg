SPECIFICATION Spec
CONSTANT Calls <- MCCalls
INVARIANTS ResultsExact NoRace NothingStray
