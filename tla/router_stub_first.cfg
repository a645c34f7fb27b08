\* Every need, any set of configured providers.
SPECIFICATION Spec
INVARIANT StubIsLastResort
