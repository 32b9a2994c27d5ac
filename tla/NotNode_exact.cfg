CONSTANT N = 5
SPECIFICATION Spec
INVARIANT FindFirstLocalExact
