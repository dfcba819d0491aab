CONSTANT Settings <- MCSettings
SPECIFICATION Spec
INVARIANT BlocksIndependent
