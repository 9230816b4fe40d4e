SPECIFICATION Spec
INVARIANT PublicAnswered
