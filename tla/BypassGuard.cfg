\* Every combination of the fields PreventBypassing reads, against the spec's chain.
SPECIFICATION Spec
INVARIANT BypassAgreesWithSpec
