CONSTANT Items = 16
SPECIFICATION SemFairSpec
INVARIANT OneToken
PROPERTIES AllPrinted SemImplementsChannel
