SPECIFICATION Spec
CONSTANTS
    Inputs <- InputsDef
    Upstream <- UpstreamDef
    Namespaces <- NamespacesDef
    Other <- OtherDef
    Variants = {"", "v", "blank"}
    EnvKey = "e1"
    MaxChanges = 3
INVARIANTS
    StartsWhatHostChose
    ValidBundleStarts
    OptionsReachTheirPhase
    ArgumentsAreShared
