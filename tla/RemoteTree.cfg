\* One session and everybody else.
SPECIFICATION Spec
CONSTANTS
    s1 = s1
    Sessions = {s1}
    VirtualRootConfig <- MCVirtualRoot
    RootPathConfig <- MCRootPath
    BeginsOf <- MCBeginsOf
    Start <- MCStart
    StartText <- MCStartText
    Texts <- MCTexts
    May <- MCMay
    Args <- MCArgs
    Probes <- MCProbes
    Suffixed = {"f.part", "f.part-1"}
    Marked = {"f.part-1"}
    AllowMkdir = TRUE
    AllowDelete = TRUE
INVARIANTS
    TypeOK
    PathMeansWalk
    RoundTrip
    
    ListingFaithful
