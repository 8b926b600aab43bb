CONSTANTS
    Methods <- MCMethods
    Urls <- MCUrls
    RawStrings <- MCRawStrings
    MaxParams = 2
    MaxHeaders = 1
SPECIFICATION Spec
INVARIANTS TypeOK BaseStringDeterministic BaseStringReadsBack
