SPECIFICATION FairSpec
CONSTANTS
    MaxEntries = 3
    MaxCalls = 2
    FilesFor <- FewThenMany
    NoFile = NoFile
INVARIANTS TypeOK CopiesComeFromRetries NameFitsUnlessOvertaken ReadFileShowsOutcome RowsAreThoseWritten
PROPERTIES SubmittingEnds
