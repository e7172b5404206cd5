SPECIFICATION Spec
CONSTANTS
    zip = zip
    again = again
    Jobs <- MCJobs
    ZipJobs <- MCZipJobs
    Total <- MCTotal
    Concurrency = 2
CHECK_DEADLOCK FALSE
INVARIANTS
    TypeOK
    PermitsBalance
    OkResultsAreTrue
    CompletedIsComplete
PROPERTIES
    ContractSpec
    JobsComplete
