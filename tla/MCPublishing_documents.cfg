\* Emails, posts and courses written, scheduled, edited and removed while the
\* workers are at it; failing calls and mails, late answers, a restart.
SPECIFICATION Spec
CONSTANTS
    r1 = r1
    r2 = r2
    d1 = d1
    Requests = {r1, r2}
    Drafts = {d1}
    People = {"ann", "bob"}
    Audience <- Sizes
    MaxTries = 3
    BatchSize = 1
    MaxDate = 3
    MaxJobs = 2
    MaxRestarts = 1
    Casts <- Documents
    Nothing = Nothing
CHECK_DEADLOCK FALSE
INVARIANTS
    SentIsMailed
    ScheduledIsPlanned
PROPERTIES
    JobMatchesItsRow
    ScheduledComesTrue
