SPECIFICATION Explored
CONSTANTS
    Focuses = {"daemon", "collecting", "commands", "verdicts"}
    Stoppers = {s1, s2}
    Runners = {r1}
    MaxStarts = 2
    MaxCycles = 2
    Mapping <- MCMapping
    Days <- MCDays
    Data <- MCData
    Accounts <- MCAccounts
    Installations <- MCInstallations
    Scores <- MCScores
    Repositories <- MCRepositories
    Homes <- MCHomes
    Questionnaires <- MCQuestionnaires
    Environments <- MCEnvironments
    Payloads <- MCPayloads
    RuleFiles <- MCRuleFiles
    ContinueOnError = {TRUE, FALSE}
    MaxRuns = 3
    ReadRuns = 1
    MaxRefused = 2
INVARIANTS
    OneLoop
    NumbersInOrder
    SuccessIsComplete
    PassIsEarned
    WorseNeverScoresHigher
    DenialIsVisible
    DriftFollowsAccount
    ReadyHasNoDeadPillar
    MissingNeverPasses
    CompliantRepoIsReviewed
    CompliantHomeHasNoFailure
PROPERTIES
    LoopsEnd
CHECK_DEADLOCK FALSE
