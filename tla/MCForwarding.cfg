SPECIFICATION Explored
CONSTANTS
    Focuses = {"commands"}
    Stoppers = {s1, s2}
    Runners = {r1}
    MaxStarts = 2
    MaxCycles = 2
    Mapping <- MCMapping
    Days <- MCDays
    Data <- MCData
    Accounts <- MCAccounts
    Installations <- MCInstallations
    Scores <- MCScores
    Repositories <- MCRepositories
    Homes <- MCHomes
    Questionnaires <- MCQuestionnaires
    Environments <- MCEnvironments
    Payloads <- MCPayloads
    RuleFiles <- MCRuleFiles
    ContinueOnError = {TRUE, FALSE}
    MaxRuns = 3
    ReadRuns = 1
    MaxRefused = 2
INVARIANT ForwardedIsLogged
CHECK_DEADLOCK FALSE
