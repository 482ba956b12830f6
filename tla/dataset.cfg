SPECIFICATION DatasetSpec
CONSTANTS
    Roster = 2
    CeilsUp <- MCCeilsUp
    Configs <- MCConfigs
    Revisions <- MCRevisions
    Edited = {3}
    Texts <- MCTexts
    MaxEdits = 2
    MaxWrites = 2
INVARIANTS PlanIsExact SplitsAreSound KeyIsNotAhead QuietStartServesOneWriting CasesAreServed
