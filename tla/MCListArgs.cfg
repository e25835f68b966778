CONSTANTS
    Tokens <- MCTokens
    MaxArgs = 4

SPECIFICATION Spec

\* parseArgs returns; main() then stops or goes on to fetch().
CHECK_DEADLOCK FALSE

INVARIANT ListTypesValid
INVARIANT VintfTargetKnown
 
