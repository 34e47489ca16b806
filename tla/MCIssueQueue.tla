---------------------------- MODULE MCIssueQueue ----------------------------
EXTENDS IssueQueue, TLC

CONSTANTS e1, e2, e3

SymEntries == Permutations(Entry)
=============================================================================
