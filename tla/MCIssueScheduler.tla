--------------------------- MODULE MCIssueScheduler ---------------------------
EXTENDS IssueScheduler
=============================================================================
