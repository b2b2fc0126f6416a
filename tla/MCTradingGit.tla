---------------------------- MODULE MCTradingGit ----------------------------
EXTENDS TradingGit
CONSTANTS a1, a2
=============================================================================
