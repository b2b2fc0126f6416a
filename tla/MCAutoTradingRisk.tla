-------------------------- MODULE MCAutoTradingRisk --------------------------
EXTENDS AutoTradingRisk
CONSTANTS auto1, user
=============================================================================
