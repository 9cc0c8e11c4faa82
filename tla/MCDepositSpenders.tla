-------------------------- MODULE MCDepositSpenders --------------------------
EXTENDS DepositSpenders
=============================================================================
